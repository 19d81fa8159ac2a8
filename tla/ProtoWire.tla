----------------------------- MODULE ProtoWire -----------------------------
(***************************************************************************)
(* Messages on the wire and in files.  What is written is a sequence of    *)
(* items, each a tag and a value: a number, a text, packed numbers, or the *)
(* items of a message.  How an item of each kind is laid out is the        *)
(* library's, which fields are written, read, counted and merged is what   *)
(* the tables of ProtoMessages say.                                        *)
(*                                                                         *)
(* A field that is one message or none is a sequence of at most one.       *)
(* Fields hold values of their own width, so no number is cut.             *)
(***************************************************************************)
EXTENDS ProtoMessages, SequencesExt, FiniteSetsExt

Default(type) == Schema[type].clear @@ ("unknown" :> <<>>)

\* Stands for a text that is not UTF-8.
BadText == "?"

Item(tag, how, val) == [tag |-> tag, how |-> how, val |-> val]

Numbers == {"UInt32", "UInt64", "Int64"}

RECURSIVE Serialize(_, _)
\* One field; a value that is the default is not written.
WriteField(m, e) ==
  LET tag == 8 * e[1]
      v == m[e[3]]
      sub(x) == Item(tag + 2, "items", Serialize(e[4], x))
      entry(k) == Item(tag + 2, "items",
                    << Item(8, "number", k), Item(18, "items", Serialize(e[4], v[k])) >>)
      keys == SetToSortSeq(DOMAIN v, LAMBDA a, b : a < b)
  IN  CASE e[2] \in Numbers -> IF v = 0 THEN <<>> ELSE <<Item(tag, "number", v)>>
        [] e[2] = "Bool"    -> IF v THEN <<Item(tag, "number", 1)>> ELSE <<>>
        [] e[2] = "string"  -> IF v = "" THEN <<>> ELSE <<Item(tag + 2, "text", v)>>
        [] e[2] = "packed"  -> IF v = <<>> THEN <<>> ELSE <<Item(tag + 2, "packed", v)>>
        [] e[2] = "map"     -> [k \in DOMAIN keys |-> entry(keys[k])]
        [] OTHER            -> [k \in DOMAIN v |-> sub(v[k])]

Serialize(type, m) ==
  FlattenSeq([k \in DOMAIN Schema[type].write |-> WriteField(m, Schema[type].write[k])])
  \o m.unknown

-----------------------------------------------------------------------------
\* Bytes of a number; a negative one has ten.
VarintSize(v) == IF v < 0 THEN 10 ELSE IF v < 128 THEN 1 ELSE IF v < 16384 THEN 2 ELSE 3

WithLength(n) == VarintSize(n) + n

PackedSize(s) == FoldLeft(LAMBDA n, v : n + VarintSize(v), 0, s)

RECURSIVE ItemsSize(_)
ItemSize(i) ==
  VarintSize(i.tag) +
  CASE i.how = "number" -> VarintSize(i.val)
    [] i.how = "text"   -> WithLength(Len(i.val))
    [] i.how = "packed" -> WithLength(PackedSize(i.val))
    [] i.how = "items"  -> WithLength(ItemsSize(i.val))
ItemsSize(s) == FoldLeft(LAMBDA n, i : n + ItemSize(i), 0, s)

RECURSIVE ByteSize(_, _)
\* Every tag is counted as one byte.
FieldSize(m, e) ==
  LET v == m[e[2]]
      sub(n, x) == n + 1 + WithLength(ByteSize(e[3], x))
      entry(k) == 1 + WithLength(1 + VarintSize(k) + 1 + WithLength(ByteSize(e[3], v[k])))
  IN  CASE e[1] \in Numbers -> IF v = 0 THEN 0 ELSE 1 + VarintSize(v)
        [] e[1] = "Bool"    -> IF v THEN 1 + 1 ELSE 0
        [] e[1] = "string"  -> IF v = "" THEN 0 ELSE 1 + WithLength(Len(v))
        [] e[1] = "packed"  -> IF v = <<>> THEN 0 ELSE 1 + WithLength(PackedSize(v))
        [] e[1] = "map"     -> MapThenSumSet(entry, DOMAIN v)
        [] OTHER            -> FoldLeft(sub, 0, v)

ByteSize(type, m) ==
  MapThenSumSet(LAMBDA e : FieldSize(m, e), Schema[type].size) + ItemsSize(m.unknown)

-----------------------------------------------------------------------------
Failed == [ok |-> FALSE, msg |-> EmptyMap]

RECURSIVE ParseInto(_, _, _)
\* The value of an item goes into its field; one with an unknown tag is kept.
\* A text that is not UTF-8, here or further down, fails the whole parse.
ParseItem(type, m, i) ==
  LET es == {e \in Schema[type].parse : e[1] = i.tag}
      e == CHOOSE x \in es : TRUE
      f == e[3]
      into(v) == [ok |-> TRUE, msg |-> [m EXCEPT ![f] = v]]
      sub(old, items) == ParseInto(e[4], old, items)
      checked(r, v) == IF r.ok THEN into(v) ELSE Failed
      fresh == Default(e[4])
  IN  IF es = {} THEN [ok |-> TRUE, msg |-> [m EXCEPT !.unknown = Append(@, i)]]
      ELSE CASE e[2] \in {"varint32", "varint64"} -> into(i.val)
             [] e[2] = "bool"     -> into(i.val # 0)
             [] e[2] = "string"   -> IF i.val = BadText THEN Failed ELSE into(i.val)
             [] e[2] = "append"   -> into(Append(m[f], i.val))
             [] e[2] = "packed"   -> into(m[f] \o i.val)
             [] e[2] = "messages" -> LET r == sub(fresh, i.val)
                                     IN  checked(r, Append(m[f], r.msg))
             [] e[2] = "message"  -> LET r == sub(IF m[f] = <<>> THEN fresh ELSE m[f][1], i.val)
                                     IN  checked(r, <<r.msg>>)
             [] e[2] = "map"      -> LET r == sub(fresh, i.val[2].val)
                                     IN  checked(r, i.val[1].val :> r.msg @@ m[f])

ParseInto(type, m, items) ==
  FoldLeft(LAMBDA r, i : IF r.ok THEN ParseItem(type, r.msg, i) ELSE r,
           [ok |-> TRUE, msg |-> m], items)

-----------------------------------------------------------------------------
RECURSIVE MergeFrom(_, _, _)
\* A field that is set in from is set in to; lists are joined.
MergeField(type, to, from, f) ==
  LET es == {e \in Schema[type].merge : e[2] = f}
      e == CHOOSE x \in es : TRUE
  IN  CASE f = "unknown" -> to[f] \o from[f]
        [] f # "unknown" /\ es = {} -> to[f]
        [] e[1] = "set" -> IF from[f] = Default(type)[f] THEN to[f] ELSE from[f]
        [] e[1] = "merge" -> to[f] \o from[f]
        [] e[1] = "merge map" -> from[f] @@ to[f]
        [] e[1] = "message" ->
             IF from[f] = <<>> THEN to[f]
             ELSE <<MergeFrom(e[3], IF to[f] = <<>> THEN Default(e[3]) ELSE to[f][1],
                              from[f][1])>>

MergeFrom(type, to, from) == [f \in DOMAIN to |-> MergeField(type, to, from, f)]

\* Clear, then MergeFrom.
CopyFrom(type, from) == MergeFrom(type, Default(type), from)

\* A reply or a graph that is dumped to a file and loaded again.
Reloaded(type, m) == ParseInto(type, Default(type), Serialize(type, m))

-----------------------------------------------------------------------------
\* The texts in a message and all below.
RECURSIVE IsText(_, _)
IsText(type, m) ==
  \A k \in DOMAIN Schema[type].write :
    LET e == Schema[type].write[k]
        v == m[e[3]]
    IN  /\ e[2] = "string" => v # BadText
        /\ e[2] \in {"message", "messages", "map"} => \A x \in DOMAIN v : IsText(e[4], v[x])

\* What is written has the size that was announced, and is read again as it
\* was, exactly if all its texts are UTF-8.  Two messages written one after
\* the other are read as the one merged into the other, and a copy is equal.
SurvivesTheWire(type, a, b) ==
  LET both == ParseInto(type, Default(type), Serialize(type, a) \o Serialize(type, b))
  IN  /\ ByteSize(type, a) = ItemsSize(Serialize(type, a))
      /\ Reloaded(type, a).ok <=> IsText(type, a)
      /\ IsText(type, a) => Reloaded(type, a).msg = a
      /\ both.ok => both.msg = MergeFrom(type, a, b)
      /\ CopyFrom(type, a) = a

\* Messages to look at: those with one field set, and those with all.
RECURSIVE Samples(_, _)
Values(e, depth) ==
  CASE e[2] = "Int64" -> {1, -1}
    [] e[2] \in {"UInt32", "UInt64"} -> {1, 300}
    [] e[2] = "Bool" -> {TRUE}
    [] e[2] = "string" -> {"f", BadText}
    [] e[2] = "packed" -> {<<0, 300>>}
    [] e[2] = "map" -> {k :> x : k \in {0, 1}, x \in Samples(e[4], depth - 1)}
    [] OTHER -> {<<x>> : x \in Samples(e[4], depth - 1)}

Samples(type, depth) ==
  LET fields == {Schema[type].write[k] : k \in DOMAIN Schema[type].write}
      full == [f \in {e[3] : e \in fields} |->
                 CHOOSE v \in Values(CHOOSE e \in fields : e[3] = f, depth) : TRUE]
  IN  IF depth = 0 THEN {Default(type)}
      ELSE {Default(type), full @@ ("unknown" :> <<Item(1000, "number", 1)>>)}
           \cup UNION {{[Default(type) EXCEPT ![e[3]] = v] : v \in Values(e, depth)} : e \in fields}
=============================================================================
