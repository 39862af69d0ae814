------------------------------ MODULE PgValues -------------------------------
(***************************************************************************)
(* What a PostgreSQL value is on the wire to the client: the description   *)
(* of a statement's columns (schema/desc), the rows decoded by it          *)
(* (protocol/value/decode, schema/row.rs, schema/array.rs), the unchecked  *)
(* second reading of a validated row (decode/checked) and the parameters   *)
(* written for it (protocol/value/encode.rs).                              *)
(*                                                                         *)
(* A message is a sequence of cells.  Each word the code reads as one      *)
(* number (a count, a length, an OID, a format) is one cell, and lengths   *)
(* count cells; a value of a fixed width has the width Width gives, which  *)
(* keeps different widths different.  Cells outside 0 .. 127 make a text   *)
(* malformed.  A reader's outcome is [ok, v] with v the values read.       *)
(***************************************************************************)
EXTENDS Integers, Sequences, SequencesExt, FiniteSets

-----------------------------------------------------------------------------
(* The OIDs of desc/oids.rs and encode.rs by their names in the server.    *)
OID == [bool |-> 16, bytea |-> 17, name |-> 19, int8 |-> 20, int2 |-> 21,
        int4 |-> 23, text |-> 25, float4 |-> 700, float8 |-> 701,
        bpchar |-> 1042, varchar |-> 1043, date |-> 1082, timestamp |-> 1114,
        names |-> 1003, int4s |-> 1007, texts |-> 1009, bpchars |-> 1014,
        varchars |-> 1015, int8s |-> 1016, uuid |-> 2950, jsonb |-> 3802,
        bools |-> 1000, int2s |-> 1005, float4s |-> 1021, float8s |-> 1022]

Width == [bool |-> 1, two |-> 2, four |-> 3, eight |-> 4, sixteen |-> 5]

Failed == [ok |-> FALSE, v |-> <<>>]
Read(v) == [ok |-> TRUE, v |-> v]
Null == <<-1>>

(* The ? operator: go on with the value, or fail.                          *)
Then(r, go(_)) == IF r.ok THEN go(r.v) ELSE Failed

Text(data) == IF \A i \in DOMAIN data : data[i] \in 0 .. 127 THEN Read(data) ELSE Failed
Fixed(data, width) == IF Len(data) = width THEN Read(data) ELSE Failed
Boolean(data) == IF data \in {<<0>>, <<1>>} THEN Read(data) ELSE Failed
Json(data) == IF data = <<>> \/ Head(data) # 1 THEN Failed ELSE Text(Tail(data))

-----------------------------------------------------------------------------
(* Arrays.  Column::array_header returns the number of elements and what   *)
(* is left of the column; the view of an array is the pair, and its        *)
(* elements are read by Array::try_collect or one at a time by Iter.       *)
StringOids == {OID.name, OID.text, OID.bpchar, OID.varchar}

(* Mutant: the header's element count is believed.                         *)
HeaderFitsAny(dim, rest) == TRUE
HeaderFits(dim, rest) == dim <= Len(rest)

Header(data, element) ==
    IF Len(data) < 3 THEN Failed
    ELSE IF data[3] \notin element \/ data[2] # 0 THEN Failed
    ELSE IF data[1] = 0 THEN Read(<<0, SubSeq(data, 4, Len(data))>>)
    ELSE IF data[1] # 1 \/ Len(data) < 5 THEN Failed
    ELSE LET rest == SubSeq(data, 6, Len(data))
         IN IF data[4] < 0 \/ ~ HeaderFits(data[4], rest) THEN Failed
            ELSE Read(<<data[4], rest>>)

(* Element::__read: element() takes one length and its bytes, the caller   *)
(* its value.  Returns <<value, rest>>.                                    *)
Element(bytes, width) ==
    IF bytes = <<>> THEN Failed
    ELSE LET n == Head(bytes) tail == Tail(bytes) IN
         IF n < 0 \/ n > Len(tail) THEN Failed
         ELSE LET data == SubSeq(tail, 1, n)
              IN Then(IF width = 0 THEN Text(data) ELSE Fixed(data, width),
                      LAMBDA v : Read(<<v, SubSeq(tail, n + 1, Len(tail))>>))

(* finish(): nothing may be left after the last element.                   *)
(* Mutant: what is left is ignored.                                        *)
ArrayDoneAny(bytes) == TRUE
ArrayDone(bytes) == bytes = <<>>

(* Array::try_collect: r.v is <<elements so far, rest>>.                   *)
Collect(array, width) ==
    LET step(r, i) ==
            Then(r, LAMBDA got :
                Then(Element(got[2], width), LAMBDA e : Read(<<Append(got[1], e[1]), e[2]>>)))
    IN Then(FoldLeft(step, Read(<<<<>>, array[2]>>), [i \in 1 .. array[1] |-> i]),
            LAMBDA got : IF ArrayDone(got[2]) THEN Read(got[1]) ELSE Failed)

(* Iter::next until it returns None: the values met, then at most one      *)
(* error, after which the iterator is Done.                                *)
Yielded(s, e) ==
    IF e.ok THEN [s EXCEPT !.left = @ - 1, !.items = Append(@, e.v[1]), !.rest = e.v[2]]
    ELSE [s EXCEPT !.left = @ - 1, !.done = TRUE, !.errors = 1]
Iterate(array, width) ==
    LET next(s, i) ==
            IF s.done THEN s
            ELSE IF s.left = 0
                 THEN [s EXCEPT !.done = TRUE,
                                !.errors = IF ArrayDone(s.rest) THEN 0 ELSE 1]
            ELSE Yielded(s, Element(s.rest, width))
    IN FoldLeft(next, [rest |-> array[2], left |-> array[1], done |-> FALSE,
                       items |-> <<>>, errors |-> 0],
                [i \in 1 .. array[1] + 2 |-> i])

-----------------------------------------------------------------------------
(* schema/row.rs: the reader of each Rust type, the same for the view and  *)
(* for the owned value of a column.  An Option reads its column with the   *)
(* reader of its type.                                                     *)
ScalarReader == [bool |-> "bool", i16 |-> "two", i32 |-> "four", i64 |-> "eight",
                 f32 |-> "four", f64 |-> "eight"]
TextReader == [String |-> "text", Text |-> "text", Jsonb |-> "json", Ltree |-> "text"]
BytesReader == [Bytes |-> "bytes", Uuid |-> "sixteen", Timestamp |-> "eight",
                Date |-> "four"]
ArrayReader == [i32s |-> "four", i64s |-> "eight", Strings |-> "text"]
ArrayOids == [i32s |-> {OID.int4}, i64s |-> {OID.int8}, Strings |-> StringOids]

Arrays == DOMAIN ArrayReader
RustTypes == DOMAIN ScalarReader \cup DOMAIN TextReader \cup DOMAIN BytesReader
                 \cup Arrays
Nullable == RustTypes \ Arrays

Reader(t) ==
    IF t \in DOMAIN ScalarReader THEN ScalarReader[t]
    ELSE IF t \in DOMAIN TextReader THEN TextReader[t] ELSE BytesReader[t]

ItemWidth(t) == IF t = "Strings" THEN 0 ELSE Width[ArrayReader[t]]

(* The value of a column that is not null.  For an array it is its         *)
(* elements; owned or not, an unreadable element is an error to the caller. *)
Value(t, data) ==
    IF t \in Arrays
    THEN Then(Header(data, ArrayOids[t]), LAMBDA array : Collect(array, ItemWidth(t)))
    ELSE CASE Reader(t) = "bool" -> Boolean(data)
           [] Reader(t) = "text" -> Text(data)
           [] Reader(t) = "json" -> Json(data)
           [] Reader(t) = "bytes" -> Read(data)
           [] OTHER -> Fixed(data, Width[Reader(t)])

(* The declared type of a column: [t, opt].                                *)
Columns == [t : RustTypes, opt : BOOLEAN]

(* RowReader::take_column: the next column, of `left` still to be read.    *)
(* Returns <<field, rest>>, the field Null or its data.                    *)
TakeColumn(buf, left) ==
    IF left = 0 \/ buf = <<>> THEN Failed
    ELSE LET n == Head(buf) tail == Tail(buf) IN
         IF n = -1 THEN Read(<<Null, tail>>)
         ELSE IF n < 0 \/ n > Len(tail) THEN Failed
         ELSE Read(<<SubSeq(tail, 1, n), SubSeq(tail, n + 1, Len(tail))>>)

(* A column of type c, required or optional.  n = -1 marks a null, so data *)
(* and null are told apart by the length word and never by the data.       *)
ReadColumn(c, buf, left) ==
    Then(TakeColumn(buf, left), LAMBDA taken :
        IF Head(buf) = -1
        THEN IF c.opt THEN Read(<<Null, taken[2]>>) ELSE Failed
        ELSE Then(Value(c.t, taken[1]), LAMBDA v : Read(<<v, taken[2]>>)))

(* The columns of a tuple, in order: the values so far, what is left of    *)
(* the row and how many columns are still to be read.                      *)
DecodeTuple(columns, buf, count) ==
    LET step(r, c) ==
            Then(r, LAMBDA row :
                Then(ReadColumn(c, row.rest, row.left), LAMBDA one :
                    Read([v |-> Append(row.v, one[1]), rest |-> one[2], left |-> row.left - 1])))
    IN FoldLeft(step, Read([v |-> <<>>, rest |-> buf, left |-> count]), columns)

(* RowReader::new.                                                         *)
RowCount(cells, want) == cells # <<>> /\ Head(cells) >= 0 /\ Head(cells) = want

(* RowReader::finish: every column was read and nothing is left.           *)
(* Mutant: trailing bytes are let through.                                 *)
RowDoneUnread(r) == r.left = 0
RowDone(r) == r.left = 0 /\ r.rest = <<>>

(* Row::decode and Row::into_owned, with want = N_RESULT_COLS.             *)
Decode(columns, cells, want) ==
    IF ~ RowCount(cells, want) THEN Failed
    ELSE Then(DecodeTuple(columns, Tail(cells), want),
              LAMBDA row : IF RowDone(row) THEN Read(row.v) ELSE Failed)

(* RowReader::nullable: a scalar result that may be null.                  *)
DecodeNullable(column, cells) ==
    IF ~ RowCount(cells, 1) THEN Failed
    ELSE IF Len(cells) > 1 /\ cells[2] = -1
    THEN IF RowDone([left |-> 0, rest |-> SubSeq(cells, 3, Len(cells))])
         THEN Read(<<Null>>) ELSE Failed
    ELSE Decode(<<column>>, cells, 1)

-----------------------------------------------------------------------------
(* decode/checked: a row that was validated is read again without a check. *)
(* A read outside the row is undefined behaviour: "unsound".               *)
Sealed == {"bool", "i32", "i64", "String", "Jsonb"}
Unsound == [ok |-> FALSE, v |-> <<>>, rest |-> <<>>]

(* Cursor::fixed::<N> and Cursor::text::<PREFIX>.                          *)
CursorFixed(bytes, width) ==
    IF 1 + width > Len(bytes) THEN Unsound
    ELSE [ok |-> TRUE, v |-> SubSeq(bytes, 2, 1 + width),
          rest |-> SubSeq(bytes, 2 + width, Len(bytes))]
CursorText(bytes, prefix) ==
    IF bytes = <<>> \/ Head(bytes) < prefix \/ 1 + Head(bytes) > Len(bytes) THEN Unsound
    ELSE [ok |-> TRUE, v |-> SubSeq(bytes, 2 + prefix, 1 + Head(bytes)),
          rest |-> SubSeq(bytes, 2 + Head(bytes), Len(bytes))]

(* Fields::read of one field.                                              *)
(* Mutant: the version byte of a Jsonb is read as its first character.     *)
FieldsWhole(t, bytes) ==
    IF t \in {"String", "Jsonb"} THEN CursorText(bytes, 0)
    ELSE CursorFixed(bytes, Width[Reader(t)])
Fields(t, bytes) ==
    IF t = "String" THEN CursorText(bytes, 0)
    ELSE IF t = "Jsonb" THEN CursorText(bytes, 1)
    ELSE CursorFixed(bytes, Width[Reader(t)])

(* Validated::view.                                                        *)
View(columns, cells) ==
    LET seen(r, one) == IF one.ok THEN [one EXCEPT !.v = Append(r.v, one.v)] ELSE Unsound
        step(r, c) == IF r.ok THEN seen(r, Fields(c.t, r.rest)) ELSE r
    IN FoldLeft(step, [ok |-> TRUE, v |-> <<>>, rest |-> Tail(cells)], columns)

-----------------------------------------------------------------------------
(* What the server's protocol says a row is (external): a column is its    *)
(* length and its data; the data of a value of type `oid` in format 1.     *)
Counted(v) == <<Len(v)>> \o v
ServerArray(oid, items) ==
    <<1, 0, oid, Len(items), 1>> \o FlattenSeq([i \in DOMAIN items |-> Counted(items[i])])

(* A sequence of n counted segments, as the positions where they end.      *)
Cuts(cells, n) ==
    {c \in [0 .. n -> 0 .. Len(cells)] :
        /\ c[0] = 0 /\ c[n] = Len(cells)
        /\ \A i \in 1 .. n :
              /\ c[i - 1] < c[i]
              /\ cells[c[i - 1] + 1] \in {c[i] - c[i - 1] - 1}
                     \cup (IF c[i] = c[i - 1] + 1 THEN {-1} ELSE {})}
Segment(cells, c, i) == SubSeq(cells, c[i - 1] + 1, c[i])

(* The data of a type of the client, as one production.                    *)
Flat(t, data) ==
    CASE Reader(t) = "bool" -> Len(data) = 1 /\ Head(data) \in {0, 1}
      [] Reader(t) = "text" -> \A i \in DOMAIN data : data[i] \in 0 .. 127
      [] Reader(t) = "json" -> /\ data # <<>> /\ Head(data) = 1
                               /\ \A i \in 2 .. Len(data) : data[i] \in 0 .. 127
      [] Reader(t) = "bytes" -> TRUE
      [] OTHER -> Len(data) = Width[Reader(t)]
Item(t, segment) ==
    /\ Head(segment) >= 0
    /\ IF t = "Strings" THEN \A i \in 2 .. Len(segment) : segment[i] \in 0 .. 127
       ELSE Len(segment) = 1 + Width[ArrayReader[t]]
Listed(t, data) ==
    /\ Len(data) >= 3
    /\ data[2] = 0 /\ data[3] \in ArrayOids[t]
    /\ \/ data[1] = 0 /\ Len(data) = 3
       \/ /\ data[1] = 1 /\ Len(data) >= 5 /\ data[4] \in 0 .. Len(data)
          /\ LET rest == SubSeq(data, 6, Len(data))
             IN \E c \in Cuts(rest, data[4]) :
                    \A i \in 1 .. data[4] : Item(t, Segment(rest, c, i))
Encodes(c, segment) ==
    \/ c.opt /\ segment = Null
    \/ /\ Head(segment) >= 0
       /\ IF c.t \in Arrays THEN Listed(c.t, Tail(segment)) ELSE Flat(c.t, Tail(segment))

Row(columns, cells) ==
    /\ cells # <<>> /\ Head(cells) = Len(columns)
    /\ \E c \in Cuts(Tail(cells), Len(columns)) :
           \A i \in DOMAIN columns : Encodes(columns[i], Segment(Tail(cells), c, i))

(* The cells a decoded value was made from, the lower bound of an array    *)
(* and the two forms of an empty one aside.                                *)
Again(c, v) ==
    IF v = Null /\ c.opt THEN Null
    ELSE IF c.t = "Jsonb" THEN Counted(<<1>> \o v) ELSE Counted(v)

(* A message of the server is taken as a row of these columns exactly when *)
(* it is one: a column is never read past its length or into the next, a   *)
(* NULL never becomes an empty value or the reverse, no byte is left       *)
(* unread, an array's claimed size never outruns its bytes, and iterating  *)
(* an array finds what collecting it does.  (decode/mod.rs, row.rs,        *)
(* array.rs)                                                               *)
RowExact(columns, cells) == \A got \in {Decode(columns, cells, Len(columns))} :
    /\ got.ok <=> Row(columns, cells)
    /\ got.ok /\ (\A i \in DOMAIN columns : columns[i].t \notin Arrays) =>
           Tail(cells) = FlattenSeq([i \in DOMAIN columns |-> Again(columns[i], got.v[i])])
    /\ \A i \in DOMAIN columns : Len(columns) = 1 /\ ~ columns[i].opt =>
           DecodeNullable(columns[i], cells)
               = Decode(<<[columns[i] EXCEPT !.opt = TRUE]>>, cells, 1)
    /\ Len(columns) = 1 /\ columns[1].t \in Arrays /\ Len(cells) > 1 =>
           \A t \in {columns[1].t} :
           \A head \in {Header(SubSeq(cells, 3, Len(cells)), ArrayOids[t])} : head.ok =>
               \A all \in {Collect(head.v, ItemWidth(t))}, one \in {Iterate(head.v, ItemWidth(t))} :
                   /\ one.done /\ (all.ok <=> one.errors = 0)
                   /\ all.ok => all.v = one.items
                   /\ head.v[1] <= Len(head.v[2])

(* A validated row read a second time without checks stays inside its      *)
(* bytes and shows the values the checked reading found.                   *)
(* (decode/checked/mod.rs, decode/checked/cursor.rs)                       *)
SecondReading(columns, cells) == \A got \in {Decode(columns, cells, Len(columns))} :
    got.ok /\ (\A i \in DOMAIN columns : columns[i].t \in Sealed /\ ~ columns[i].opt)
        => \A again \in {View(columns, cells)} :
              again.ok /\ again.v = got.v /\ again.rest = <<>>

-----------------------------------------------------------------------------
(* schema/desc: the OIDs each type accepts in a description, and the       *)
(* format its column is asked for.                                         *)
ScalarTarget == [bool |-> OID.bool, i16 |-> OID.int2, i32 |-> OID.int4, i64 |-> OID.int8,
                 f32 |-> OID.float4, f64 |-> OID.float8]
DataTarget == [Bytes |-> OID.bytea, Uuid |-> OID.uuid, Timestamp |-> OID.timestamp,
               Date |-> OID.date, Jsonb |-> OID.jsonb, i32s |-> OID.int4s,
               i64s |-> OID.int8s]
StringArrayOids == {OID.names, OID.texts, OID.bpchars, OID.varchars}

(* The ltree OID is the one the connection's probe found, 0 before it.     *)
Target(t, ltree) ==
    IF t \in DOMAIN ScalarTarget THEN {ScalarTarget[t]}
    ELSE IF t \in DOMAIN DataTarget THEN {DataTarget[t]}
    ELSE CASE t \in {"String", "Text"} -> StringOids
           [] t = "Strings" -> StringArrayOids
           [] OTHER -> {ltree} \ {0}

(* An Option accepts what its type does.                                   *)
ColumnTarget(c, ltree) == Target(c.t, ltree)

(* Mutant: every type is asked for in binary.                              *)
FORMATBinary(t) == 1
FORMAT(t) == IF t = "Ltree" THEN 0 ELSE 1

(* Types::next_oid: a name up to its NUL, then the table and column (one   *)
(* cell), the OID and the format, which a Describe leaves 0.               *)
NextOid(bytes) ==
    IF ~ \E i \in DOMAIN bytes : bytes[i] = 0 THEN Failed
    ELSE LET end == CHOOSE i \in DOMAIN bytes :
                        bytes[i] = 0 /\ \A j \in 1 .. i - 1 : bytes[j] # 0
             meta == SubSeq(bytes, end + 1, Len(bytes))
         IN IF Len(meta) < 3 \/ meta[3] # 0 THEN Failed
            ELSE Read(<<meta[2], SubSeq(meta, 4, Len(meta))>>)

(* Types::new, Types::finish.                                              *)
TypesCount(payload, want) == payload # <<>> /\ Head(payload) >= 0 /\ Head(payload) = want
TypesDone(r, want) == r.index = want /\ r.rest = <<>>

(* Validate::validate of the columns of a tuple, in order.                 *)
ValidateTuple(q, bytes) ==
    LET step(r, c) ==
            Then(r, LAMBDA types :
                Then(IF types.index = q.want THEN Failed ELSE NextOid(types.rest), LAMBDA next :
                    IF next[1] \in ColumnTarget(c, q.ltree)
                    THEN Read([v |-> Append(types.v, next[1]), rest |-> next[2],
                               index |-> types.index + 1])
                    ELSE Failed))
    IN FoldLeft(step, Read([v |-> <<>>, rest |-> bytes, index |-> 0]), q.columns)

(* Types::query: the OIDs described, when the description fits the query.  *)
ValidateTypes(q, payload) ==
    IF ~ TypesCount(payload, q.want) THEN Failed
    ELSE Then(ValidateTuple(q, Tail(payload)),
              LAMBDA types : IF TypesDone(types, q.want) THEN Read(types.v) ELSE Failed)

(* Formats::take and Formats::finish over the query's result formats, and  *)
(* QueryMeta::check_codes before them.                                     *)
CodeAt(codes, i) == IF codes = <<>> THEN 0 ELSE IF Len(codes) = 1 THEN codes[1] ELSE codes[i]
CheckCodes(codes, values) ==
    /\ Len(codes) <= 1 \/ Len(codes) = values
    /\ \A i \in DOMAIN codes : codes[i] \in {0, 1}

AdmitResult(q) ==
    /\ CheckCodes(q.codes, q.want)
    /\ Len(q.columns) = q.want
    /\ \A i \in DOMAIN q.columns : CodeAt(q.codes, i) = FORMAT(q.columns[i].t)

(* The server (external): the description it sends and the values its      *)
(* types have, with the data of a value in the format it was asked for.    *)
Description(oids, payload) ==
    /\ payload # <<>> /\ Head(payload) = Len(oids)
    /\ \E c \in [0 .. Len(oids) -> 1 .. Len(payload)] :
           /\ c[0] = 1 /\ c[Len(oids)] = Len(payload)
           /\ \A i \in DOMAIN oids :
                 /\ c[i - 1] + 4 <= c[i]
                 /\ payload[c[i]] = 0 /\ payload[c[i] - 1] = oids[i]
                 /\ payload[c[i] - 3] = 0
                 /\ \A j \in c[i - 1] + 1 .. c[i] - 4 : payload[j] # 0

ServerValues(oid) ==
    CASE oid = OID.bool -> <<<<0>>, <<1>>>>
      [] oid = OID.int2 -> <<<<200, 7>>>>
      [] oid \in {OID.int4, OID.float4, OID.date} -> <<<<200, 7, 0>>>>
      [] oid \in {OID.int8, OID.float8, OID.timestamp} -> <<<<200, 7, 0, 1>>>>
      [] oid = OID.uuid -> <<<<200, 7, 0, 1, 1>>>>
      [] oid = OID.bytea -> <<<<>>, <<200>>, <<-1>>>>
      [] oid = OID.int4s -> <<<<>>, <<<<200, 7, 0>>, <<1, 1, 1>>>>>>
      [] oid = OID.int8s -> <<<<>>, <<<<200, 7, 0, 1>>>>>>
      [] oid \in StringArrayOids -> <<<<>>, <<<<65>>, <<>>>>>>
      [] OTHER -> <<<<>>, <<65>>, <<1, 65>>>>
ElementOid(oid) ==
    CASE oid = OID.int4s -> OID.int4 [] oid = OID.int8s -> OID.int8
      [] oid = OID.names -> OID.name [] oid = OID.texts -> OID.text
      [] oid = OID.bpchars -> OID.bpchar [] oid = OID.varchars -> OID.varchar
      [] oid = OID.bools -> OID.bool [] oid = OID.int2s -> OID.int2
      [] oid = OID.float4s -> OID.float4 [] oid = OID.float8s -> OID.float8
ServerData(oid, v, format) ==
    IF format = 0 THEN v
    ELSE IF oid \in StringArrayOids \cup {OID.int4s, OID.int8s}
    THEN IF v = <<>> THEN <<0, 0, ElementOid(oid)>> ELSE ServerArray(ElementOid(oid), v)
    ELSE IF oid = OID.jsonb \/ oid \notin {OID[n] : n \in DOMAIN OID}
    THEN <<1>> \o v ELSE v

(* A query that was admitted and whose description was accepted reads      *)
(* every row the server then sends, and reads the values the server put    *)
(* there: the OIDs accepted, the formats asked for and the reader of each  *)
(* type agree.  And only a description is accepted.  (desc/mod.rs,         *)
(* desc/formats.rs, row.rs)                                                *)
DescribedExact(q, payload) == \A described \in {ValidateTypes(q, payload)} :
    /\ AdmitResult(q) =>
          (described.ok <=> \E oids \in [DOMAIN q.columns -> ToSet(payload)] :
                               /\ Description(oids, payload)
                               /\ \A i \in DOMAIN oids :
                                     oids[i] \in ColumnTarget(q.columns[i], q.ltree))
    /\ AdmitResult(q) /\ described.ok =>
          \A pick \in [DOMAIN q.columns -> 1 .. 3] :
             LET values(i) == ServerValues(described.v[i])
                 vs == [i \in DOMAIN q.columns |-> values(i)[pick[i]]]
                 data(i) == ServerData(described.v[i], vs[i], CodeAt(q.codes, i))
             IN (\A i \in DOMAIN pick : pick[i] <= Len(values(i))) =>
                   Decode(q.columns,
                          <<Len(vs)>> \o FlattenSeq([i \in DOMAIN vs |-> Counted(data(i))]),
                          q.want) = Read(vs)

-----------------------------------------------------------------------------
(* protocol/value/encode.rs: each writer with the OID it stands for.  The  *)
(* client writes four kinds of array that none of its types reads.         *)
Writers == [bool |-> OID.bool, i16 |-> OID.int2, i32 |-> OID.int4, i64 |-> OID.int8,
            f32 |-> OID.float4, f64 |-> OID.float8]
DataWriters == [text |-> OID.text, ltree |-> OID.text, jsonb |-> OID.jsonb,
                bytes |-> OID.bytea, uuid |-> OID.uuid, time |-> OID.timestamp,
                date |-> OID.date]
ArrayWriters == [i64s |-> OID.int8s, i32s |-> OID.int4s, texts |-> OID.texts,
                 i16s |-> OID.int2s, f32s |-> OID.float4s, f64s |-> OID.float8s,
                 bools |-> OID.bools]
WriterOid(w) ==
    IF w \in DOMAIN Writers THEN Writers[w]
    ELSE IF w \in DOMAIN DataWriters THEN DataWriters[w] ELSE ArrayWriters[w]

(* write_with_len and write_array; an empty array keeps its dimension.     *)
(* Mutant: a Jsonb is written without its version byte.                    *)
WrittenBare(w, v) ==
    IF w \in DOMAIN ArrayWriters THEN Counted(ServerArray(ElementOid(ArrayWriters[w]), v))
    ELSE Counted(v)
Written(w, v) ==
    IF w \in DOMAIN ArrayWriters THEN Counted(ServerArray(ElementOid(ArrayWriters[w]), v))
    ELSE IF w = "jsonb" THEN Counted(<<1>> \o v) ELSE Counted(v)

(* BindWriter::check and check_any; a query is [oids, codes].  Reading the *)
(* format of a parameter past the codes would be undefined behaviour.      *)
CheckAny(q, index) == index < Len(q.oids)
Check(q, index, w) ==
    /\ CheckAny(q, index)
    /\ q.oids[index + 1] = WriterOid(w)
    /\ CodeAt(q.codes, index + 1) = IF w = "ltree" THEN 0 ELSE 1

(* The writes of one Bind, in order: [w, v], w = "null" for write_null.    *)
(* Mutant: a null does not advance the parameter.                          *)
WriteStill(q, r, call) ==
    IF ~ r.ok THEN r
    ELSE IF call.w = "null"
    THEN [r EXCEPT !.ok = CheckAny(q, r.index), !.out = @ \o Null]
    ELSE [r EXCEPT !.ok = Check(q, r.index, call.w), !.index = @ + 1,
                   !.out = @ \o Written(call.w, call.v)]
Write(q, r, call) ==
    IF ~ r.ok THEN r
    ELSE IF call.w = "null"
    THEN [r EXCEPT !.ok = CheckAny(q, r.index), !.index = @ + 1, !.out = @ \o Null]
    ELSE [r EXCEPT !.ok = Check(q, r.index, call.w), !.index = @ + 1,
                   !.out = @ \o Written(call.w, call.v)]

Bind(q, calls) ==
    LET step(r, call) == Write(q, r, call)
        all == FoldLeft(step, [ok |-> CheckCodes(q.codes, Len(q.oids)), index |-> 0,
                               out |-> <<>>], calls)
    IN IF all.ok /\ all.index = Len(q.oids) THEN Read(all.out) ELSE Failed

(* The client type that reads what the server understands by an OID.       *)
TypeOf(oid, code) ==
    CASE oid = OID.text /\ code = 0 -> "Ltree" [] oid = OID.text -> "String"
      [] oid = OID.texts -> "Strings" [] oid = OID.int8s -> "i64s" [] oid = OID.int4s -> "i32s"
      [] OTHER -> CHOOSE t \in DOMAIN ScalarTarget \cup DOMAIN DataTarget :
                     oid \in Target(t, 0)

(* The parameters of a Bind are as many as the statement has, each of the  *)
(* type and in the format it declares, and say the values that were        *)
(* given, nulls included.  (value/encode.rs, schema/mod.rs)                *)
BindExact(q, calls) ==
    LET bound == Bind(q, calls)
        matching == /\ CheckCodes(q.codes, Len(q.oids))
                    /\ Len(calls) = Len(q.oids)
                    /\ \A i \in DOMAIN calls :
                          calls[i].w # "null" =>
                              /\ WriterOid(calls[i].w) = q.oids[i]
                              /\ CodeAt(q.codes, i) = IF calls[i].w = "ltree" THEN 0 ELSE 1
        columns == [i \in DOMAIN q.oids |->
                       [t |-> TypeOf(q.oids[i], CodeAt(q.codes, i)),
                        opt |-> calls[i].w = "null"]]
    IN /\ bound.ok <=> matching
       /\ bound.ok =>
             Decode(columns, <<Len(q.oids)>> \o bound.v, Len(q.oids))
                 = Read([i \in DOMAIN calls |->
                           IF calls[i].w = "null" THEN Null ELSE calls[i].v])
=============================================================================
