------------------------------ MODULE PgFrames -------------------------------
(***************************************************************************)
(* The messages a PostgreSQL client writes and the framing it reads:       *)
(* schema/mod.rs and schema/prepare (a query set's preparation and the     *)
(* catalogue that pairs it with the answers), api/request and              *)
(* protocol/encode (requests and the startup message), and                 *)
(* protocol/frame/codec.rs (the server's frames, as bytes arrive).         *)
(*                                                                         *)
(* Bytes are cells; each word (a length, a count, an OID, a format) is one *)
(* cell, and lengths count cells.  A keyword of SQL is one cell too.       *)
(***************************************************************************)
EXTENDS Integers, Sequences, SequencesExt, FiniteSets

NUL == 0
Quotation == 34
Tag == [Parse |-> 80, Bind |-> 66, Describe |-> 68, Execute |-> 69, Sync |-> 83,
        CopyData |-> 100, CopyDone |-> 99]
ProbeName == <<95>>
ProbeSql == <<84>>

HasNul(text) == \E i \in DOMAIN text : text[i] = NUL
CStr(text) == text \o <<NUL>>

-----------------------------------------------------------------------------
(* A query's metadata is [name, sql, oids, rows, scalar, columns, params,  *)
(* ltree].                                                                 *)
(* Mutant: the statement's name is not searched for a NUL.                 *)
CheckMetaNul(q) ==
    /\ q.rows <=> q.columns # 0
    /\ q.scalar => q.columns = 1
    /\ q.name # <<>> /\ q.name # ProbeName
    /\ ~ HasNul(q.sql)
    /\ q.params = Len(q.oids)
CheckMeta(q) ==
    /\ q.rows <=> q.columns # 0
    /\ q.scalar => q.columns = 1
    /\ q.name # <<>> /\ q.name # ProbeName
    /\ ~ HasNul(q.name) /\ ~ HasNul(q.sql)
    /\ q.params = Len(q.oids)

(* statement_lengths: the lengths written into the two frames of a         *)
(* statement, and the cells both take with their tags.                     *)
(* Mutant: the NUL after the name is not counted.                          *)
StatementLengthsShort(name, sql, oids) ==
    LET parse == 1 + (Len(name) + 1) + (Len(sql) + 1) + 1 + Len(oids)
        describe == 1 + 1 + Len(name)
    IN [parse |-> parse, describe |-> describe, wire |-> parse + describe + 2]
StatementLengths(name, sql, oids) ==
    LET parse == 1 + (Len(name) + 1) + (Len(sql) + 1) + 1 + Len(oids)
        describe == 1 + 1 + Len(name) + 1
    IN [parse |-> parse, describe |-> describe, wire |-> parse + describe + 2]

WriteStatement(name, sql, oids) ==
    LET lengths == StatementLengths(name, sql, oids)
    IN <<Tag.Parse, lengths.parse>> \o CStr(name) \o CStr(sql)
           \o <<Len(oids)>> \o oids
           \o <<Tag.Describe, lengths.describe, Tag.Sync>> \o CStr(name)

SYNC == <<Tag.Sync, 1>>

Dynamic(groups) == \E g \in DOMAIN groups : \E q \in DOMAIN groups[g] : groups[g][q].ltree
Positions(groups) == UNION {{<<g, q>> : q \in DOMAIN groups[g]} : g \in DOMAIN groups}

(* unique: each name against every later one of its group and of the       *)
(* groups after it.                                                        *)
(* Mutant: the later queries of the same group only.                       *)
UniqueInGroup(groups) ==
    \A g \in DOMAIN groups : \A a, b \in DOMAIN groups[g] :
        a < b => groups[g][a].name # groups[g][b].name
Unique(groups) ==
    \A x, y \in Positions(groups) :
        x[1] < y[1] \/ (x[1] = y[1] /\ x[2] < y[2]) =>
            groups[x[1]][x[2]].name # groups[y[1]][y[2]].name

(* Prepare::try_wire_len and Prepare::try_build.                           *)
TryWireLen(groups) ==
    LET statement(n, q) == n + StatementLengths(q.name, q.sql, q.oids).wire
    IN FoldLeft(statement, Len(SYNC) + IF Dynamic(groups)
                    THEN StatementLengths(ProbeName, ProbeSql, <<>>).wire ELSE 0,
                FlattenSeq(groups))
TryBuild(groups) ==
    LET queries == FlattenSeq(groups)
        body == FlattenSeq([i \in DOMAIN queries |->
                    WriteStatement(queries[i].name, queries[i].sql, queries[i].oids)])
        probe == IF Dynamic(groups) THEN WriteStatement(ProbeName, ProbeSql, <<>>) ELSE <<>>
    IN IF ~ Unique(groups) THEN [ok |-> FALSE, statements |-> 0, wire |-> <<>>]
       ELSE [ok |-> TRUE, wire |-> probe \o body \o SYNC,
             statements |-> Len(queries) + IF Dynamic(groups) THEN 1 ELSE 0]

(* Catalog::at: the first position at or after (group, query), counted     *)
(* from 0; the query starts over in each later group.                      *)
Complete == <<-1, -1>>
(* Mutant: it does not.                                                    *)
AtOn(groups, group, query) ==
    LET in(g) == g >= group /\ query < Len(groups[g + 1])
        here == {g \in 0 .. Len(groups) - 1 : in(g)}
    IN IF here = {} THEN Complete
       ELSE LET g == CHOOSE x \in here : \A y \in here : x <= y IN <<g, query>>
At(groups, group, query) ==
    LET from(g) == IF g = group THEN query ELSE 0
        here == {g \in group .. Len(groups) - 1 : from(g) < Len(groups[g + 1])}
    IN IF here = {} THEN Complete
       ELSE LET g == CHOOSE x \in here : \A y \in here : x <= y IN <<g, from(g)>>

(* Catalog::first, and Cursor::next as often as it answers.                *)
Walk(groups) ==
    LET step(w, i) ==
            IF w.at = Complete THEN w
            ELSE [seen |-> Append(w.seen, w.at), at |-> At(groups, w.at[1], w.at[2] + 1)]
    IN FoldLeft(step, [seen |-> <<>>, at |-> At(groups, 0, 0)],
                [i \in 1 .. Len(FlattenSeq(groups)) + 1 |-> i]).seen

(* groups::List::validate: the query a description is validated against.   *)
Validated(groups, position) == groups[position[1] + 1][position[2] + 1]

-----------------------------------------------------------------------------
(* The server's reading of what it is sent (external): messages cut out by *)
(* their lengths, and their fields.                                        *)
Split(cells) ==
    LET step(s, i) ==
            IF ~ s.ok \/ s.rest = <<>> THEN s
            ELSE IF Len(s.rest) < 2 THEN [s EXCEPT !.ok = FALSE]
            ELSE IF s.rest[2] \notin 1 .. Len(s.rest) - 1 THEN [s EXCEPT !.ok = FALSE]
            ELSE [s EXCEPT
                    !.out = Append(@, [tag |-> s.rest[1],
                                       body |-> SubSeq(s.rest, 3, s.rest[2] + 1)]),
                    !.rest = SubSeq(@, s.rest[2] + 2, Len(@))]
    IN FoldLeft(step, [ok |-> TRUE, rest |-> cells, out |-> <<>>],
                [i \in 1 .. Len(cells) |-> i])
End(body, from) ==
    LET ends == {i \in from .. Len(body) : body[i] = NUL}
    IN IF ends = {} THEN Len(body) + 1 ELSE CHOOSE i \in ends : \A j \in ends : i <= j
ReadsParse(body) ==
    LET a == End(body, 1) b == End(body, a + 1)
    IN [tag |-> "Parse", name |-> SubSeq(body, 1, a - 1),
        sql |-> SubSeq(body, a + 1, b - 1),
        oids |-> SubSeq(body, b + 2, Len(body)),
        exact |-> b < Len(body) /\ body[b + 1] = Len(body) - b - 1]
ReadsName(body) ==
    [tag |-> "Describe", name |-> SubSeq(body, 2, Len(body) - 1),
     exact |-> body # <<>> /\ body[1] = Tag.Sync /\ End(body, 2) = Len(body)]
ReadsBind(body) ==
    LET a == End(body, 1)
        b == End(body, a + 1)
        formats == IF b < Len(body) THEN body[b + 1] ELSE 0
        values == b + 1 + formats
    IN [tag |-> "Bind", name |-> SubSeq(body, a + 1, b - 1),
        formats |-> SubSeq(body, b + 2, values),
        rest |-> SubSeq(body, values + 1, Len(body))]
ReadsMessage(m) ==
    CASE m.tag = Tag.Parse -> ReadsParse(m.body)
      [] m.tag = Tag.Describe -> ReadsName(m.body)
      [] m.tag = Tag.Bind -> ReadsBind(m.body)
      [] m.tag = Tag.Execute -> [tag |-> "Execute", exact |-> m.body = <<NUL, 0>>]
      [] m.tag = Tag.Sync -> [tag |-> "Sync", exact |-> m.body = <<>>]
      [] m.tag = Tag.CopyData -> [tag |-> "CopyData", data |-> m.body]
      [] m.tag = Tag.CopyDone -> [tag |-> "CopyDone", exact |-> m.body = <<>>]
      [] OTHER -> [tag |-> "unknown"]
Understood(cells) ==
    LET s == Split(cells)
    IN IF s.ok /\ s.rest = <<>> THEN [i \in DOMAIN s.out |-> ReadsMessage(s.out[i])]
       ELSE <<[tag |-> "unknown"]>>

Parsed(name, sql, oids) ==
    [tag |-> "Parse", name |-> name, sql |-> sql, oids |-> oids, exact |-> TRUE]
Describes(name) == [tag |-> "Describe", name |-> name, exact |-> TRUE]
Synced == [tag |-> "Sync", exact |-> TRUE]

(* The preparation of a query set is as long as announced, the server      *)
(* reads in it one Parse and one Describe for each statement, the ltree    *)
(* probe before them and one Sync after, and the answer to each Describe   *)
(* is validated against the query it describes, empty groups included.     *)
(* (schema/mod.rs, schema/prepare, schema/groups)                          *)
PreparedExact(groups) ==
    LET built == TryBuild(groups)
        queries == FlattenSeq(groups)
        probes == IF Dynamic(groups)
                  THEN <<Parsed(ProbeName, ProbeSql, <<>>), Describes(ProbeName)>> ELSE <<>>
        expected == probes \o FlattenSeq([i \in DOMAIN queries |->
                        <<Parsed(queries[i].name, queries[i].sql, queries[i].oids),
                          Describes(queries[i].name)>>]) \o <<Synced>>
        walk == Walk(groups)
    IN (\A i \in DOMAIN queries : CheckMeta(queries[i])) =>
          /\ built.ok <=> Cardinality({queries[i].name : i \in DOMAIN queries}) = Len(queries)
          /\ built.ok =>
                /\ Len(built.wire) = TryWireLen(groups)
                /\ Understood(built.wire) = expected
                /\ built.statements * 2 + 1 = Len(expected)
                /\ [i \in DOMAIN walk |-> Validated(groups, walk[i])] = queries

-----------------------------------------------------------------------------
(* protocol/encode: a frame is its tag, its length and what is written     *)
(* into it (Writer::patch).                                                *)
Message(tag, body) == <<tag, Len(body) + 1>> \o body
WriteFormats(codes) == <<Len(codes)>> \o codes

(* write_search_path and the Quoted arm of Sql::write: each quotation mark *)
(* of a name is doubled.                                                   *)
(* Mutant: only the first one is.                                          *)
QuotedFirst(name) ==
    LET marks == {i \in DOMAIN name : name[i] = Quotation}
        double(i) == IF name[i] = Quotation /\ \A j \in marks : i <= j
                     THEN <<Quotation, Quotation>> ELSE <<name[i]>>
    IN <<Quotation>> \o FlattenSeq([i \in DOMAIN name |-> double(i)]) \o <<Quotation>>
Quoted(name) ==
    LET double(i) == IF name[i] = Quotation THEN <<Quotation, Quotation>> ELSE <<name[i]>>
    IN <<Quotation>> \o FlattenSeq([i \in DOMAIN name |-> double(i)]) \o <<Quotation>>

(* Sql::write, as [ok, text]; sql is [kind, text], a keyword's cell first  *)
(* where the code writes one.  A name is an Identifier, which holds no NUL. *)
Keyword == [Begin |-> 101, Timeout |-> 102, Savepoint |-> 103, Commit |-> 104]
SqlText(sql) ==
    CASE sql.kind = "raw" -> [ok |-> ~ HasNul(sql.text), text |-> sql.text]
      [] sql.kind = "begin" -> [ok |-> TRUE, text |-> <<Keyword.Begin>> \o sql.text]
      [] sql.kind = "timeout" -> [ok |-> TRUE, text |-> <<Keyword.Timeout>> \o sql.text]
      [] sql.kind = "quoted" ->
             [ok |-> TRUE, text |-> <<Keyword.Savepoint>> \o Quoted(sql.text)]

(* parse_with, bind, execute, copy_data, copy_done.                        *)
ParseWith(text) == Message(Tag.Parse, <<NUL>> \o text \o <<NUL, 0>>)
BindWith(name, formats, count, values, results) ==
    Message(Tag.Bind, <<NUL>> \o CStr(name) \o WriteFormats(formats) \o <<count>>
                          \o values \o WriteFormats(results))
EXECUTE == <<Tag.Execute, 3, NUL, 0>>
CopyData(data) == <<Tag.CopyData, Len(data) + 1>> \o data
CopyDone == <<Tag.CopyDone, 1>>

(* Request::write of [sql, extra, data].                                   *)
RequestWire(r) ==
    ParseWith(SqlText(r.sql).text)
        \o BindWith(<<>>, <<1>>, 0, <<>>, <<1>>) \o EXECUTE
        \o CASE r.extra = "Plain" -> SYNC
             [] r.extra = "CopyIn" -> CopyData(r.data) \o CopyDone \o SYNC
             [] r.extra = "CopyInOpen" -> <<>>

(* Pending::raw: the boundary the request is published with.               *)
(* Mutant: an open copy is published as a closed batch.                    *)
BoundaryClosed(r) == IF r.sql.kind = "begin" THEN "Begin" ELSE "Close"
Boundary(r) ==
    IF r.sql.kind = "begin" THEN "Begin"
    ELSE IF r.extra = "CopyInOpen" THEN "External" ELSE "Close"

(* Pending::typed and Pending::group: the same statement bound once for    *)
(* each set of parameters, the whole closed by a Sync unless it is left    *)
(* open; r is [name, formats, results, rows, boundary].                    *)
TypedWire(r) ==
    FlattenSeq([i \in DOMAIN r.rows |->
        BindWith(r.name, r.formats, Len(r.rows[i]), r.rows[i], r.results) \o EXECUTE])
      \o IF r.boundary = "Open" THEN <<>> ELSE SYNC

(* Config::new and Identifier::try_from.                                   *)
ConfigAdmits(c) ==
    ~ HasNul(c.user) /\ ~ HasNul(c.database) /\ ~ HasNul(c.schema)

(* Writer::startup: pairs of strings, ended by an empty one; the message   *)
(* has no tag.                                                             *)
Field == [user |-> 1, database |-> 2, app |-> 3, encoding |-> 4, timeout |-> 5, path |-> 6]
Public == <<44, 112>>
StartupWire(c) ==
    LET pair(key, value) == CStr(<<Field[key]>>) \o CStr(value)
        body == <<3>> \o pair("user", c.user) \o pair("database", c.database)
                    \o pair("app", c.app) \o pair("encoding", <<85>>)
                    \o (IF c.timeout = <<>> THEN <<>> ELSE pair("timeout", c.timeout))
                    \o (IF c.schema = <<>> THEN <<>>
                        ELSE pair("path", Quoted(c.schema) \o Public))
                    \o <<NUL>>
    IN <<Len(body) + 1>> \o body

(* The server's reading of a quoted identifier that starts the text: the   *)
(* name, and what follows it (external).                                   *)
Unquoted(text) ==
    LET step(s, c) ==
            IF s.closed /\ c = Quotation /\ s.rest = <<>>
            THEN [s EXCEPT !.name = Append(@, c), !.closed = FALSE]
            ELSE IF s.closed THEN [s EXCEPT !.rest = Append(@, c)]
            ELSE IF c = Quotation THEN [s EXCEPT !.closed = TRUE]
            ELSE [s EXCEPT !.name = Append(@, c)]
    IN FoldLeft(step, [name |-> <<>>, closed |-> FALSE, rest |-> <<>>], Tail(text))

SyncsOf(messages) == Len(SelectSeq(messages, LAMBDA m : m.tag = "Sync"))

(* The server reads in the frames of a request the messages of that        *)
(* request and no other, whatever its SQL, names and data hold; it meets   *)
(* one Sync where the request is published as a batch of its own and none  *)
(* where its batch stays open, which is what the pool counts.              *)
(* (api/request/mod.rs, protocol/encode/mod.rs)                            *)
RequestExact(r) ==
    LET text == SqlText(r.sql)
        got == Understood(RequestWire(r))
        copies == CASE r.extra = "Plain" -> <<>>
                    [] r.extra = "CopyIn" -> <<[tag |-> "CopyData", data |-> r.data],
                                               [tag |-> "CopyDone", exact |-> TRUE]>>
                    [] r.extra = "CopyInOpen" -> <<>>
    IN text.ok =>
          /\ got = <<Parsed(<<>>, text.text, <<>>),
                     [tag |-> "Bind", name |-> <<>>, formats |-> <<1>>, rest |-> <<0, 1, 1>>],
                     [tag |-> "Execute", exact |-> TRUE]>>
                   \o copies \o [i \in 1 .. SyncsOf(got) |-> Synced]
          /\ SyncsOf(got) = IF Boundary(r) = "External" THEN 0 ELSE 1
          /\ r.sql.kind = "quoted" =>
                LET name == Unquoted(Tail(text.text))
                IN name.name = r.sql.text /\ name.closed /\ name.rest = <<>>
TypedExact(r) ==
    LET got == Understood(TypedWire(r))
        bound(i) == [tag |-> "Bind", name |-> r.name, formats |-> r.formats,
                     rest |-> <<Len(r.rows[i])>> \o r.rows[i] \o WriteFormats(r.results)]
    IN got = FlattenSeq([i \in DOMAIN r.rows |->
                            <<bound(i), [tag |-> "Execute", exact |-> TRUE]>>])
             \o IF r.boundary = "Open" THEN <<>> ELSE <<Synced>>
StartupExact(c) ==
    LET wire == StartupWire(c)
        strings == FoldLeft(LAMBDA s, x : IF x = NUL THEN Append(s, <<>>)
                                ELSE [s EXCEPT ![Len(s)] = Append(@, x)],
                            <<<<>>>>, SubSeq(wire, 3, Len(wire)))
        value(key) == {strings[i + 1] : i \in {j \in 1 .. Len(strings) - 1 :
                                                  j % 2 = 1 /\ strings[j] = <<Field[key]>>}}
    IN ConfigAdmits(c) =>
       /\ Head(wire) = Len(wire)
       /\ value("user") = {c.user} /\ value("database") = {c.database}
       /\ c.schema # <<>> =>
             \E path \in value("path") :
                 LET name == Unquoted(path)
                 IN name.name = c.schema /\ name.rest = Public

-----------------------------------------------------------------------------
(* protocol/frame/codec.rs: Codec::parse of what is buffered, and          *)
(* Codec::finish at the end of the stream.  Staging holds max cells.       *)
More(n) == [kind |-> "more", need |-> n, tag |-> 0, body |-> <<>>, used |-> 0]
Fatal(used) == [kind |-> "fatal", need |-> 0, tag |-> 0, body |-> <<>>, used |-> used]
NeedTo(n, max) == IF n <= max THEN More(n) ELSE [More(n) EXCEPT !.kind = "exhausted"]

(* Mutant: a frame one cell longer than the staging is waited for.         *)
TooLongLate(wire, max) == wire > max
TooLong(wire, max) == wire >= max

CodecParse(bytes, max) ==
    IF Len(bytes) < 2 THEN NeedTo(2, max)
    ELSE IF bytes[2] < 1 THEN Fatal(Len(bytes))
    ELSE IF TooLong(bytes[2], max) THEN Fatal(2)
    ELSE IF Len(bytes) < bytes[2] + 1 THEN NeedTo(bytes[2] + 1, max)
    ELSE [kind |-> "item", need |-> 0, tag |-> bytes[1],
          body |-> SubSeq(bytes, 3, bytes[2] + 1), used |-> bytes[2] + 1]
CodecFinish(bytes) == IF bytes = <<>> THEN "empty" ELSE "fatal"

(* However the bytes of a stream are cut into reads, the codec finds the   *)
(* same frame or the same fault; it never asks for more than the frame     *)
(* that is arriving and never for more than the staging holds; and at the  *)
(* end of the stream a partial frame is an error.                          *)
(* (protocol/frame/codec.rs)                                               *)
CodecExact(bytes, max) ==
    LET whole == CodecParse(bytes, max) IN
    /\ \A k \in 0 .. Len(bytes) :
          LET part == CodecParse(SubSeq(bytes, 1, k), max) IN
          /\ part.kind # "exhausted"
          /\ part.kind = "more" => /\ part.need > k
                                   /\ whole.kind = "item" => part.need <= whole.used
          /\ part.kind # "more" =>
                part.kind = whole.kind /\ part.tag = whole.tag /\ part.body = whole.body
    /\ whole.kind = "item" => Message(whole.tag, whole.body) = SubSeq(bytes, 1, whole.used)
    /\ whole.kind = "more" /\ bytes # <<>> => CodecFinish(bytes) = "fatal"
=============================================================================
