------------------------------ MODULE MCValues ------------------------------
(* Rows, row descriptions and parameter lists for PgValues, grown one      *)
(* piece at a time.                                                        *)
EXTENDS PgValues

Column(t) == [t |-> t, opt |-> FALSE]
Optional(t) == [t |-> t, opt |-> TRUE]

(* Rows of bytes for a list of columns. *)
RowSubjects ==
    {<<Column("bool"), Optional("String")>>, <<Optional("Jsonb")>>,
     <<Column("i16"), Column("Jsonb")>>, <<Column("i32s")>>, <<Column("Strings")>>,
     <<Column("String"), Column("bool"), Column("Jsonb")>>, <<Column("Bytes")>>}
RowPieces == {<<-2>>, <<-1>>, <<0>>, <<1>>, <<2>>, <<200>>, <<1, 1>>, <<2, 1, 65>>}
ArrayPieces ==
    {<<5>>, <<7>>, <<9>>, <<1, 0, 23, 1, 1>>, <<1, 0, 25, 2, 1>>, <<1, 1, 25, 1, 1>>,
     <<0, 0, 23>>, <<1, 0, 25, -1, 1>>, <<2, 0, 25, 1, 1>>, <<0>>, <<3, 7, 7, 7>>, <<-1>>,
     <<1, 7>>, <<1, 200>>}
RowNext(columns, pieces) ==
    CASE pieces = <<>> -> {<<Len(columns)>>, <<0>>, <<-1>>}
      [] pieces # <<>> /\ pieces[1][1] # Len(columns) -> {}
      [] OTHER -> IF columns[1].t \in Arrays THEN ArrayPieces ELSE RowPieces

(* Row descriptions for a prepared query. *)
Described(columns, codes, want) ==
    [columns |-> columns, codes |-> codes, want |-> want, ltree |-> 90]
DescribedSubjects ==
    {Described(<<Column(t)>>, codes, 1) : t \in RustTypes, codes \in {<<>>, <<0>>, <<1>>}}
    \cup {Described(<<Column("Ltree"), Column("String")>>, codes, n) :
              codes \in {<<1>>, <<0, 1>>, <<1, 1>>}, n \in {1, 2, 3}}
    \cup {Described(<<Column("Strings"), Optional("Jsonb")>>, <<1>>, 2)}
FieldOf(oid) == <<66, 0, 4, oid, 0>>
DescribedNext(q, pieces) ==
    CASE pieces = <<>> -> {<<0>>, <<1>>, <<2>>, <<-1>>}
      [] pieces # <<>> /\ pieces[1][1] # q.want -> {}
      [] OTHER -> {<<65>>, <<0>>, <<4, 16, 0>>, <<0, 4, 16, 1>>}
                    \cup {FieldOf(o) : o \in IF q.want = 1 THEN {OID[n] : n \in DOMAIN OID} \cup {90}
                                             ELSE {90, 25, 1003, 1009, 3802}}

(* Parameters written for declared types. *)
BindSubjects ==
    [oids : {<<>>, <<25>>, <<25, 3802>>, <<1016, 16>>, <<17, 1009>>, <<23, 23>>},
     codes : {<<>>, <<1>>, <<0, 1>>, <<1, 1>>}]
Argument(writer, v) == [w |-> writer, v |-> v]
Arguments ==
    <<Argument("null", <<>>), Argument("text", <<>>), Argument("text", <<65>>),
      Argument("ltree", <<65>>), Argument("jsonb", <<65>>),
      Argument("i64s", <<<<1, 1, 1, 1>>, <<0, 0, 0, 0>>>>), Argument("bool", <<1>>),
      Argument("bytes", <<200>>), Argument("texts", <<>>), Argument("texts", <<<<65>>>>),
      Argument("i32", <<1, 1, 1>>)>>
Chosen(pieces) == [i \in DOMAIN pieces |-> Arguments[pieces[i]]]

Subjects == [row |-> RowSubjects, described |-> DescribedSubjects, bind |-> BindSubjects]
Topics == {"row", "described", "bind"}
Bound == [row |-> 5, described |-> 3, bind |-> 3]

Longer(topic, subject, pieces) ==
    {Append(pieces, p) : p \in
        CASE Len(pieces) = Bound[topic] -> {}
          [] topic = "row" -> RowNext(subject, pieces)
          [] topic = "described" -> DescribedNext(subject, pieces)
          [] OTHER -> DOMAIN Arguments}

(* A row is accepted when it is one of the columns' encodings, and reading *)
(* it again without checks yields the same values.                         *)
RowsRead(columns, pieces) ==
    /\ RowExact(columns, FlattenSeq(pieces))
    /\ SecondReading(columns, FlattenSeq(pieces))

(* A description is accepted when the server will send what the reader     *)
(* reads, and parameters are written as the declared types ask.            *)
ParametersAgree(topic, subject, pieces) ==
    /\ topic = "described" => DescribedExact(subject, FlattenSeq(pieces))
    /\ topic = "bind" => BindExact(subject, Chosen(pieces))
=============================================================================
