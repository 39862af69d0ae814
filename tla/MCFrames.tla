------------------------------ MODULE MCFrames ------------------------------
(* Prepared catalogs, requests and received bytes for PgFrames, grown one  *)
(* piece at a time.                                                        *)
EXTENDS PgFrames

Prepared(name, sql, oids, ltree) ==
    [name |-> name, sql |-> sql, oids |-> oids, rows |-> TRUE, scalar |-> FALSE,
     columns |-> 1, params |-> Len(oids), ltree |-> ltree]
Queries ==
    {Prepared(<<1>>, <<9>>, <<>>, FALSE), Prepared(<<2>>, <<9>>, <<23>>, FALSE),
     Prepared(<<3>>, <<9>>, <<>>, TRUE), Prepared(<<1, 0>>, <<9>>, <<>>, FALSE),
     Prepared(<<4, 4>>, <<>>, <<0, 80>>, FALSE)}

SqlTopics == {"raw", "begin", "quoted"}
CodecTopics == {"codec3", "codec5"}
Topics == {"groups", "typed", "startup"} \cup SqlTopics \cup CodecTopics
CodecMax(topic) == IF topic = "codec3" THEN 3 ELSE 5

Grown(groups) ==
    {Append(groups, <<>>)} \cup
    {[groups EXCEPT ![Len(groups)] = Append(@, q)] : q \in IF groups = <<>> THEN {} ELSE Queries}

Cells(topic) ==
    CASE topic \in CodecTopics -> 0 .. 5
      [] topic \in {"raw", "startup"} -> {0, 1, 34, 65, 83}
      [] topic \in {"begin", "quoted"} -> {1, 34, 65, 83}
      [] topic = "typed" -> {<<>>, <<-1>>, <<2, 0, 83>>, <<0>>}
Bound(topic) ==
    CASE topic \in CodecTopics -> 6 [] topic = "typed" -> 3 [] OTHER -> 5

Longer(topic, input) ==
    IF topic = "groups"
    THEN IF Len(FlattenSeq(input)) + Len(input) < 6 THEN Grown(input) ELSE {}
    ELSE IF Len(input) < Bound(topic) THEN {Append(input, c) : c \in Cells(topic)} ELSE {}

Request(topic, input, extra) ==
    [sql |-> [kind |-> topic, text |-> input], extra |-> extra, data |-> input]
Typed(input, boundary) ==
    [name |-> <<7>>, formats |-> <<1>>, results |-> <<0, 1>>, rows |-> input,
     boundary |-> boundary]
Startup(input) ==
    [user |-> IF Len(input) < 3 THEN input ELSE <<65>>, database |-> <<66>>,
     app |-> <<>>, timeout |-> <<>>, schema |-> input]

(* What is sent is the frames the protocol asks for, with their lengths    *)
(* and boundaries, and what is received is cut into whole frames.          *)
Exact(topic, input) ==
    CASE topic = "groups" -> PreparedExact(input)
      [] topic \in CodecTopics -> CodecExact(input, CodecMax(topic))
      [] topic \in SqlTopics ->
             \A extra \in {"Plain", "CopyIn", "CopyInOpen"} :
                 topic = "raw" \/ extra = "Plain" => RequestExact(Request(topic, input, extra))
      [] topic = "typed" ->
             \A boundary \in {"Open", "Close"} : TypedExact(Typed(input, boundary))
      [] topic = "startup" -> StartupExact(Startup(input))
=============================================================================
