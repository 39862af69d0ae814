------------------------------ MODULE MCQueries ------------------------------
(* Method chains for GenQuery, grown one call at a time: predicates and    *)
(* values with parameters that repeat, nested subqueries that shadow a     *)
(* name, joins, set operations, CTEs, groups, windows and writes.          *)
EXTENDS GenQuery

Topics == {"pg", "sqlite"}
MaxCalls == 5
MaxQualifiers == 2

Plain == [v |-> "", quals |-> <<>>]
Filters ==
    {Cmp(Col("t"), Param("p")), Cmp(Col("t"), Param("q"))}
Predicates ==
    Filters \cup
    {And(Cmp(Col("t"), Param("q")), In(Col("t"), "p")), Truth,
     Exists("u", And(Cmp(Col("u"), Col("t")),
                     Exists("v", Cmp(Add(Col("v"), Col("t")), Param("p"))))),
     Exists("t", Cmp(Col("t"), Param("q")))}

FilterCalls ==
    {Filter(c, <<"t">>, e) : c \in BOOLEAN, e \in Predicates}
    \cup {Filter(FALSE, <<"t", "u">>,
                 Exists("t", And(Cmp(Col("t"), Col("u")), Cmp(Col("t"), Param("p"))))),
          Filter(FALSE, <<"t", "u">>, Cmp(Col("u"), Param("q"))),
          Filter(FALSE, <<"t", "u", "v">>, Cmp(Add(Col("v"), Col("u")), Param("q")))}
JoinCalls ==
    {Join("inner", <<"t", "u">>, Cmp(Col("t"), Col("u")), Plain),
     Join("inner", <<"t", "u">>, Cmp(Col("t"), Param("p")), Plain),
     Join("lateral", <<"t">>, Cmp(Col("u"), Col("t")),
          [v |-> "u", quals |-> <<Call("limit", <<>>, Param("p"))>>]),
     Join("lateral", <<"t", "u">>,
          And(Cmp(Col("v"), Col("u")), Exists("w", Cmp(Add(Col("w"), Col("t")), Param("p")))),
          [v |-> "v", quals |-> <<Call("order_by", <<"v">>, Add(Col("v"), Param("q")))>>])}
QualifierCalls ==
    {Call("order_by", <<"t">>, Add(Col("t"), Param("q"))),
     Call("order_by", <<"t", "u">>, Add(Col("u"), Param("q"))),
     Call("limit", <<>>, Param("p")), Call("offset", <<>>, Param("q")),
     Call("limit", <<>>, Lit), Call("distinct", <<>>, Lit),
     Call("distinct_on", <<"u">>, Add(Col("u"), Param("q"))),
     Call("for_update", <<>>, Lit), Call("rows", <<>>, Lit), Call("cte", <<>>, Lit)}
SetCalls ==
    {Setop(op, "t", Cmp(Col("t"), Param("q"))) : op \in {"UNION", "INTERSECT"}}
GroupCalls ==
    {Call("group_by", <<"t">>, Add(Col("t"), Param("q"))),
     Call("having", <<"t">>, And(Cmp(Handle, Param("p")), Cmp(Col("t"), Param("q")))),
     Call("count", <<>>, Lit), Call("max", <<"t">>, Add(Col("t"), Param("p")))}
WindowParts ==
    <<[kind |-> "ORDER", e |-> Add(Col("t"), Param("q"))],
      [kind |-> "PARTITION", e |-> Col("t")]>>
SelectCalls ==
    {Choose(<<"t">>, <<Sub("u", Cmp(Col("u"), Col("t")), Add(Col("u"), Param("q"))), Col("t")>>),
     Choose(<<"t">>, <<Param("q"), Lag(Col("t"), "p", WindowParts)>>),
     Choose(<<"u", "t">>, <<Add(Col("t"), Col("u"))>>),
     Call("one", <<>>, Lit), Call("all", <<>>, Lit)}
WriteCalls ==
    {Write("insert", <<"t">>, Lit,
           <<Param("q"), Sub("u", Cmp(Col("u"), Param("p")), Col("u"))>>, <<>>),
     Write("insert_from", <<"t">>, Lit, <<Param("q"), Col("t")>>, <<>>),
     Write("update", <<"t">>, Lit, <<Add(Col("t"), Param("q")), Param("p")>>, <<>>),
     Write("update", <<"t", "u">>, Lit, <<Sub("u", Cmp(Col("u"), Col("t")), Col("u"))>>, <<>>),
     Write("delete", <<"t">>, Lit, <<>>, <<>>),
     Write("each", <<"t">>, Cmp(Col("t"), Param("q")), <<Param("q")>>, <<"p", "q">>),
     Write("do_update", <<"t">>, Lit, <<Add(Col("t"), Param("p"))>>, <<>>),
     Call("returning", <<>>, Lit), Call("do_nothing", <<>>, Lit)}

Vocabulary ==
    FilterCalls \cup JoinCalls \cup QualifierCalls \cup SetCalls \cup GroupCalls
        \cup SelectCalls \cup WriteCalls

(* One CTE with a plain body, few filters behind it, few qualifiers.       *)
Wanted(chain, call) ==
    /\ Count(chain, {"cte"}) <= 1
    /\ CteEnds(chain) # {} /\ call.m = "filter" => call.e \in Filters
    /\ call.m = "cte" => chain[1].e \in Filters
    /\ call.m \in Qualifiers => Count(chain, Qualifiers \ {"rows"}) < MaxQualifiers

Longer(topic, chain) ==
    {Append(chain, call) : call \in
        {c \in IF Len(chain) < MaxCalls THEN Vocabulary ELSE {} :
            Extends(topic, chain, c) /\ Wanted(chain, c)}}

(* The statement generated for a chain means what the chain says.          *)
Exact(topic, chain) ==
    Complete(topic, chain) => QueryExact(topic, chain) /\ SetGrouping(topic, chain)
=============================================================================
