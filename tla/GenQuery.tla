------------------------------ MODULE GenQuery -------------------------------
(***************************************************************************)
(* The query macros of cartel-gen: a chain of DSL calls (parse/, shape/)   *)
(* becomes SQL text and the list of captured parameters (plan/, pred/,     *)
(* backend/mod.rs, emit/).                                                 *)
(*                                                                         *)
(* The compiler renders clauses in another order than it writes them, and  *)
(* numbers a parameter when it first renders it; it names tables by the    *)
(* depth of their subquery and not by the source the closure variable      *)
(* stands for.  Text is a sequence of parts: words, columns, declarations, *)
(* captured parameters, and the numbered placeholders they become.         *)
(*                                                                         *)
(* Abstracted: the wording of keywords and operators, attributes and       *)
(* arities syn's trees may have, spans of errors, Rust types of columns,   *)
(* and a declared return type (assumed to be the one the terminator wants).*)
(***************************************************************************)
EXTENDS Integers, Sequences, SequencesExt, FiniteSets

Part(t, w, d, i, lv) == [t |-> t, w |-> w, d |-> d, i |-> i, lv |-> lv]
Kw(w) == Part("kw", w, 0, 0, 0)
Cap(p) == Part("cap", p, 0, 0, 0)
Placeholder(n) == Part("ph", "", n, 0, 0)
Open == Part("open", "(SELECT", 0, 0, 0)
Close == Part("close", ")", 0, 0, 0)

-----------------------------------------------------------------------------
(* Captures.                                                               *)

(* Mutant: a parameter gets a new number wherever it is used again after   *)
(* another one, but the list keeps its first place.                        *)
(* sql::intern.                                                            *)
InternLast(caps, p) == IF p \in ToSet(caps) THEN caps ELSE <<p>> \o caps
Intern(caps, p) == IF p \in ToSet(caps) THEN caps ELSE Append(caps, p)
IndexOf(caps, p) == CHOOSE n \in DOMAIN caps : caps[n] = p

(* Sql::render and Integer::render: the parts of one clause against the    *)
(* captures so far.  A LIMIT, OFFSET or lag offset is also recorded as a   *)
(* parameter the generated code checks for a negative value.               *)
BoundCap(p) == Part("cap", p, 1, 0, 0)

(* Mutant: a parameter captured before is not marked again.                *)
MarkedFirst(s, part) ==
    IF part.d = 1 /\ part.w \notin ToSet(s.caps) THEN s.nonneg \cup {part.w} ELSE s.nonneg
Marked(s, part) == IF part.d = 1 THEN s.nonneg \cup {part.w} ELSE s.nonneg
RenderPart(s, part) ==
    IF part.t # "cap" THEN [s EXCEPT !.text = Append(@, part)]
    ELSE LET caps == Intern(s.caps, part.w)
         IN [text |-> Append(s.text, Placeholder(IndexOf(caps, part.w))),
             caps |-> caps, nonneg |-> Marked(s, part)]

(* A plan: its clauses in the order the code renders them, and the text    *)
(* with holes the rendered clauses are written into.                       *)
Clause(c, i, j, parts) == <<[name |-> <<c, i, j>>, parts |-> parts]>>
Hole(c, i, j) == <<Part("hole", c, i, j, 0)>>
Filled(out, clauses) ==
    FlattenSeq([n \in DOMAIN out |->
        IF out[n].t # "hole" THEN <<out[n]>>
        ELSE (CHOOSE c \in ToSet(clauses) : c.name = <<out[n].w, out[n].d, out[n].i>>).parts])
RenderAll(clauses, caps, nonneg) ==
    LET step(s, c) ==
            LET r == FoldLeft(RenderPart, [text |-> <<>>, caps |-> s.caps, nonneg |-> s.nonneg], c.parts)
            IN [clauses |-> Append(s.clauses, [c EXCEPT !.parts = r.text]), caps |-> r.caps, nonneg |-> r.nonneg]
    IN FoldLeft(step, [clauses |-> <<>>, caps |-> caps, nonneg |-> nonneg], clauses)

-----------------------------------------------------------------------------
(* Row scopes: frames from the innermost outwards, each with the names of  *)
(* its closure and the depth its sources are numbered under.  Depth -1 is  *)
(* a scope without a source (RowScope::single).                            *)
Frame(names, depth) == [names |-> names, depth |-> depth]

(* QuerySource::nested.                                                    *)
(* Mutant: a subquery numbers its sources like the query around it.        *)
NestedSame(depth) == IF depth = -1 THEN 0 ELSE depth
Nested(depth) == IF depth = -1 THEN 0 ELSE depth + 1

Binds(frame, v) == v \in ToSet(frame.names)
Resolves(scope, v) == \E n \in DOMAIN scope : Binds(scope[n], v)

(* RowScope::column_ref: the local rows first, then the outer ones.  lv    *)
(* records which query around the text the frame belongs to.               *)
ColumnRef(scope, v) ==
    LET n == CHOOSE k \in DOMAIN scope : Binds(scope[k], v) /\ \A j \in 1 .. k - 1 : ~Binds(scope[j], v)
        i == (CHOOSE k \in DOMAIN scope[n].names : scope[n].names[k] = v) - 1
    IN IF scope[n].depth = -1 THEN Part("bare", "", 0, i, Len(scope) - n)
       ELSE Part("col", "", scope[n].depth, i, Len(scope) - n)

(* QuerySource::declaration, render_base, render_join.                     *)
Declaration(depth, i, lv) == Part("decl", "", depth, i, lv)

(* The scope inside a subquery of `scope`, and its declaration.            *)
Inside(scope, v) == <<Frame(<<v>>, Nested(scope[1].depth))>> \o scope
InnerBase(scope) == Declaration(Nested(scope[1].depth), 0, Len(scope))

-----------------------------------------------------------------------------
(* Expressions: columns, parameters, literals, sums, window functions, the *)
(* handle of an aggregate, and scalar subqueries.                          *)
Col(v) == [k |-> "col", v |-> v]
Param(p) == [k |-> "param", p |-> p]
Lit == [k |-> "lit"]
Add(l, r) == [k |-> "add", l |-> l, r |-> r]
Handle == [k |-> "handle"]
Sub(v, pred, body) == [k |-> "sub", v |-> v, pred |-> pred, body |-> body]
Lag(e, offset, parts) == [k |-> "over", e |-> e, offset |-> offset, parts |-> parts]
Cmp(l, r) == [k |-> "cmp", l |-> l, r |-> r]
And(l, r) == [k |-> "and", l |-> l, r |-> r]
Exists(v, pred) == [k |-> "exists", v |-> v, pred |-> pred]
In(l, p) == [k |-> "in", l |-> l, p |-> p]
Truth == [k |-> "true"]

(* RowScope::has_column.                                                   *)
RECURSIVE HasColumn(_, _)
HasColumn(scope, e) ==
    CASE e.k = "col" -> Resolves(scope, e.v)
      [] e.k = "add" -> HasColumn(scope, e.l) \/ HasColumn(scope, e.r)
      [] OTHER -> FALSE

(* Whether write_expr succeeds, with or without the function's parameters, *)
(* and whether build_into accepts a predicate; column against column only  *)
(* where `columns` allows it.                                              *)
RECURSIVE Parses(_, _, _), Accepts(_, _, _)
Parses(scope, e, params) ==
    CASE e.k = "col" -> Resolves(scope, e.v)
      [] e.k = "param" -> params
      [] e.k = "add" -> Parses(scope, e.l, params) /\ Parses(scope, e.r, params)
      [] e.k = "sub" -> /\ params
                        /\ Accepts(Inside(scope, e.v), e.pred, TRUE)
                        /\ Parses(Inside(scope, e.v), e.body, TRUE)
      [] OTHER -> TRUE
Accepts(scope, e, columns) ==
    CASE e.k = "cmp" ->
             /\ Parses(scope, e.l, TRUE)
             /\ IF Parses(scope, e.r, FALSE)
                THEN columns \/ ~(HasColumn(scope, e.l) /\ HasColumn(scope, e.r))
                ELSE e.r.k = "param"
      [] e.k = "and" -> Accepts(scope, e.l, columns) /\ Accepts(scope, e.r, columns)
      [] e.k = "exists" -> Accepts(Inside(scope, e.v), e.pred, TRUE)
      [] e.k = "in" -> Parses(scope, e.l, TRUE)
      [] OTHER -> TRUE

(* Dialect::reject_op: SQLite has no in_.                                  *)
RECURSIVE Supported(_, _)
Supported(d, e) ==
    CASE e.k = "in" -> d = "pg"
      [] e.k = "and" -> Supported(d, e.l) /\ Supported(d, e.r)
      [] e.k = "exists" -> Supported(d, e.pred)
      [] OTHER -> TRUE

(* write_expr, build_into, exists and scalar_agg: the parts they append.   *)
RECURSIVE Expr(_, _), Pred(_, _)
Subquery(scope, e, head) ==
    <<Open>> \o head \o <<Kw("FROM"), InnerBase(scope), Kw("WHERE")>>
        \o Pred(Inside(scope, e.v), e.pred) \o <<Close>>
Expr(scope, e) ==
    CASE e.k = "col" -> <<ColumnRef(scope, e.v)>>
      [] e.k = "param" -> <<Cap(e.p)>>
      [] e.k = "lit" -> <<Kw("1")>>
      [] e.k = "handle" -> <<Kw("COUNT(*)")>>
      [] e.k = "add" -> <<Kw("(")>> \o Expr(scope, e.l) \o <<Kw("+")>> \o Expr(scope, e.r) \o <<Kw(")")>>
      [] e.k = "sub" -> Subquery(scope, e, Expr(Inside(scope, e.v), e.body))
Pred(scope, e) ==
    CASE e.k = "cmp" -> Expr(scope, e.l) \o <<Kw("=")>>
                        \o (IF Parses(scope, e.r, FALSE) THEN Expr(scope, e.r) ELSE <<Cap(e.r.p)>>)
      [] e.k = "and" -> <<Kw("(")>> \o Pred(scope, e.l) \o <<Kw("AND")>> \o Pred(scope, e.r) \o <<Kw(")")>>
      [] e.k = "exists" -> Subquery(scope, e, <<Kw("1")>>)
      [] e.k = "in" -> Expr(scope, e.l) \o <<Kw("= ANY"), Cap(e.p)>>
      [] e.k = "true" -> <<Kw("TRUE")>>

(* window::build for the element at position n: rendered as the chain      *)
(* gives its parts, written with the groups before the orders.             *)
(* Anything else is an expression.                                         *)
ElementClauses(scope, n, e) ==
    IF e.k # "over" THEN Clause("elem", n, 0, Expr(scope, e))
    ELSE Clause("elem", n, 0, Expr(scope, e.e) \o <<BoundCap(e.offset)>>)
             \o FlattenSeq([k \in DOMAIN e.parts |-> Clause("elem", n, k, Expr(scope, e.parts[k].e))])
ElementText(n, e) ==
    IF e.k # "over" THEN Hole("elem", n, 0)
    ELSE LET of(kind) == FlattenSeq([k \in DOMAIN e.parts |->
                             IF e.parts[k].kind = kind THEN <<Kw(kind)>> \o Hole("elem", n, k) ELSE <<>>])
         IN <<Kw("lag(")>> \o Hole("elem", n, 0) \o <<Kw("OVER(")>> \o of("PARTITION") \o of("ORDER") \o <<Kw(")")>>
ElementParses(scope, e) ==
    IF e.k = "over" THEN /\ Parses(scope, e.e, TRUE)
                         /\ \A n \in DOMAIN e.parts : Parses(scope, e.parts[n].e, TRUE)
    ELSE Parses(scope, e, TRUE)

-----------------------------------------------------------------------------
(* A chain is a sequence of calls: joins, a filter, then qualifiers and an *)
(* operation, or an insert and what follows it.  A "cte" call ends a       *)
(* binding; a filter with `cte` reads the binding before it.               *)
Call(m, vs, e) == [m |-> m, vs |-> vs, e |-> e]
Filter(cte, vs, e) == [m |-> "filter", vs |-> vs, e |-> e, cte |-> cte]
Join(kind, vs, e, inner) == [m |-> "join", vs |-> vs, e |-> e, kind |-> kind, inner |-> inner]
Setop(op, v, e) == [m |-> "set", op |-> op, vs |-> <<v>>, e |-> e]
Choose(vs, es) == [m |-> "select", vs |-> vs, e |-> Truth, es |-> es]
Write(m, vs, e, es, data) == [m |-> m, vs |-> vs, e |-> e, es |-> es, data |-> data]

Qualifiers == {"rows", "order_by", "limit", "offset", "distinct", "distinct_on", "for_update"}
Fetches == {"one", "first", "all"}
Count(calls, ms) == Cardinality({n \in DOMAIN calls : calls[n].m \in ms})
Of(calls, m) == SelectSeq(calls, LAMBDA c : c.m = m)

(* State::peel: the qualifiers a chain ends in, and the chain before them. *)
PeelAt(chain) ==
    CHOOSE n \in 0 .. Len(chain) :
        /\ \A k \in n + 1 .. Len(chain) : chain[k].m \in Qualifiers
        /\ n = 0 \/ chain[n].m \notin Qualifiers
Peeled(chain) == SubSeq(chain, 1, PeelAt(chain))
Peel(chain) == SubSeq(chain, PeelAt(chain) + 1, Len(chain))
NoDuplicates(quals) ==
    \A ms \in {{"limit"}, {"offset"}, {"distinct", "distinct_on"}, {"for_update"}} : Count(quals, ms) <= 1

(* QuerySource::parse_chain and parse_joins: joins, then one filter.       *)
Arity(c, n) == Len(c.vs) = IF c.m = "join" /\ c.kind = "lateral" THEN n ELSE n + 1
SourceOk(src) ==
    LET n == Len(src)
    IN /\ n > 0 /\ src[n].m = "filter" /\ Len(src[n].vs) = n
       /\ src[n].cte => n = 1
       /\ \A k \in 1 .. n - 1 : src[k].m = "join" /\ Arity(src[k], k)
Joins(src) == Len(src) - 1
Where(src) == src[Len(src)]
Scope(vs) == <<Frame(vs, 0)>>

(* Qualify::new and render: ORDER BY, LIMIT, OFFSET, lock.                 *)
(* Clause::new sees the closure's own names for the sources.               *)
HasBound(quals, m) == Of(quals, m) # <<>>
IntegerPart(e) == IF e.k = "param" THEN <<BoundCap(e.p)>> ELSE <<Kw("1")>>
LimitParts(d, quals, term) ==
    IF HasBound(quals, "limit") THEN <<Kw("LIMIT")>> \o IntegerPart(Of(quals, "limit")[1].e)
    ELSE IF term \in {"one", "first"} THEN <<Kw("LIMIT"), Kw("1")>>
    ELSE IF d = "sqlite" /\ HasBound(quals, "offset") THEN <<Kw("LIMIT"), Kw("-1")>>
    ELSE <<>>
OrderScope(scope, c) == <<Frame(c.vs, scope[1].depth)>> \o Tail(scope)
Tailed(d, scope, quals, term) ==
    LET orders == Of(quals, "order_by")
    IN FlattenSeq([n \in DOMAIN orders |-> <<Kw("ORDER")>> \o Expr(OrderScope(scope, orders[n]), orders[n].e)])
           \o LimitParts(d, quals, term)
           \o (IF HasBound(quals, "offset") THEN <<Kw("OFFSET")>> \o IntegerPart(Of(quals, "offset")[1].e) ELSE <<>>)
           \o (IF HasBound(quals, "for_update") THEN <<Kw("FOR UPDATE")>> ELSE <<>>)
QualifyOk(d, scope, quals) ==
    /\ NoDuplicates(quals)
    /\ HasBound(quals, "for_update") => d = "pg" /\ Count(quals, {"distinct", "distinct_on"}) = 0
    /\ \A n \in DOMAIN quals :
           /\ quals[n].m = "order_by" => /\ Len(quals[n].vs) = Len(scope[1].names)
                                         /\ Parses(OrderScope(scope, quals[n]), quals[n].e, TRUE)
           /\ quals[n].m = "distinct_on" => Parses(OrderScope(scope, quals[n]), quals[n].e, TRUE)
(* project::distinct binds the first source only.                          *)
Distinct(scope, quals) ==
    IF HasBound(quals, "distinct_on")
    THEN LET on == Of(quals, "distinct_on")[1] IN <<Kw("DISTINCT ON(")>> \o Expr(OrderScope(scope, on), on.e) \o <<Kw(")")>>
    ELSE IF HasBound(quals, "distinct") THEN <<Kw("DISTINCT")>> ELSE <<>>

(* join_parts, project::lateral and filter::join: one join.  An ON clause  *)
(* may not capture; a lateral body is a subquery that sees the sources     *)
(* before it.                                                              *)
Captures(parts) == \E n \in DOMAIN parts : parts[n].t = "cap"
LateralScope(j) == <<Frame(<<j.inner.v>>, Nested(0)), Frame(j.vs, 0)>>
JoinOk(d, j) ==
    IF j.kind = "lateral"
    THEN /\ Accepts(LateralScope(j), j.e, TRUE)
         /\ QualifyOk(d, LateralScope(j), j.inner.quals)
    ELSE Accepts(Scope(j.vs), j.e, TRUE) /\ ~Captures(Pred(Scope(j.vs), j.e))
JoinClauses(d, j, k) ==
    IF j.kind = "lateral"
    THEN Clause("where", k, 1, Pred(LateralScope(j), j.e))
             \o Clause("distinct", k, 1, Distinct(LateralScope(j), j.inner.quals))
             \o Clause("tail", k, 1, Tailed(d, LateralScope(j), j.inner.quals, "none"))
    ELSE Clause("on", k, 0, Pred(Scope(j.vs), j.e))
JoinText(j, k) ==
    IF j.kind = "lateral"
    THEN <<Kw("LATERAL"), Open>> \o Hole("distinct", k, 1) \o <<Kw("FROM"), Declaration(Nested(0), 0, 1), Kw("WHERE")>>
             \o Hole("where", k, 1) \o Hole("tail", k, 1) \o <<Close, Declaration(0, k, 0), Kw("ON TRUE")>>
    ELSE <<Kw("JOIN"), Declaration(0, k, 0), Kw("ON")>> \o Hole("on", k, 0)
JoinsOk(d, src) == \A k \in 1 .. Joins(src) : JoinOk(d, src[k])
Froms(d, src) == FlattenSeq([k \in 1 .. Joins(src) |-> JoinClauses(d, src[k], k)])
FromText(src) ==
    <<Kw("FROM"), Declaration(0, 0, 0)>> \o FlattenSeq([k \in 1 .. Joins(src) |-> JoinText(src[k], k)])

(* filter::build on the chain's predicate.                                 *)
WhereOk(src) == Accepts(Scope(Where(src).vs), Where(src).e, FALSE)
WhereParts(src) == Pred(Scope(Where(src).vs), Where(src).e)

-----------------------------------------------------------------------------
(* Plans.                                                                  *)
Plan(ok, clauses, out) == [ok |-> ok, clauses |-> clauses, out |-> out]
Refused == Plan(FALSE, <<>>, <<>>)

(* select::build.  The WHERE is left out for `true`; the implicit row      *)
(* projection of a join lists every source.                                *)
SelectPlan(d, src, quals, proj, term) ==
    LET scope == Scope(Where(src).vs)
        skip == Where(src).e = Truth
        elems == IF proj = <<>> THEN <<>> ELSE proj[1].es
        inner == IF proj = <<>> THEN scope ELSE Scope(proj[1].vs)
    IN Plan(/\ QualifyOk(d, scope, quals) /\ JoinsOk(d, src)
            /\ skip \/ WhereOk(src)
            /\ Len(inner[1].names) = Len(src)
            /\ \A n \in DOMAIN elems :
                   /\ ElementParses(inner, elems[n])
                   /\ elems[n].k = "over" => ~HasBound(quals, "for_update"),
            Froms(d, src)
                \o (IF skip THEN <<>> ELSE Clause("where", 0, 0, WhereParts(src)))
                \o Clause("tail", 0, 0, Tailed(d, scope, quals, term))
                \o Clause("distinct", 0, 0, Distinct(scope, quals))
                \o FlattenSeq([n \in DOMAIN elems |-> ElementClauses(inner, n, elems[n])]),
            <<Kw("SELECT")>> \o Hole("distinct", 0, 0)
                \o (IF proj # <<>> THEN FlattenSeq([n \in DOMAIN elems |-> ElementText(n, elems[n])])
                    ELSE [n \in 1 .. Len(src) |-> Part("col", "", 0, n - 1, 0)])
                \o FromText(src)
                \o (IF skip THEN <<>> ELSE <<Kw("WHERE")>> \o Hole("where", 0, 0))
                \o Hole("tail", 0, 0))

(* cte::build.                                                             *)
CtePlan(d, src, quals) ==
    LET scope == Scope(Where(src).vs)
    IN Plan(QualifyOk(d, scope, quals) /\ JoinsOk(d, src) /\ WhereOk(src),
            Froms(d, src) \o Clause("where", 0, 0, WhereParts(src))
                \o Clause("distinct", 0, 0, Distinct(scope, quals)) \o Clause("tail", 0, 0, Tailed(d, scope, quals, "none")),
            <<Kw("WITH"), Open>> \o Hole("distinct", 0, 0) \o <<Part("col", "", 0, 0, 0)>> \o FromText(src)
                \o <<Kw("WHERE")>> \o Hole("where", 0, 0) \o Hole("tail", 0, 0) \o <<Close>>)

(* agg::build.  The group is rendered once and written twice.              *)
AggregatePlan(d, src, quals, group, having, value) ==
    LET scope == Scope(Where(src).vs)
        parts(clause, calls) == IF calls = <<>> THEN <<>> ELSE Clause(clause, 0, 0, Expr(Scope(calls[1].vs), calls[1].e))
        hole(clause, calls, w) == IF calls = <<>> THEN <<>> ELSE <<Kw(w)>> \o Hole(clause, 0, 0)
    IN Plan(/\ Count(quals, {"distinct", "distinct_on", "for_update"}) = 0
            /\ having # <<>> => group # <<>>
            /\ \A c \in ToSet(group \o value) : Len(c.vs) = Len(src) /\ Parses(Scope(c.vs), c.e, TRUE)
            /\ \A c \in ToSet(having) : Len(c.vs) = Len(src) /\ Accepts(Scope(c.vs), c.e, FALSE)
            /\ QualifyOk(d, scope, quals) /\ JoinsOk(d, src) /\ WhereOk(src),
            Froms(d, src) \o Clause("where", 0, 0, WhereParts(src))
                \o parts("group", group) \o parts("value", value)
                \o (IF having = <<>> THEN <<>> ELSE Clause("having", 0, 0, Pred(Scope(having[1].vs), having[1].e)))
                \o Clause("tail", 0, 0, Tailed(d, scope, quals, "none")),
            <<Kw("SELECT")>> \o hole("group", group, "KEY")
                \o (IF value = <<>> THEN <<Kw("COUNT(*)")>> ELSE hole("value", value, "MAX"))
                \o FromText(src) \o <<Kw("WHERE")>> \o Hole("where", 0, 0)
                \o hole("group", group, "GROUP") \o hole("having", having, "HAVING") \o Hole("tail", 0, 0))

(* set::build.  PostgreSQL binds INTERSECT tighter than the others, so all *)
(* links but the last are grouped to the left; SQLite has no grouping.     *)
(* Mutant: no grouping, or one too few.                                    *)
GroupsFewer(d, links) == IF d = "pg" /\ links > 1 THEN links - 2 ELSE 0
Groups(d, links) == IF d = "pg" /\ links > 0 THEN links - 1 ELSE 0
SetPlan(d, src, links, quals, term) ==
    LET branches == <<Where(src)>> \o links
        groups == Groups(d, Len(links))
        branch(n) ==
            LET c == branches[n]
            IN (IF n > 1 THEN <<Kw(c.op)>> ELSE <<>>)
                   \o <<Open, Kw("FROM"), Declaration(0, 0, 0)>>
                   \o (IF c.e = Truth THEN <<>> ELSE <<Kw("WHERE")>> \o Hole("where", n, 0))
                   \o <<Close>> \o (IF n > 1 /\ n - 1 <= groups THEN <<Kw(")")>> ELSE <<>>)
        orders == Of(quals, "order_by")
    IN Plan(/\ Joins(src) = 0
            /\ NoDuplicates(quals) /\ Count(quals, {"for_update", "distinct", "distinct_on"}) = 0
            /\ \A n \in DOMAIN branches : Accepts(Scope(branches[n].vs), branches[n].e, FALSE)
            /\ \A n \in DOMAIN orders : orders[n].e.k = "col" /\ orders[n].vs = <<orders[n].e.v>>,
            FlattenSeq([n \in DOMAIN branches |->
                IF branches[n].e = Truth THEN <<>> ELSE Clause("where", n, 0, Pred(Scope(branches[n].vs), branches[n].e))])
                \o Clause("tail", 0, 0, Tailed(d, <<Frame(<<>>, -1)>>, quals, term)),
            [n \in 1 .. groups |-> Kw("(")] \o FlattenSeq([n \in DOMAIN branches |-> branch(n)]) \o Hole("tail", 0, 0))

(* The writes.  Assign::collect: the right-hand sides in order.            *)
AssignsOk(scope, es) == es # <<>> /\ \A n \in DOMAIN es : Parses(scope, es[n], TRUE)
AssignClauses(name, scope, es) == FlattenSeq([n \in DOMAIN es |-> Clause(name, n, 0, Expr(scope, es[n]))])
AssignText(name, es) == FlattenSeq([n \in DOMAIN es |-> <<Kw("SET")>> \o Hole(name, n, 0)])

(* Conflict::new and render; reply::build.                                 *)
ConflictOk(acts) == /\ Len(acts) <= 1
                    /\ acts # <<>> /\ acts[1].m = "do_update" => AssignsOk(Scope(acts[1].vs), acts[1].es)
ConflictClauses(acts) ==
    IF acts # <<>> /\ acts[1].m = "do_update" THEN AssignClauses("conflict", Scope(acts[1].vs), acts[1].es) ELSE <<>>
ConflictText(acts) ==
    IF acts = <<>> THEN <<>>
    ELSE <<Kw("ON CONFLICT")>> \o (IF acts[1].m = "do_update" THEN AssignText("conflict", acts[1].es) ELSE <<>>)
ReturningText(d, rets) ==
    IF rets = <<>> THEN <<>> ELSE <<Kw("RETURNING")>> \o (IF d = "pg" THEN <<Part("col", "", 0, 0, 0)>> ELSE <<>>)

(* insert::insert and insert::from.                                        *)
InsertPlan(d, c, acts, rets) ==
    LET scope == <<Frame(c.vs, -1)>>
    IN Plan(AssignsOk(scope, c.es) /\ ConflictOk(acts) /\ Len(rets) <= 1,
            AssignClauses("value", scope, c.es) \o ConflictClauses(acts),
            <<Kw("INSERT"), Declaration(0, 0, 0), Kw("VALUES")>> \o AssignText("value", c.es)
                \o ConflictText(acts) \o ReturningText(d, rets))
InsertFromPlan(d, src, c, acts, rets) ==
    Plan(/\ Len(c.vs) = Len(src) /\ AssignsOk(Scope(c.vs), c.es) /\ WhereOk(src) /\ JoinsOk(d, src)
         /\ \A k \in 1 .. Joins(src) : src[k].kind # "lateral"
         /\ ConflictOk(acts) /\ Len(rets) <= 1,
         AssignClauses("value", Scope(c.vs), c.es) \o Clause("where", 0, 0, WhereParts(src))
             \o Froms(d, src) \o ConflictClauses(acts),
         <<Kw("INSERT"), Declaration(0, 0, 0), Open>> \o AssignText("value", c.es) \o FromText(src)
             \o <<Kw("WHERE")>> \o Hole("where", 0, 0) \o <<Close>>
             \o ConflictText(acts) \o ReturningText(d, rets))

(* update::build and update::delete: the joins become FROM or USING, their *)
(* conditions part of the WHERE; the filter is rendered before the         *)
(* assignments written before it.                                          *)
ChangePlan(d, src, c, rets) ==
    LET set == <<Frame(<<c.vs[1]>>, 0)>>
        es == IF c.m = "update" THEN c.es ELSE <<>>
        ons == FlattenSeq([k \in 1 .. Joins(src) |-> Hole("on", k, 0) \o <<Kw("AND")>>])
    IN Plan(/\ c.m = "update" => AssignsOk(set, es) /\ Len(c.vs) = Len(src)
            /\ ~Where(src).cte /\ JoinsOk(d, src) /\ WhereOk(src) /\ Len(rets) <= 1
            /\ \A k \in 1 .. Joins(src) : src[k].kind # "lateral",
            Froms(d, src) \o Clause("where", 0, 0, WhereParts(src)) \o AssignClauses("value", set, es),
            <<Kw(c.m), Declaration(0, 0, 0)>> \o AssignText("value", es) \o <<Kw("USING")>>
                \o [k \in 1 .. Joins(src) |-> Declaration(0, k, 0)]
                \o <<Kw("WHERE")>> \o ons \o Hole("where", 0, 0) \o ReturningText(d, rets))

(* update::each: the data columns are captured first and written between   *)
(* the assignments and the filter.                                         *)
EachPlan(d, c, rets) ==
    Plan(AssignsOk(Scope(c.vs), c.es) /\ Accepts(Scope(c.vs), c.e, TRUE) /\ Len(rets) <= 1 /\ c.data # <<>>,
         Clause("data", 0, 0, [n \in DOMAIN c.data |-> Cap(c.data[n])])
             \o AssignClauses("value", Scope(c.vs), c.es) \o Clause("where", 0, 0, Pred(Scope(c.vs), c.e)),
         <<Kw("UPDATE"), Declaration(0, 0, 0)>> \o AssignText("value", c.es) \o <<Kw("UNNEST(")>>
             \o Hole("data", 0, 0) \o <<Kw(")"), Kw("WHERE")>> \o Hole("where", 0, 0) \o ReturningText(d, rets))

-----------------------------------------------------------------------------
(* QueryShape::parse and query::build: from the end of the chain.          *)
Reads(d, chain) ==
    LET term == Last(chain).m
        quals == Peel(Front(chain))
        rest == Peeled(Front(chain))
        selecting == rest # <<>> /\ Last(rest).m = "select"
        before == Front(rest)
        links == SelectSeq(rest, LAMBDA c : c.m = "set")
        base == SubSeq(rest, 1, Len(rest) - Len(links))
    IN IF selecting
       THEN IF SourceOk(Peeled(before))
            THEN SelectPlan(d, Peeled(before), quals \o Peel(before), <<Last(rest)>>, term) ELSE Refused
       ELSE IF ~SourceOk(base) THEN Refused
       ELSE IF links # <<>> THEN SetPlan(d, base, links, quals, term)
       ELSE SelectPlan(d, base, quals, <<>>, term)
Reduces(d, chain) ==
    LET top == Last(chain)
        quals == Peel(Front(chain))
        rest == Peeled(Front(chain))
        having == IF rest # <<>> /\ Last(rest).m = "having" THEN <<Last(rest)>> ELSE <<>>
        mid == SubSeq(rest, 1, Len(rest) - Len(having))
        group == IF mid # <<>> /\ Last(mid).m = "group_by" THEN <<Last(mid)>> ELSE <<>>
        src == SubSeq(mid, 1, Len(mid) - Len(group))
    IN IF SourceOk(src) THEN AggregatePlan(d, src, quals, group, having, IF top.m = "max" THEN <<top>> ELSE <<>>)
       ELSE Refused
Conflicts == {"do_nothing", "do_update"}
Writes(d, chain) ==
    LET rets == Of(chain, "returning")
        acts == SelectSeq(chain, LAMBDA c : c.m \in Conflicts)
        core == SelectSeq(chain, LAMBDA c : c.m \notin Conflicts \cup {"returning"})
        top == Last(core)
        src == Front(core)
    IN CASE top.m = "insert" -> IF src = <<>> THEN InsertPlan(d, top, acts, rets) ELSE Refused
         [] top.m = "each" -> IF src = <<>> /\ acts = <<>> THEN EachPlan(d, top, rets) ELSE Refused
         [] top.m = "insert_from" -> IF SourceOk(src) THEN InsertFromPlan(d, src, top, acts, rets) ELSE Refused
         [] top.m \in {"update", "delete"} ->
                IF SourceOk(src) /\ acts = <<>> THEN ChangePlan(d, src, top, rets) ELSE Refused
         [] OTHER -> Refused
Planned(d, chain) ==
    CASE Last(chain).m \in Fetches -> Reads(d, chain)
      [] Last(chain).m \in {"count", "max"} -> Reduces(d, chain)
      [] OTHER -> Writes(d, chain)

(* Compiled::build: the bindings first, each against the captures of those *)
(* before it, then the query.                                              *)
CteEnds(chain) == {n \in DOMAIN chain : chain[n].m = "cte"}
BindingPlan(d, bound) ==
    IF SourceOk(Peeled(bound)) /\ ~Where(Peeled(bound)).cte THEN CtePlan(d, Peeled(bound), Peel(bound)) ELSE Refused
Written(cte, main, first, second) ==
    [ok |-> TRUE, caps |-> second.caps, nonneg |-> second.nonneg,
     text |-> Filled(cte.out, first.clauses) \o Filled(main.out, second.clauses),
     want |-> Filled(cte.out, cte.clauses) \o Filled(main.out, main.clauses)]
RenderRest(cte, main, first) == Written(cte, main, first, RenderAll(main.clauses, first.caps, first.nonneg))
Rendered(cte, main) ==
    IF cte.ok /\ main.ok THEN RenderRest(cte, main, RenderAll(cte.clauses, <<>>, {})) ELSE [ok |-> FALSE]
CompileAt(d, chain, ends, cut) ==
    Rendered(IF cut = 0 THEN Plan(TRUE, <<>>, <<>>)
             ELSE IF Cardinality(ends) = 1 THEN BindingPlan(d, SubSeq(chain, 1, cut - 1)) ELSE Refused,
             IF \A n \in DOMAIN chain : Supported(d, chain[n].e)
             THEN Planned(d, SubSeq(chain, cut + 1, Len(chain))) ELSE Refused)
Compile(d, chain) == CompileAt(d, chain, CteEnds(chain), Max(CteEnds(chain) \cup {0}))

(* The types of the query scope (dsl/query, dsl/write, dsl/agg): what may  *)
(* follow what, whatever the macro would make of it.                       *)
Arranges == {"order_by", "limit", "offset", "distinct", "distinct_on", "for_update"}
OnFilter == {"count", "max", "group_by", "update", "delete", "set", "cte", "insert_from"}
OnFilterPg == OnFilter \cup Fetches \cup Arranges \cup {"select"}
OnRows == Fetches \cup {"order_by", "limit", "offset", "distinct", "select"}
OnJoined == Fetches \cup {"order_by", "select", "count", "update", "delete", "insert_from"}
OnGroup == {"count", "max", "having", "order_by"}
OnWrite(kind) == IF kind = "Insert" THEN {"returning"} \cup Conflicts ELSE {"returning"}
Offered(d, kind) ==
    CASE kind = "Start" -> {"filter", "join", "insert", "each"}
      [] kind = "Plan" -> {"filter", "join"}
      [] kind = "Filter" -> IF d = "pg" THEN OnFilterPg ELSE OnFilter \cup {"rows"}
      [] kind = "Rows" -> OnRows
      [] kind = "Joined" -> OnJoined
      [] kind = "Select" -> Fetches
      [] kind = "Group" -> OnGroup
      [] kind \in {"Insert", "Change"} -> OnWrite(kind)
      [] OTHER -> {}
Becomes(d, kind, m) ==
    CASE m = "filter" -> IF kind = "Plan" THEN "Joined" ELSE "Filter"
      [] m = "join" -> "Plan"
      [] m = "rows" -> "Rows"
      [] m \in Arranges \cup {"set", "having"} -> kind
      [] m = "group_by" -> "Group"
      [] m = "select" -> "Select"
      [] m = "cte" -> "Start"
      [] m \in {"insert", "insert_from"} \cup Conflicts -> "Insert"
      [] m \in {"update", "delete", "each"} -> "Change"
      [] OTHER -> "Done"
Typed(d, chain) == FoldLeft(LAMBDA kind, c : Becomes(d, kind, c.m), "Start", chain)
Extends(d, chain, c) ==
    /\ c.m \in Offered(d, Typed(d, chain))
    /\ c.m = "filter" => (c.cte = (CteEnds(chain) # {} /\ Typed(d, chain) = "Start"))
Complete(d, chain) == Typed(d, chain) \in {"Done", "Insert", "Change"}

-----------------------------------------------------------------------------
(* What the SQL means.  A block is the text between an Open and its Close, *)
(* or the whole text; a name belongs to the innermost block declaring it.  *)
Closes(text, o) ==
    CHOOSE c \in o .. Len(text) :
        /\ text[c].t = "close"
        /\ LET inner == SubSeq(text, o, c)
           IN /\ Len(SelectSeq(inner, LAMBDA x : x.t = "open")) = Len(SelectSeq(inner, LAMBDA x : x.t = "close"))
              /\ \A k \in o .. c - 1 :
                     LET part == SubSeq(text, o, k)
                     IN Len(SelectSeq(part, LAMBDA x : x.t = "open")) > Len(SelectSeq(part, LAMBDA x : x.t = "close"))
Blocks(text) == {<<0, Len(text) + 1>>} \cup {<<o, Closes(text, o)>> : o \in {n \in DOMAIN text : text[n].t = "open"}}
Encloses(b, n) == b[1] < n /\ n < b[2]
Innermost(blocks, n) == CHOOSE b \in blocks : Encloses(b, n) /\ \A c \in blocks : Encloses(c, n) => c[1] <= b[1]
(* The declaration that `matches`, of the innermost block that has one.    *)
Declared(text, blocks, n, matches(_)) ==
    LET found(b) == {k \in DOMAIN text : text[k].t = "decl" /\ Innermost(blocks, k) = b /\ matches(text[k])}
        holders == {b \in blocks : Encloses(b, n) /\ found(b) # {}}
    IN IF holders = {} THEN {} ELSE found(CHOOSE b \in holders : \A c \in holders : c[1] <= b[1])

(* Every placeholder stands for the parameter written there, and the list  *)
(* of parameters has each once and no other; every column is the one of    *)
(* the row its closure named, by the scoping of SQL; and every parameter   *)
(* in a LIMIT, OFFSET or lag offset is one the generated code refuses when *)
(* it is negative.  plan/, pred/sql.rs and backend/mod.rs Compiled::build. *)
QueryExact(d, chain) == \A q \in {Compile(d, chain)} :
    q.ok =>
        \A blocks \in {Blocks(q.text)},
           caps \in {{q.want[n].w : n \in {k \in DOMAIN q.want : q.want[k].t = "cap"}}} :
           /\ Len(q.text) = Len(q.want)
           /\ ToSet(q.caps) = caps /\ Len(q.caps) = Cardinality(caps)
           /\ \A n \in DOMAIN q.want :
                  /\ q.want[n].t = "cap" => /\ q.text[n].t = "ph" /\ q.caps[q.text[n].d] = q.want[n].w
                                            /\ q.want[n].d = 1 => q.want[n].w \in q.nonneg
                  /\ q.want[n].t = "col" =>
                         \A x \in {q.want[n]} :
                         \A named \in {Declared(q.text, blocks, n, LAMBDA y : y.d = x.d /\ y.i = x.i)} :
                             /\ Cardinality(named) = 1
                             /\ named = Declared(q.text, blocks, n, LAMBDA y : y.lv = x.lv /\ y.i = x.i)

(* The written set operation means the chain read from the left: with      *)
(* PostgreSQL's precedence (INTERSECT first) or SQLite's (none), the text  *)
(* is grouped as ((a op b) op c) ....  set.rs build.                       *)
Skeleton(text) ==
    LET step(s, x) ==
            CASE x.t = "open" -> IF s.depth > 0 THEN [s EXCEPT !.depth = @ + 1]
                                 ELSE [depth |-> 1, n |-> s.n + 1, out |-> Append(s.out, [t |-> "leaf", w |-> "", n |-> s.n + 1])]
              [] x.t = "close" -> [s EXCEPT !.depth = @ - 1]
              [] s.depth = 0 /\ x.w \in {"(", ")", "UNION", "INTERSECT", "EXCEPT"} ->
                     [s EXCEPT !.out = Append(@, [t |-> "tok", w |-> x.w, n |-> 0])]
              [] OTHER -> s
    IN FoldLeft(step, [depth |-> 0, n |-> 0, out |-> <<>>], text).out
Depth(toks, n) == Len(SelectSeq(SubSeq(toks, 1, n), LAMBDA t : t.w = "(")) - Len(SelectSeq(SubSeq(toks, 1, n), LAMBDA t : t.w = ")"))
RECURSIVE Tree(_, _)
Tree(d, toks) ==
    LET ops == {n \in DOMAIN toks : toks[n].t = "tok" /\ toks[n].w \notin {"(", ")"} /\ Depth(toks, n) = 0}
        low == IF d = "pg" /\ \E n \in ops : toks[n].w # "INTERSECT" THEN {n \in ops : toks[n].w # "INTERSECT"} ELSE ops
        at == CHOOSE n \in low : \A k \in low : k <= n
    IN IF Len(toks) = 1 THEN [op |-> "leaf", n |-> toks[1].n]
       ELSE IF ops = {} THEN Tree(d, SubSeq(toks, 2, Len(toks) - 1))
       ELSE [op |-> toks[at].w, l |-> Tree(d, SubSeq(toks, 1, at - 1)), r |-> Tree(d, SubSeq(toks, at + 1, Len(toks)))]
RECURSIVE LeftTree(_, _)
LeftTree(links, n) ==
    IF n = 0 THEN [op |-> "leaf", n |-> 1]
    ELSE [op |-> links[n].op, l |-> LeftTree(links, n - 1), r |-> [op |-> "leaf", n |-> n + 1]]
SetGrouping(d, chain) ==
    \A q \in {Compile(d, chain)}, links \in {SelectSeq(chain, LAMBDA c : c.m = "set")} :
        q.ok /\ links # <<>> /\ CteEnds(chain) = {} =>
           Tree(d, Skeleton(SelectSeq(q.text, LAMBDA x : x.t \in {"kw", "open", "close"}))) = LeftTree(links, Len(links))
=============================================================================
