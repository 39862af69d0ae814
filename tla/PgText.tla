------------------------------- MODULE PgText --------------------------------
(***************************************************************************)
(* The texts a PostgreSQL connection parses with its own code:             *)
(* protocol/scram/parser.rs (the server's SCRAM messages),                 *)
(* scram/password.rs (SASLprep of the password) and reply/server.rs,       *)
(* context.rs, code.rs, raw.rs and plan.rs (diagnostics).                  *)
(*                                                                         *)
(* A text is a sequence of the pieces the code tells apart: attributes,    *)
(* characters or fields.  Each algorithm is an operator on it, and beside  *)
(* it stands what it has to compute, said without its order of steps.      *)
(***************************************************************************)
EXTENDS Naturals, Sequences, SequencesExt, FiniteSets

-----------------------------------------------------------------------------
(* SCRAM attributes: name, and what its value is to the parser.  "1" is no *)
(* letter; a "noeq" piece is too short or lacks its '='; Comma stands for a *)
(* comma at the end of the message.                                        *)
ScramNames == {"r", "s", "i", "m", "v", "e", "x", "y", "1"}
ScramValues == {"ok", "bad", "empty", "noeq"}
Comma == [name |-> "comma", value |-> "ok"]
ScramPieces == [name : ScramNames, value : ScramValues] \cup {Comma}

Reserved == {"a", "c", "e", "i", "m", "n", "p", "r", "s", "v"}

(* Attributes::next at position i: an attribute, or why there is none.     *)
NextAttribute(text, i) ==
    IF i > Len(text) THEN "end"
    ELSE IF text[i] = Comma \/ text[i].value = "noeq" THEN "truncated"
    ELSE IF text[i].name = "1" THEN "name"
    ELSE IF text[i].value = "empty" THEN "empty"
    ELSE IF i + 1 = Len(text) /\ text[i + 1] = Comma THEN "trailing"
    ELSE "attribute"

(* Attributes::required.                                                   *)
Required(text, i, name) ==
    IF NextAttribute(text, i) # "attribute" THEN "refused"
    ELSE IF text[i].name = "m" THEN "extension"
    ELSE IF text[i].name # name THEN "order" ELSE "ok"

(* Attributes::extensions from position i on.                              *)
(* Mutant: a name is not recorded once it was met.                         *)
SeenNone(text, from, i) == {}
Seen(text, from, i) == {text[j].name : j \in from .. i - 1}

Extensions(text, from) ==
    LET scan[i \in from .. Len(text) + 1] ==
            IF NextAttribute(text, i) = "end" THEN "ok"
            ELSE IF NextAttribute(text, i) # "attribute" THEN "refused"
            ELSE IF text[i].name = "m" THEN "extension"
            ELSE IF text[i].name \in Reserved THEN "standard"
            ELSE IF text[i].name \in Seen(text, from, i) THEN "duplicate"
            ELSE IF text[i].value = "bad" THEN "value"
            ELSE scan[i + 1]
    IN scan[from]

(* Parser::server_first: nonce, salt, a positive iteration count, and      *)
(* extensions.  The salt is decoded later.                                 *)
ServerFirst(text) ==
    IF Required(text, 1, "r") # "ok" THEN Required(text, 1, "r")
    ELSE IF text[1].value = "bad" THEN "nonce"
    ELSE IF Required(text, 2, "s") # "ok" THEN Required(text, 2, "s")
    ELSE IF Required(text, 3, "i") # "ok" THEN Required(text, 3, "i")
    ELSE IF text[3].value = "bad" THEN "iterations"
    ELSE Extensions(text, 4)

(* Parser::server_final: an error or a verifier, and extensions.           *)
ServerFinal(text) ==
    IF NextAttribute(text, 1) # "attribute" THEN "refused"
    ELSE IF text[1].name = "m" THEN "extension"
    ELSE IF text[1].name \notin {"e", "v"} THEN "attribute"
    ELSE IF text[1].name = "e" /\ text[1].value = "bad" THEN "value"
    ELSE Extensions(text, 2)

(* RFC 5802, section 7: the messages as one production.                    *)
WellFormed(text) ==
    \A i \in DOMAIN text :
        text[i] # Comma /\ text[i].name # "1" /\ text[i].value \in {"ok", "bad"}
PlainExtensions(text, from) ==
    /\ \A i \in from .. Len(text) : text[i].name \notin Reserved /\ text[i].value = "ok"
    /\ \A i, j \in from .. Len(text) : text[i].name = text[j].name => i = j
FirstGrammar(text) ==
    /\ Len(text) >= 3 /\ WellFormed(text)
    /\ text[1].name = "r" /\ text[1].value = "ok"
    /\ text[2].name = "s"
    /\ text[3].name = "i" /\ text[3].value = "ok"
    /\ PlainExtensions(text, 4)
FinalGrammar(text) ==
    /\ text # <<>> /\ WellFormed(text)
    /\ text[1].name = "v" \/ (text[1].name = "e" /\ text[1].value = "ok")
    /\ PlainExtensions(text, 2)

-----------------------------------------------------------------------------
(* Characters of a password.  "a" is a letter, "h" a second one that takes *)
(* a vowel "i" (class 0) into "H"; "x" and "y" are marks of classes 1 and  *)
(* 2, "z" another of class 2; "A" is a with y, "E" a with x, "F" E with y. *)
(* "_" is a space that is not ASCII, "-" maps to nothing, "!" is not       *)
(* allowed, "R" is written from right to left.                             *)
PasswordChars == {"a", "h", "i", "x", "y", "z", "A", "_", "-", "!", "R"}

Class(ch) == CASE ch = "x" -> 1 [] ch \in {"y", "z"} -> 2 [] OTHER -> 0
DecomposeChar(ch) == IF ch = "A" THEN <<"a", "y">> ELSE <<ch>>
Pairs == {<<<<"a", "y">>, "A">>, <<<<"a", "x">>, "E">>, <<<<"E", "y">>, "F">>,
          <<<<"h", "i">>, "H">>}
Composes(l, r) == \E p \in Pairs : p[1] = <<l, r>>
Composed(l, r) == (CHOOSE p \in Pairs : p[1] = <<l, r>>)[2]

LeftToRight(ch) == ch \in {"a", "h", "i", "A"}
RightToLeft(ch) == ch = "R"

(* mapped: other spaces become a space, some characters nothing.           *)
Mapped(text) ==
    LET kept == SelectSeq(text, LAMBDA ch : ch # "-")
    IN [i \in DOMAIN kept |-> IF kept[i] = "_" THEN " " ELSE kept[i]]

Decompose(text) == FlattenSeq([i \in DOMAIN text |-> DecomposeChar(text[i])])

(* The counting pass of prepare over the decomposed characters: the length *)
(* admitted and the scratch room for the longest disordered segment.       *)
(* Mutant: a segment that the text ends in is not counted.                 *)
LastSegmentIgnored(s) == s.scratch
LastSegment(s) ==
    IF s.disordered /\ s.len - s.start > s.scratch THEN s.len - s.start ELSE s.scratch

CountChar(s, ch) ==
    IF Class(ch) = 0
    THEN [len |-> s.len + 1, start |-> s.len, last |-> 0, disordered |-> FALSE,
          scratch |-> LastSegment(s)]
    ELSE [s EXCEPT !.len = @ + 1, !.last = Class(ch), !.disordered = @ \/ s.last > Class(ch)]
Count(chars) ==
    LET end == FoldLeft(CountChar,
            [len |-> 0, start |-> 0, last |-> 0, disordered |-> FALSE, scratch |-> 0], chars)
    IN [len |-> end.len, scratch |-> LastSegment(end)]

(* Segments of compose_all: a starter, or the beginning, and the marks up  *)
(* to the next one.  With no scratch room the text is one segment.         *)
SegmentStarts(chars) == {i \in DOMAIN chars : i = 1 \/ Class(chars[i]) = 0}
SegmentEnd(chars, i) ==
    LET later == {j \in SegmentStarts(chars) : j > i}
    IN IF later = {} THEN Len(chars) ELSE (CHOOSE j \in later : \A k \in later : j <= k) - 1
Ordered(segment) == \A i \in 1 .. Len(segment) - 1 : Class(segment[i]) <= Class(segment[i + 1])

(* The counting sort of a disordered segment, into the scratch room; a     *)
(* segment that does not fit is a write past the allocation.               *)
OverFlow == <<"overflow">>
Scattered(segment, room) ==
    IF Len(segment) > room THEN OverFlow
    ELSE LET Of(c) == SelectSeq(segment, LAMBDA ch : Class(ch) = c) IN Of(0) \o Of(1) \o Of(2)

InOrder(chars, room) ==
    IF room = 0 THEN chars
    ELSE LET At(i) == SubSeq(chars, i, SegmentEnd(chars, i))
             starts == SetToSortSeq(SegmentStarts(chars), <)
         IN FlattenSeq([n \in DOMAIN starts |->
                IF Ordered(At(starts[n])) THEN At(starts[n]) ELSE Scattered(At(starts[n]), room)])

(* The composing loop: what is written, where the last starter stands and  *)
(* the class of the last character written.                                *)
(* Mutant: a mark of the same class as the one before is composed.         *)
JoinsEqual(s, ch) == s.previous = 0 \/ s.previous <= Class(ch)
Joins(s, ch) == s.previous = 0 \/ s.previous < Class(ch)

ComposeChar(s, ch) ==
    IF s.starter # 0 /\ Joins(s, ch) /\ Composes(s.out[s.starter], ch)
    THEN [s EXCEPT !.out[s.starter] = Composed(@, ch)]
    ELSE [out |-> Append(s.out, ch), previous |-> Class(ch),
          starter |-> IF Class(ch) = 0 THEN Len(s.out) + 1 ELSE s.starter]
ComposeAll(chars, room) ==
    FoldLeft(ComposeChar, [out |-> <<>>, starter |-> 0, previous |-> 0], InOrder(chars, room)).out

(* Password::try_prepare: a text that breaks a rule is used as it is.      *)
Prepared(text) ==
    LET mapped == Mapped(text)
        has(P(_)) == \E i \in DOMAIN mapped : P(mapped[i])
        chars == Decompose(mapped)
    IN IF \/ mapped = <<>> \/ "!" \in ToSet(mapped)
          \/ has(RightToLeft) /\ (has(LeftToRight) \/ ~RightToLeft(Head(mapped))
                                  \/ ~RightToLeft(Last(mapped)))
       THEN text
       ELSE ComposeAll(chars, Count(chars).scratch)

(* Canonical composition by its definition: a mark is blocked from the     *)
(* starter before it by a character between them of class 0 or of its own  *)
(* class or a higher one; the first pair that composes and is not blocked  *)
(* is replaced, until there is none.                                       *)
Swappable(s, i) == Class(s[i]) > Class(s[i + 1]) /\ Class(s[i + 1]) # 0
CanonicalOrder(chars) ==
    LET swap(s, n) ==
            IF \A i \in 1 .. Len(s) - 1 : ~Swappable(s, i) THEN s
            ELSE LET i == CHOOSE j \in 1 .. Len(s) - 1 : Swappable(s, j)
                 IN [s EXCEPT ![i] = s[i + 1], ![i + 1] = s[i]]
    IN FoldLeft(swap, chars, [n \in 1 .. Len(chars) * Len(chars) |-> n])
StarterOf(s, i) ==
    LET before == {j \in 1 .. i - 1 : Class(s[j]) = 0}
    IN IF before = {} THEN 0 ELSE CHOOSE j \in before : \A k \in before : k <= j
Combines(s, i) ==
    LET j == StarterOf(s, i) IN
    /\ j # 0 /\ Composes(s[j], s[i])
    /\ \A k \in j + 1 .. i - 1 : Class(s[k]) # 0 /\ Class(s[k]) < Class(s[i])
CanonicalComposition(chars) ==
    LET join(s, n) ==
            IF \A i \in DOMAIN s : ~Combines(s, i) THEN s
            ELSE LET i == CHOOSE k \in DOMAIN s : Combines(s, k) /\ \A l \in 1 .. k - 1 : ~Combines(s, l)
                 IN RemoveAt([s EXCEPT ![StarterOf(s, i)] = Composed(@, s[i])], i)
    IN FoldLeft(join, chars, [n \in DOMAIN chars |-> n])

SaslPrep(text) ==
    LET mapped == Mapped(text)
        rights == {i \in DOMAIN mapped : RightToLeft(mapped[i])}
        mixed == rights # {} /\ (rights \cap {1, Len(mapped)} # {1, Len(mapped)}
                                 \/ \E i \in DOMAIN mapped : LeftToRight(mapped[i]))
    IN IF mapped = <<>> \/ "!" \in ToSet(mapped) \/ mixed THEN text
       ELSE CanonicalComposition(CanonicalOrder(Decompose(mapped)))
-----------------------------------------------------------------------------
(* Diagnostics.  A field is its kind and its value; "D" stands for the     *)
(* text fields of the context, "P" for its numbers, "Z" for a kind the     *)
(* client does not know.  "end" is the final zero, "cut" a field without   *)
(* its zero, "utf" one that is no UTF-8.                                   *)
Values(kind) ==
    CASE kind = "S" -> {"", "ERROR", "NOTICE"}
      [] kind = "V" -> {"", "FATAL"}
      [] kind = "C" -> {"08006", "42601", "4260", "4260a"}
      [] kind = "P" -> {"7", "0", "x", "4294967296"}
      [] OTHER -> {"text"}
Kinds == {"S", "V", "C", "M", "D", "P", "Z"}
Mark(kind) == [kind |-> kind, value |-> ""]
Marks == {Mark("end"), Mark("cut"), Mark("utf")}
DiagnosticPieces ==
    UNION {{[kind |-> k, value |-> v] : v \in Values(k)} : k \in Kinds} \cup Marks

Absent == "absent"
NoFields == [k \in Kinds \ {"Z"} |-> Absent]
NumberValid(value) == value = "7"

(* Code::try_new and Code::class.                                          *)
CodeValid(value) == value \in {"08006", "42601"}
CodeClass(value) == IF value = "08006" THEN "Transient" ELSE "Permanent"

(* Plan::parse: whom the diagnostic is about.                              *)
ScopeOf(severity) ==
    CASE severity = "ERROR" -> "Command"
      [] severity \in {"FATAL", "PANIC"} -> "Connection"
      [] OTHER -> "Unknown"

(* recognized_bit and the mask of kinds already met.                       *)
(* Mutant: the mask is never filled.                                       *)
DuplicateNever(parts, kind) == FALSE
Duplicate(parts, kind) == kind # "Z" /\ parts[kind] # Absent

(* Build::set: a field stored; an unknown one is skipped.                  *)
Build(parts, piece) == IF piece.kind = "Z" THEN parts ELSE [parts EXCEPT ![piece.kind] = piece.value]

(* One turn of the loop in Fields::try_parse, and Parts::try_set.          *)
TrySet(s, piece) ==
    IF s.state = "refused" THEN s
    ELSE IF \/ s.state = "ended" \/ piece.kind \in {"cut", "utf"}
            \/ piece.kind # "end" /\ Duplicate(s.parts, piece.kind)
            \/ piece.kind = "P" /\ ~NumberValid(piece.value)
    THEN [s EXCEPT !.state = "refused"]
    ELSE IF piece.kind = "end" THEN [s EXCEPT !.state = "ended"]
    ELSE [s EXCEPT !.parts = Build(@, piece)]

Severity(parts) == IF parts["V"] # Absent THEN parts["V"] ELSE parts["S"]

(* Parts::try_finish and Plan::parse: what is kept, its class and scope.   *)
Refused == [severity |-> Absent]
TryParse(payload) ==
    LET read == FoldLeft(TrySet, [state |-> "reading", parts |-> NoFields], payload)
        parts == read.parts
    IN IF \/ read.state # "ended" \/ Severity(parts) \in {Absent, ""}
          \/ ~CodeValid(parts["C"]) \/ parts["M"] = Absent
       THEN Refused
       ELSE [severity |-> Severity(parts), code |-> parts["C"], message |-> parts["M"],
             detail |-> parts["D"], position |-> parts["P"],
             class |-> CodeClass(parts["C"]), scope |-> ScopeOf(Severity(parts))]

(* Fields::from_valid: the retained bytes read again without a check; the  *)
(* last of two equal fields stays.  "uninit" is a read of a field nothing  *)
(* was written to.                                                         *)
Uninit == "uninit"
FromValid(payload) ==
    LET end == CHOOSE i \in DOMAIN payload :
                   payload[i].kind = "end" /\ \A j \in 1 .. i - 1 : payload[j].kind # "end"
        parts == FoldLeft(Build, NoFields, SubSeq(payload, 1, end - 1))
        Read(v) == IF v = Absent THEN Uninit ELSE v
    IN [severity |-> IF parts["V"] # Absent THEN parts["V"] ELSE Read(parts["S"]),
        code |-> Read(parts["C"]), message |-> Read(parts["M"]),
        detail |-> parts["D"], position |-> parts["P"]]

(* Which diagnostics PostgreSQL may send, as the protocol documents them.  *)
FieldsOf(payload, kind) == {i \in DOMAIN payload : payload[i].kind = kind}
DiagnosticGrammar(payload) ==
    /\ payload # <<>>
    /\ \A i \in DOMAIN payload : payload[i].kind = "end" <=> i = Len(payload)
    /\ \A i \in DOMAIN payload : payload[i].kind \notin {"cut", "utf"}
    /\ \A k \in Kinds \ {"Z"} : Cardinality(FieldsOf(payload, k)) <= 1
    /\ FieldsOf(payload, "M") # {}
    /\ \E i \in FieldsOf(payload, "C") : CodeValid(payload[i].value)
    /\ \A i \in FieldsOf(payload, "P") : NumberValid(payload[i].value)
    /\ FieldsOf(payload, "V") \cup FieldsOf(payload, "S") # {}
    /\ \A i \in FieldsOf(payload, "V") : payload[i].value # ""
    /\ FieldsOf(payload, "V") = {} => \A i \in FieldsOf(payload, "S") : payload[i].value # ""

-----------------------------------------------------------------------------
(* The SCRAM parser accepts exactly the messages RFC 5802 has, and refuses *)
(* repeated, reserved and mandatory extensions (parser.rs).                *)
ScramExact(text) ==
    /\ ServerFirst(text) = "ok" <=> FirstGrammar(text)
    /\ ServerFinal(text) = "ok" <=> FinalGrammar(text)

(* A prepared password is the canonical composition of the mapped one; the *)
(* scratch room counted in the first pass holds every disordered segment   *)
(* of the second (password.rs).                                            *)
PasswordExact(text) ==
    /\ Prepared(text) = SaslPrep(text)
    /\ LET chars == Decompose(Mapped(text)) IN
       \A i \in SegmentStarts(chars) :
           LET segment == SubSeq(chars, i, SegmentEnd(chars, i)) IN
           Ordered(segment) \/ Len(segment) <= Count(chars).scratch

(* A diagnostic is kept exactly when it is well formed, and the unchecked  *)
(* second reading finds every field the checked one found and nothing      *)
(* that was never written (server.rs).                                     *)
DiagnosticExact(payload) ==
    LET kept == TryParse(payload) IN
    /\ kept # Refused <=> DiagnosticGrammar(payload)
    /\ kept # Refused =>
         \A f \in DOMAIN FromValid(payload) : FromValid(payload)[f] = kept[f]
=============================================================================
