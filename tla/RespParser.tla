----------------------------- MODULE RespParser -----------------------------
(***************************************************************************)
(* The resumable RESP parser: redis/src/protocol/parser/state.rs with its  *)
(* limits (limit.rs) and numbers (number.rs).                              *)
(*                                                                         *)
(* Bytes arrive in pieces of any size.  A scan runs over the whole buffer  *)
(* and remembers where it stopped: a mode, the position from which a line  *)
(* end is still to be looked for, the open arrays with the elements each   *)
(* still misses, and the values built.  It stops where bytes are missing,  *)
(* or where a value needs storage and the port has no lane to spare.       *)
(*                                                                         *)
(* Positions count from 0, as in the code.  Grammar is the reference: a    *)
(* recursive reading of the whole buffer, without memory.                  *)
(***************************************************************************)
EXTENDS Integers, Sequences, FiniteSets, SequencesExt

CONSTANTS
    Pieces,     \* byte strings the server's stream is made of
    MaxFrame,   \* limit::Bound<Frame>: bytes of one frame
    MaxValues,  \* limit::Bound<Value>: values of one frame
    MaxDepth,   \* MAX_DEPTH: arrays open at once
    IntMax,     \* largest signed integer; the least is -IntMax - 1
    WordMax,    \* largest length
    MaxPieces   \* bound: pieces sent in a behaviour

ASSUME ParserAssumption ==
    /\ {MaxFrame, MaxValues, MaxDepth, IntMax, WordMax} \subseteq Nat \ {0}

VARIABLES
    buf,        \* bytes received and not consumed
    parser,     \* the resumable state and what the builder holds
    out,        \* how the last scan ended
    wire,       \* what is left of the piece that is arriving
    sent        \* pieces sent

vars == <<buf, parser, out, wire, sent>>

CR == "CR"
LF == "LF"
LineOf == [b \in {"+", "-", ":", "$", "*"} |->
              CASE b = "+" -> "Status" [] b = "-" -> "Server"
                [] b = ":" -> "Integer" [] b = "$" -> "Bulk" [] b = "*" -> "Array"]
Texts == {"Status", "Server"}
Digit == [b \in {"0", "1", "2"} |->
             CASE b = "0" -> 0 [] b = "1" -> 1 [] b = "2" -> 2]

At(b, i) == b[i + 1]
Least(S) == CHOOSE i \in S : \A j \in S : i <= j
Most(S) == CHOOSE i \in S : \A j \in S : i >= j

-----------------------------------------------------------------------------
(* Lines. *)

None == [found |-> "none", at |-> 0]
Found(at) == [found |-> "line", at |-> at]
Bad(at) == [found |-> "bad", at |-> at]

(* Line::find for a text: the first CR or LF decides. *)
TextEnd(b, from) ==
    LET ends == {i \in from .. Len(b) - 1 : At(b, i) \in {CR, LF}}
        i == Least(ends)
    IN  CASE ends = {} -> None
          [] At(b, i) = LF -> Bad(i)
          [] i + 1 = Len(b) -> None
          [] At(b, i + 1) # LF -> Bad(i + 1)
          [] OTHER -> Found(i)

(* Line::find for a number: the first CR LF. *)
NumberEnd(b, from) ==
    LET ends == {i \in from .. Len(b) - 2 : At(b, i) = CR /\ At(b, i + 1) = LF}
    IN  IF ends = {} THEN None ELSE Found(Least(ends))

LineEnd(b, kind, from) ==
    IF kind \in Texts THEN TextEnd(b, from) ELSE NumberEnd(b, from)

-----------------------------------------------------------------------------
(* Numbers.  A result is a value or an error. *)

Value(n) == [ok |-> TRUE, value |-> n]
Error(what) == [ok |-> FALSE, what |-> what]

(* One digit of Number::signed or Number::unsigned, with checked steps. *)
Digits(line, sign, lo, hi) ==
    LET step(acc, b) ==
          CASE ~acc.ok -> acc
            [] b \notin DOMAIN Digit -> Error("Byte")
            [] acc.value * 10 \notin lo .. hi -> Error("Overflow")
            [] acc.value * 10 + sign * Digit[b] \notin lo .. hi -> Error("Overflow")
            [] OTHER -> Value(acc.value * 10 + sign * Digit[b])
    IN  FoldLeft(step, Value(0), line)

Signed(line) ==
    LET signs == line # <<>> /\ line[1] \in {"-", "+"}
        sign == IF signs /\ line[1] = "-" THEN -1 ELSE 1
    IN  CASE line = <<>> -> Error("Empty")
          [] signs /\ Len(line) = 1 -> Error("Missing")
          [] OTHER -> Digits(IF signs THEN Tail(line) ELSE line, sign,
                             -IntMax - 1, IntMax)

Unsigned(line) ==
    IF line = <<>> THEN Error("Empty") ELSE Digits(line, 1, 0, WordMax)

(* Number::length: -1 is Nil, and stands for itself here. *)
Length(line) ==
    IF line = <<>> \/ line[1] # "-" THEN Unsigned(line)
    ELSE IF Signed(line).ok /\ Signed(line).value < -1 THEN Error("Length")
    ELSE Signed(line)

-----------------------------------------------------------------------------
(* One scan. *)

New == [mode |-> "Start", start |-> 0, kind |-> "Status", stop |-> 0,
        scan |-> 0, left |-> <<>>, built |-> <<>>]

Idle == [tag |-> "none"]
Go(s) == [s |-> s, out |-> [tag |-> "go"]]
Pending(s) == [s |-> s, out |-> [tag |-> "pending"]]
Blocked(s) == [s |-> s, out |-> [tag |-> "blocked"]]
Complete(s, end) ==
    [s |-> New, out |-> [tag |-> "complete", end |-> end, built |-> s.built]]
(* A refusal; the codec resets the parser. *)
Refused(tag, what, end) ==
    [s |-> New, out |-> [tag |-> tag, what |-> what, end |-> end]]
Invalid(what, end) == Refused("invalid", what, end)
FrameCapacity(end) == Refused("frame", "Exceeded", end)
ValueCapacity(end) == Refused("values", "Exceeded", end)

(* Where the search for a line end resumes: a CR may be the last byte. *)
\* Mutant: it resumes behind the last byte.
ResumeBehind(b, start) == Len(b)

Resume(b, start) == IF Len(b) - 1 > start THEN Len(b) - 1 ELSE start

(* State::finish_value: close the arrays it was the last element of. *)
FinishValue(s, end) ==
    LET open == {i \in DOMAIN s.left : s.left[i] > 1}
        top == Most(open)
    IN  IF open = {} THEN Complete(s, end)
        ELSE Go([s EXCEPT !.left = [SubSeq(s.left, 1, top) EXCEPT ![top] = @ - 1],
                          !.mode = "Marker", !.start = end])

(* Builder::try_push: a parser without a lane is blocked where it is. *)
Lane(s, lane) == lane \/ s.built # <<>>
Built(s, v) == [s EXCEPT !.built = Append(s.built, v)]
Store(s, v, end, lane) ==
    IF Lane(s, lane) THEN FinishValue(Built(s, v), end) ELSE Blocked(s)

AtMarker(s, b) ==
    LET at == s.start
    IN  CASE at = Len(b) -> Pending(s)
          [] at >= MaxFrame -> FrameCapacity(MaxFrame)
          [] Len(s.built) >= MaxValues -> ValueCapacity(at + 1)
          [] At(b, at) \notin DOMAIN LineOf -> Invalid("Marker", at + 1)
          [] OTHER -> Go([s EXCEPT !.mode = "Line", !.kind = LineOf[At(b, at)],
                                   !.start = at + 1, !.scan = at + 1])

(* A bulk whose length is known. *)
AtLength(s, n, end, lane) ==
    CASE n = -1 -> Store(s, [kind |-> "Nil"], end, lane)
      [] n + end + 2 > MaxFrame -> FrameCapacity(end)
      [] OTHER -> Go([s EXCEPT !.mode = "Bulk", !.start = end, !.stop = end + n])

(* An array whose length is known. *)
AtCount(s, n, end, lane) ==
    LET array == [kind |-> "Array", len |-> n]
    IN  CASE n = -1 -> Store(s, [kind |-> "Nil"], end, lane)
          [] n + Len(s.built) >= MaxValues -> ValueCapacity(end)
          [] n > 0 /\ Len(s.left) = MaxDepth -> Invalid("Depth", end)
          [] n = 0 \/ ~Lane(s, lane) -> Store(s, array, end, lane)
          [] OTHER -> Go([Built(s, array) EXCEPT !.left = Append(s.left, n),
                                                 !.mode = "Marker", !.start = end])

AtLine(s, b, lane) ==
    LET found == LineEnd(b, s.kind, IF s.scan > s.start THEN s.scan ELSE s.start)
        at == found.at
        end == at + 2
        line == SubSeq(b, s.start + 1, at)
        n == IF s.kind = "Integer" THEN Signed(line) ELSE Length(line)
    IN  CASE found.found = "none" ->
               IF Len(b) > MaxFrame THEN FrameCapacity(MaxFrame)
               ELSE Pending([s EXCEPT !.scan = Resume(b, s.start)])
          [] found.found = "bad" ->
               IF at >= MaxFrame THEN FrameCapacity(MaxFrame)
               ELSE Invalid("Terminator", at + 1)
          [] end > MaxFrame -> FrameCapacity(MaxFrame)
          [] s.kind \in Texts -> Store(s, [kind |-> s.kind, text |-> line], end, lane)
          [] ~n.ok -> Invalid(n.what, end)
          [] s.kind = "Integer" -> Store(s, [kind |-> "Integer", value |-> n.value], end, lane)
          [] s.kind = "Bulk" -> AtLength(s, n.value, end, lane)
          [] OTHER -> AtCount(s, n.value, end, lane)

AtBulk(s, b, lane) ==
    LET end == s.stop + 2
    IN  CASE end > Len(b) -> Pending(s)
          [] At(b, s.stop) # CR \/ At(b, s.stop + 1) # LF -> Invalid("Terminator", end)
          [] OTHER -> Store(s, [kind |-> "Bulk", text |-> SubSeq(b, s.start + 1, s.stop)],
                            end, lane)

(* State::scan. *)
RECURSIVE Run(_, _, _)
Run(s, b, lane) ==
    LET r == CASE s.mode = "Line" -> AtLine(s, b, lane)
               [] s.mode = "Bulk" -> AtBulk(s, b, lane)
               [] OTHER -> AtMarker(s, b)
    IN  IF r.out.tag = "go" THEN Run(r.s, b, lane) ELSE r

(* State::finish: what end of input would report. *)
\* Mutant: the depth counts the enclosing arrays only.
TruncatedParents(s) ==
    CASE s.mode = "Marker" -> [where |-> "Value", at |-> s.start,
                               depth |-> Len(s.left) - 1, remaining |-> Last(s.left)]
      [] s.mode = "Line" -> [where |-> "Line", kind |-> s.kind, at |-> s.start]
      [] s.mode = "Bulk" -> [where |-> "Bulk", required |-> s.stop + 2]
      [] OTHER -> [where |-> "Unparsed"]

Truncated(s) ==
    CASE s.mode = "Marker" -> [where |-> "Value", at |-> s.start,
                               depth |-> Len(s.left), remaining |-> Last(s.left)]
      [] s.mode = "Line" -> [where |-> "Line", kind |-> s.kind, at |-> s.start]
      [] s.mode = "Bulk" -> [where |-> "Bulk", required |-> s.stop + 2]
      [] OTHER -> [where |-> "Unparsed"]

-----------------------------------------------------------------------------
(* The reference: the value that starts at position at, where used values  *)
(* were read before it and depth arrays are open around it, the innermost  *)
(* with more elements to come, this one included.                          *)

Read(end, built) == [tag |-> "complete", end |-> end, built |-> built]
Ends(tag, what, end) == [tag |-> tag, what |-> what, end |-> end]
Misses(where) == [tag |-> "pending", where |-> where]

RECURSIVE GrammarValue(_, _, _, _, _), GrammarItems(_, _, _, _, _)
GrammarValue(b, at, used, depth, more) ==
    LET kind == LineOf[At(b, at)]
        found == LineEnd(b, kind, at + 1)
        end == found.at + 2
        line == SubSeq(b, at + 2, found.at)
        n == IF kind = "Integer" THEN Signed(line) ELSE Length(line)
        body == SubSeq(b, end + 1, end + n.value)
    IN  CASE at = Len(b) ->
               Misses(IF depth = 0 THEN [where |-> "Unparsed"]
                      ELSE [where |-> "Value", at |-> at, depth |-> depth,
                            remaining |-> more])
          [] at >= MaxFrame -> Ends("frame", "Exceeded", MaxFrame)
          [] used = MaxValues -> Ends("values", "Exceeded", at + 1)
          [] At(b, at) \notin DOMAIN LineOf -> Ends("invalid", "Marker", at + 1)
          [] found.found = "none" /\ Len(b) <= MaxFrame ->
               Misses([where |-> "Line", kind |-> kind, at |-> at + 1])
          [] found.found = "bad" /\ found.at < MaxFrame ->
               Ends("invalid", "Terminator", found.at + 1)
          [] found.found # "line" \/ end > MaxFrame -> Ends("frame", "Exceeded", MaxFrame)
          [] kind \in Texts -> Read(end, <<[kind |-> kind, text |-> line]>>)
          [] ~n.ok -> Ends("invalid", n.what, end)
          [] kind = "Integer" -> Read(end, <<[kind |-> "Integer", value |-> n.value]>>)
          [] n.value = -1 -> Read(end, <<[kind |-> "Nil"]>>)
          [] kind = "Array" /\ used + n.value >= MaxValues ->
               Ends("values", "Exceeded", end)
          [] kind = "Array" /\ n.value > 0 /\ depth = MaxDepth ->
               Ends("invalid", "Depth", end)
          [] kind = "Array" ->
               LET items == GrammarItems(b, end, n.value, used + 1, depth + 1)
               IN  IF items.tag # "complete" THEN items
                   ELSE Read(items.end, <<[kind |-> "Array", len |-> n.value]>> \o items.built)
          [] end + n.value + 2 > MaxFrame -> Ends("frame", "Exceeded", end)
          [] end + n.value + 2 > Len(b) ->
               Misses([where |-> "Bulk", required |-> end + n.value + 2])
          [] SubSeq(b, end + n.value + 1, end + n.value + 2) # <<CR, LF>> ->
               Ends("invalid", "Terminator", end + n.value + 2)
          [] OTHER -> Read(end + n.value + 2, <<[kind |-> "Bulk", text |-> body]>>)

GrammarItems(b, at, n, used, depth) ==
    IF n = 0 THEN Read(at, <<>>)
    ELSE LET first == GrammarValue(b, at, used, depth, n)
             rest == GrammarItems(b, first.end, n - 1, used + Len(first.built), depth)
         IN  IF first.tag # "complete" THEN first
             ELSE IF rest.tag # "complete" THEN rest
             ELSE Read(rest.end, first.built \o rest.built)

Grammar(b) == GrammarValue(b, 0, 0, 0, 0)

-----------------------------------------------------------------------------

Init ==
    /\ buf = <<>>
    /\ parser = New
    /\ out = Idle
    /\ wire = <<>>
    /\ sent = 0

Over == out.tag \in {"invalid", "frame", "values"}

(* A bound: the server sends no more than one byte behind a byte that      *)
(* settles the first frame of the buffer.                                  *)
Ahead == Len(buf) > 1 /\ Grammar(Front(buf)).tag # "pending"

(* One byte arrives.  A read of several is several of these, and a piece   *)
(* may be cut anywhere.                                                    *)
Receive(piece) ==
    /\ ~Over
    /\ ~Ahead
    /\ IF wire = <<>> THEN piece # <<>> /\ sent < MaxPieces ELSE piece = wire
    /\ sent' = IF wire = <<>> THEN sent + 1 ELSE sent
    /\ buf' = Append(buf, Head(piece))
    /\ wire' = Tail(piece)
    /\ out' = Idle
    /\ UNCHANGED parser

(* Codec::decode: scan, and consume the frame or the refused bytes. *)
Decode(lane) ==
    LET stale == parser.start > Len(buf) \/ parser.scan > Len(buf)
        r == Run(IF stale THEN New ELSE parser, buf, lane)
    IN  /\ ~Over
        /\ buf # <<>>
        /\ parser' = r.s
        /\ buf' = IF r.out.tag \in {"pending", "blocked"} THEN buf
                  ELSE SubSeq(buf, r.out.end + 1, Len(buf))
        /\ out' = [of |-> buf] @@ r.out
        /\ UNCHANGED <<wire, sent>>

Next ==
    \/ \E piece \in Pieces \union {wire} : Receive(piece)
    \/ \E lane \in BOOLEAN : Decode(lane)

Spec == Init /\ [][Next]_vars

-----------------------------------------------------------------------------
(* Properties. *)

Scanned == out.tag \notin {"none", "blocked"}

(* However the bytes of a reply are split over reads and wherever the      *)
(* parser had to wait for a lane, a scan ends as the grammar says of the   *)
(* whole buffer: with the same values and the same end, the same refusal,  *)
(* or for want of bytes.  Limits and errors do not depend on the split.    *)
MatchesGrammar ==
    Scanned => LET g == Grammar(out.of)
               IN  /\ out.tag = g.tag
                   /\ out.tag # "pending" => out = [of |-> out.of] @@ g

(* What end of input would report of an unfinished frame (the open arrays, *)
(* the elements the innermost one misses, the line or the bulk) is where   *)
(* the grammar runs out of bytes, although the parser only knows its       *)
(* resumable state.                                                        *)
TruncationExact ==
    out.tag = "pending" => Truncated(parser) = Grammar(out.of).where
=============================================================================
