---------------------------- MODULE MCAlgorithms ----------------------------
(* The pure algorithms against their reference definitions: the resumable  *)
(* RESP scan, the texts of a PostgreSQL startup, the statements of the     *)
(* query macro, the values and the frames of the PostgreSQL protocol.      *)
(* A behaviour is about one of them and grows its input piece by piece.    *)
EXTENDS RespParser

Text == INSTANCE MCText
Queries == INSTANCE MCQueries
Values == INSTANCE MCValues
Frames == INSTANCE MCFrames

VARIABLES
    part,      \* the algorithm
    topic,     \* which of its operations
    subject,   \* what the input is read or written for
    input      \* pieces so far

algorithmVars == <<part, topic, subject, input>>

Line(bytes) == bytes \o <<CR, LF>>

MCPieces ==
    {Line(<<"*", "0">>), Line(<<"*", "1">>), Line(<<"*", "2">>),
     Line(<<"*", "-", "1">>), Line(<<"$", "0">>), Line(<<"$", "1">>),
     Line(<<"$", "-", "1">>), Line(<<":", "-", "1", "2">>), Line(<<":", "1", "2">>),
     Line(<<"+", "1">>), Line(<<"1">>), <<"-">>, <<":">>, <<CR>>, <<LF>>}

AlgorithmsInit ==
    /\ Init
    /\ input = <<>>
    /\ \/ part = "resp" /\ topic = "scan" /\ subject = <<>>
       \/ part = "text" /\ topic \in Text!Topics /\ subject = <<>>
       \/ part = "query" /\ topic \in Queries!Topics /\ subject = <<>>
       \/ part = "values" /\ topic \in Values!Topics /\ subject \in Values!Subjects[topic]
       \/ part = "frames" /\ topic \in Frames!Topics /\ subject = <<>>

Scan == part = "resp" /\ Next /\ UNCHANGED algorithmVars

Grow(longer) ==
    /\ input' \in longer
    /\ UNCHANGED <<part, topic, subject, vars>>

GrowText == part = "text" /\ Grow(Text!Longer(topic, input))
GrowQuery == part = "query" /\ Grow(Queries!Longer(topic, input))
GrowValues == part = "values" /\ Grow(Values!Longer(topic, subject, input))
GrowFrames == part = "frames" /\ Grow(Frames!Longer(topic, input))

AlgorithmsNext == Scan \/ GrowText \/ GrowQuery \/ GrowValues \/ GrowFrames

AlgorithmsSpec == AlgorithmsInit /\ [][AlgorithmsNext]_<<vars, algorithmVars>>

-----------------------------------------------------------------------------
(* Properties. *)

(* However a reply is cut into reads and wherever the parser had to wait,  *)
(* it scans as the grammar says of the whole buffer, and reports a         *)
(* truncated frame where the grammar runs out of bytes.                    *)
ScanExact == part = "resp" => MatchesGrammar /\ TruncationExact

(* SCRAM attribute lists, normalised passwords and server diagnostics are  *)
(* read as their definitions say: every attribute once and in its place,   *)
(* quoting and joining undone, a field given twice refused.                *)
TextsExact == part = "text" => Text!Exact(topic, input)

(* The SQL the query macro generates refers to the columns and parameters  *)
(* the chain of calls names, through nesting, joins, CTEs and set          *)
(* operations, and groups set operations as they were written.             *)
QueriesExact == part = "query" => Queries!Exact(topic, input)

(* What is exchanged with a PostgreSQL server is what the protocol says: a *)
(* DataRow is accepted exactly when it encodes the columns, and the        *)
(* unchecked second reading finds what the checked one found; descriptions *)
(* are accepted when types and formats are those the decoders read, and    *)
(* Bind writes each parameter in its declared format; prepared catalogs,   *)
(* requests, startup messages and the receiving codec produce and accept   *)
(* exactly the frames of the protocol.                                     *)
RowsExact == part = "values" /\ topic = "row" => Values!RowsRead(subject, input)
ParametersExact == part = "values" => Values!ParametersAgree(topic, subject, input)
MessagesExact == part = "frames" => Frames!Exact(topic, input)
ExchangeExact == RowsExact /\ ParametersExact /\ MessagesExact
=============================================================================
