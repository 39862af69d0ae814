------------------------------- MODULE MCText -------------------------------
(* Texts for PgText: SCRAM attribute lists, passwords and diagnostic       *)
(* payloads, grown one piece at a time.  A list stops growing where a      *)
(* reader has stopped reading.                                             *)
EXTENDS PgText

Topics == {"scram", "password", "diagnostic"}
Bound == [scram |-> 5, password |-> 4, diagnostic |-> 5]

Attribute(name, value) == [name |-> name, value |-> value]
AttributePieces ==
    [name : {"r", "s", "i", "m", "v", "e", "x", "y"}, value : {"ok"}]
        \cup {Attribute("x", "bad"), Attribute("r", "bad"), Attribute("i", "bad"),
              Attribute("e", "bad"), Attribute("x", "empty"), Attribute("x", "noeq"),
              Attribute("1", "ok"), Comma}

PiecesOf ==
    [scram |-> AttributePieces, password |-> PasswordChars, diagnostic |-> DiagnosticPieces]

Open(topic, text) ==
    \A i \in DOMAIN text :
        CASE topic = "scram" -> /\ text[i].name \notin {"comma", "1"}
                                /\ text[i].value \in {"ok", "bad"}
          [] topic = "diagnostic" ->
                 /\ text[i].value \notin {"0", "x", "4260", "4260a", "4294967296"}
                 /\ i = Len(text) => text[i].kind \notin {"cut", "utf"}
          [] OTHER -> TRUE

Longer(topic, text) ==
    {Append(text, piece) : piece \in
        IF Len(text) < Bound[topic] /\ Open(topic, text) THEN PiecesOf[topic] ELSE {}}

(* What the session reads from a server's attributes and diagnostics, and  *)
(* what it derives its password from, is what each text says as a whole.   *)
Exact(topic, text) ==
    CASE topic = "scram" -> ScramExact(text)
      [] topic = "password" -> PasswordExact(text)
      [] topic = "diagnostic" -> DiagnosticExact(text)
=============================================================================
