------------------------------ MODULE PgStartup ------------------------------
(***************************************************************************)
(* The life of one PostgreSQL connection up to its first query:            *)
(* protocol/logic/turn.rs (startup, SASL, eager preparation), state.rs,    *)
(* payloads.rs, failure.rs, scram/mod.rs, the backend key of               *)
(* port/pool/backend and the client's failure of runtime/states.rs.        *)
(*                                                                         *)
(* The server is arbitrary: in every state it may send any message, well   *)
(* formed or not, so the order of authentication, key, preparation and     *)
(* readiness is the client's own doing.  PgKdf refines the derivation, of  *)
(* which this module keeps the moment it yields the keys, and PgPool takes *)
(* a connection over once it is Ready.                                     *)
(***************************************************************************)
EXTENDS Naturals, Sequences

CONSTANTS
    Queries,        \* eagerly prepared statements in order: "Rows" or "None"
    DynamicLtree,   \* whether the query set needs the oid of ltree first
    MaxLives        \* bound: connections the slot goes through

ASSUME StartupAssumption ==
    /\ Queries \in Seq({"Rows", "None"})
    /\ DynamicLtree \in BOOLEAN
    /\ MaxLives \in Nat

VARIABLES
    phase,      \* state::Phase
    scram,      \* scram::State of a connection in phase Sasl, or "None"
    prep,       \* state::Prepare: stage and the query at the cursor
    slot,       \* slot::Phase of the pool: Vacant, Handshaking, Ready, Closing
    fate,       \* disposition a slot closed with, or "None"
    key,        \* life whose backend key the slot holds, or 0
    cause,      \* Signals::cause: None, Open, Driver or Server
    token,      \* life a CancelToken was made in, or 0
    intent,     \* life whose key the last cancel request carried, or 0
    life,       \* number of the connection in the slot
    proof       \* history of this life: what the server has shown so far

startVars == <<phase, scram, prep, slot, fate, key, cause, token, intent, life, proof>>

NoPrep == [stage |-> "None", at |-> 0]
Nothing == [sasl |-> FALSE, signed |-> FALSE, accepted |-> FALSE, described |-> <<>>, ltree |-> FALSE]

StartInit ==
    /\ phase = "NeedsStartup" /\ scram = "None" /\ prep = NoPrep
    /\ slot = "Vacant" /\ fate = "None" /\ key = 0 /\ cause = "None"
    /\ token = 0 /\ intent = 0 /\ life = 0 /\ proof = Nothing

Startup == {"StartupSent", "Sasl", "AwaitingReady", "Preparing"}

-----------------------------------------------------------------------------
(* What the server may send, by what the decoders tell apart.              *)
AuthMessages == {
    "AuthOk", "AuthMalformed",      \* AuthRequest::decode refuses the second
    "AuthSha256", "AuthPlus", "AuthNoMechanism",
    "AuthFirst", "AuthFirstRefused",
    "AuthFinal", "AuthFinalWrong", "AuthNoResources", "AuthOther"}

Messages == AuthMessages \cup {
    "ParameterStatus", "ParameterMalformed", "BackendKey", "BackendKeyMalformed",
    "ReadyIdle", "ReadyTransaction", "ReadyMalformed",
    "ParseComplete", "ParseCompletePayload", "ParameterDescription", "ParameterWrong",
    "RowDescription", "RowWrong", "NoData", "Notice", "NoticeMalformed",
    "ErrorPermanent", "ErrorTransient", "ErrorMalformed", "Unknown"}

(* Signals::record_cause: only a failure to open is replaced.              *)
(* Mutant: the last failure is kept.                                       *)
RecordCauseLast(c) == c
RecordCause(c) == IF cause \in {"None", "Open"} THEN c ELSE cause

(* Turn::finish_failure: a permanent error ends the slot for good if it    *)
(* comes while the connection starts, otherwise the slot reconnects.       *)
(* Mutant: an error in any phase ends it.                                  *)
DispositionAlways(class) == IF class = "Permanent" THEN "Permanent" ELSE "Reconnect"
Disposition(class) ==
    IF class = "Permanent" /\ phase \in Startup THEN "Permanent" ELSE "Reconnect"

(* Slot::try_close: the key is dropped; a slot that closes already keeps   *)
(* its disposition unless the new one is permanent.                        *)
(* Mutant: the key stays until the next connection.                        *)
ClosedKeyKept == key
ClosedKey == 0

CloseSlot(d) ==
    /\ slot' = IF slot = "Vacant" THEN slot ELSE "Closing"
    /\ key' = IF slot = "Vacant" THEN key ELSE ClosedKey
    /\ fate' = CASE slot = "Vacant" -> fate
                 [] slot = "Closing" /\ d = "Reconnect" -> fate
                 [] OTHER -> d

FailAs(class, c) ==
    /\ phase' = "Failed" /\ scram' = "None" /\ prep' = NoPrep
    /\ CloseSlot(Disposition(class))
    /\ cause' = IF Disposition(class) = "Permanent" THEN RecordCause(c) ELSE cause
    /\ UNCHANGED <<token, intent, life, proof>>

(* Turn::fail of an error the client raised itself, by its class.          *)
Fail(class) == FailAs(class, "Driver")

Goes(p, s, q) ==
    /\ phase' = p /\ scram' = s /\ prep' = q
    /\ UNCHANGED <<slot, fate, key, cause, token, intent, life>>

-----------------------------------------------------------------------------
(* Connected: state::State::default, then the startup packet.  The egress  *)
(* queue may refuse it.                                                    *)
Connect ==
    /\ slot = "Vacant" /\ fate # "Permanent" /\ life < MaxLives
    /\ life' = life + 1 /\ proof' = Nothing
    /\ slot' = "Handshaking" /\ fate' = "None"
    /\ phase' = "StartupSent" /\ scram' = "None" /\ prep' = NoPrep
    /\ UNCHANGED <<key, cause, token, intent>>

(* Shared::fail records the one permanent failure of a slot's transport.   *)
IdentityExhausted ==
    /\ slot \in {"Handshaking", "Ready"}
    /\ CloseSlot("Permanent")
    /\ cause' = RecordCause("Driver")
    /\ UNCHANGED <<phase, scram, prep, token, intent, life, proof>>

(* policy::Failed and policy::Exhausted: the attempt never connects.       *)
OpenFails ==
    /\ slot = "Vacant" /\ fate # "Permanent" /\ life < MaxLives
    /\ cause' = RecordCause("Open")
    /\ UNCHANGED <<phase, scram, prep, slot, fate, key, token, intent, life, proof>>

(* Mechanisms::offer and pick: the plain mechanism, not channel binding.   *)
Picks(m) == m = "AuthSha256"

(* Turn::startup of an authentication request: expected once.              *)
MayAuthenticate == phase = "StartupSent"

StartupAuth(m) ==
    CASE ~MayAuthenticate -> Fail("Permanent") /\ UNCHANGED proof
      [] MayAuthenticate /\ m = "AuthOk" ->
            /\ Goes("AwaitingReady", "None", NoPrep)
            /\ proof' = [proof EXCEPT !.accepted = TRUE]
      [] MayAuthenticate /\ Picks(m) ->
            /\ Goes("Sasl", "AwaitServerFirst", NoPrep)
            /\ proof' = [proof EXCEPT !.sasl = TRUE]
      [] OTHER -> Fail("Permanent") /\ UNCHANGED proof

(* Backend::try_install: once per connection, while it shakes hands.       *)
InstallKey ==
    IF phase # "AwaitingReady" \/ slot # "Handshaking" \/ key # 0 THEN Fail("Permanent")
    ELSE /\ key' = life
         /\ UNCHANGED <<phase, scram, prep, slot, fate, cause, token, intent, life>>

(* Prepare::new, resume and register: where preparation goes next.         *)
Resume(q) == IF q <= Len(Queries) THEN [stage |-> "Parse", at |-> q]
             ELSE [stage |-> "Complete", at |-> q]
FirstStep == IF DynamicLtree THEN [stage |-> "LtreeParse", at |-> 1] ELSE Resume(1)

StartupMessage(m) ==
    CASE m \in AuthMessages -> StartupAuth(m)
      [] m = "ParameterStatus" ->
            /\ IF phase = "AwaitingReady" THEN Goes(phase, scram, prep) ELSE Fail("Permanent")
            /\ UNCHANGED proof
      [] m = "BackendKey" -> InstallKey /\ UNCHANGED proof
      [] m = "ReadyIdle" /\ phase = "AwaitingReady" ->
            Goes("Preparing", "None", FirstStep) /\ UNCHANGED proof
      [] OTHER -> Fail("Permanent") /\ UNCHANGED proof

(* Turn::handle_sasl with Scram::begin, verify_final and finish.  A server *)
(* that reports no resources is a transient failure.                       *)
(* Mutant: Ok is accepted without the server's signature.                  *)
FinishesAnyway == TRUE
Finishes == scram = "Complete"

SaslMessage(m) ==
    CASE m = "AuthFirst" /\ scram = "AwaitServerFirst" ->
            Goes("Sasl", "Deriving", prep) /\ UNCHANGED proof
      [] m = "AuthFinal" /\ scram = "AwaitServerFinal" ->
            /\ Goes("Sasl", "Complete", prep)
            /\ proof' = [proof EXCEPT !.signed = TRUE]
      [] m = "AuthNoResources" /\ scram = "AwaitServerFinal" ->
            Fail("Transient") /\ UNCHANGED proof
      [] m = "AuthOk" /\ Finishes ->
            /\ Goes("AwaitingReady", "None", NoPrep)
            /\ proof' = [proof EXCEPT !.accepted = TRUE]
      [] OTHER -> Fail("Permanent") /\ UNCHANGED proof

(* Turn::drive_scram once the shared derivation yields the keys.           *)
Derived ==
    /\ phase = "Sasl" /\ scram = "Deriving"
    /\ Goes("Sasl", "AwaitServerFinal", prep)
    /\ UNCHANGED proof

(* Turn::prepare: Parse, ParameterDescription and a result description for *)
(* every statement in turn, then ReadyForQuery.                            *)
(* Mutant: NoData is taken for a statement that returns rows.              *)
NoDataExpectedAlways == TRUE
NoDataExpected == Queries[prep.at] # "Rows"

Described(kind) == [proof EXCEPT !.described = Append(@, kind)]

PrepareMessage(m) ==
    LET at == prep.at IN
    CASE m = "ParameterStatus" -> Goes(phase, scram, prep) /\ UNCHANGED proof
      [] m = "ParseComplete" /\ prep.stage \in {"LtreeParse", "Parse"} ->
            /\ Goes(phase, scram, [stage |-> IF prep.stage = "Parse" THEN "Parameters"
                                             ELSE "LtreeParameters", at |-> at])
            /\ UNCHANGED proof
      [] m = "ParameterDescription" /\ prep.stage \in {"LtreeParameters", "Parameters"} ->
            /\ Goes(phase, scram, [stage |-> IF prep.stage = "Parameters" THEN "Result"
                                             ELSE "LtreeResult", at |-> at])
            /\ UNCHANGED proof
      [] m = "RowDescription" /\ prep.stage = "LtreeResult" ->
            /\ Goes(phase, scram, Resume(at))
            /\ proof' = [proof EXCEPT !.ltree = TRUE]
      [] m = "RowDescription" /\ prep.stage = "Result" ->
            \* Cursor::validate refuses rows of a statement without any
            IF Queries[at] # "Rows" THEN Fail("Permanent") /\ UNCHANGED proof
            ELSE Goes(phase, scram, Resume(at + 1)) /\ proof' = Described("Rows")
      [] m = "NoData" /\ prep.stage = "Result" /\ NoDataExpected ->
            /\ Goes(phase, scram, Resume(at + 1))
            /\ proof' = Described("None")
      [] m = "ReadyIdle" /\ prep.stage = "Complete" ->
            IF slot # "Handshaking" THEN Fail("Permanent") /\ UNCHANGED proof
            ELSE /\ phase' = "Ready" /\ slot' = "Ready"
                 /\ cause' = IF cause = "Open" THEN "None" ELSE cause     \* clear_open
                 /\ prep' = NoPrep
                 /\ UNCHANGED <<scram, fate, key, token, intent, life, proof>>
      [] OTHER -> Fail("Permanent") /\ UNCHANGED proof

(* Turn::response.  A server error ends a connection that starts, by the   *)
(* class of its SQLSTATE; a malformed one is the client's own error.       *)
Response(m) ==
    /\ phase \in Startup
    /\ CASE m \in {"ErrorPermanent", "ErrorTransient"} ->
              /\ FailAs(IF m = "ErrorPermanent" THEN "Permanent" ELSE "Transient", "Server")
         [] m \in {"ErrorMalformed", "NoticeMalformed"} -> Fail("Permanent")
         [] m = "Notice" -> UNCHANGED startVars
         [] OTHER ->
              CASE phase \in {"StartupSent", "AwaitingReady"} -> StartupMessage(m)
                [] phase = "Sasl" -> SaslMessage(m)
                [] phase = "Preparing" -> PrepareMessage(m)

(* The link fails or times out: Lifecycle::io_fail, transmit_failed and    *)
(* quarantine close the slot to reconnect; the state of the session stays. *)
LinkFails ==
    /\ slot \in {"Handshaking", "Ready"}
    /\ CloseSlot("Reconnect")
    /\ UNCHANGED <<phase, scram, prep, cause, token, intent, life, proof>>

(* An error of a connection that serves, PgPool's.                         *)
ReadyFails(class) == phase = "Ready" /\ slot = "Ready" /\ Fail(class)

(* Lifecycle::disconnect and Control::deactivate.                          *)
Disconnect ==
    /\ slot = "Closing"
    /\ slot' = "Vacant"
    /\ phase' = "NeedsStartup" /\ scram' = "None" /\ prep' = NoPrep
    /\ UNCHANGED <<fate, key, cause, token, intent, life, proof>>

-----------------------------------------------------------------------------
(* Guard::cancel_token: a token of the connection that serves now.         *)
TakeToken ==
    /\ slot = "Ready" /\ key # 0 /\ token = 0
    /\ token' = life
    /\ UNCHANGED <<phase, scram, prep, slot, fate, key, cause, intent, life, proof>>

(* Bound::try_current and Lifecycle::cancel: the key of that very          *)
(* connection, if it still serves.  Mutant: of any that does.              *)
SameEpochAny == TRUE
SameEpoch == token = life

CancelQuery ==
    /\ token # 0 /\ slot = "Ready" /\ SameEpoch
    /\ intent' = key
    /\ UNCHANGED <<phase, scram, prep, slot, fate, key, cause, token, life, proof>>

StartNext ==
    \/ Connect \/ IdentityExhausted \/ OpenFails \/ Derived \/ LinkFails \/ Disconnect \/ TakeToken \/ CancelQuery
    \/ \E m \in Messages : Response(m)
    \/ \E class \in {"Permanent", "Transient"} : ReadyFails(class)

StartSpec == StartInit /\ [][StartNext]_startVars

-----------------------------------------------------------------------------
(* Whatever the server sends, a connection serves queries only after the   *)
(* server accepted it, after its signature was verified if it had asked    *)
(* for SASL, and after every statement was described as it was compiled:   *)
(* a statement that returns rows by a row description.                     *)
ServesProved ==
    phase = "Ready" =>
        /\ proof.accepted
        /\ proof.sasl => proof.signed
        /\ proof.described = Queries
        /\ DynamicLtree => proof.ltree

(* A cancel request carries the key of the connection its token was made   *)
(* for: never a later one's in the same slot, whose query it would stop,   *)
(* and never the empty key.                                                *)
CancelsOwn == intent # 0 => intent = token

(* Whatever the server sends, a connection serves only what it has been    *)
(* shown, and a cancel request carries the key of its own connection.      *)
StartupSound == ServesProved /\ CancelsOwn

(* A failure the client must report stays: only a failure to open is       *)
(* forgotten or replaced; and a slot is given up for good only with such a *)
(* failure recorded, which a connection that serves never causes itself.   *)
CauseKept ==
    [][/\ cause \in {"Driver", "Server"} => cause' = cause
       /\ fate' = "Permanent" => cause' \in {"Driver", "Server"}
       /\ phase = "Ready" /\ phase' = "Failed" => fate' # "Permanent" \/ fate = "Permanent"]_startVars
=============================================================================
