--------------------------- MODULE PgSessionProofs ---------------------------
(***************************************************************************)
(* Proofs about the sessions of PostgreSQL connections.                    *)
(*                                                                         *)
(* Startup: for every list of eagerly prepared statements, any number of   *)
(* connections in the slot and a server that sends any message at any      *)
(* time.  Key derivation: for every set of connections and keys, any       *)
(* number of lanes, cache places, slices and cancellations.  Transactions: *)
(* for every set of fibers and connections, any room and number of events. *)
(***************************************************************************)
EXTENDS PgStartup, PgKdf, PgTx, FiniteSetTheorems, SequenceTheorems, WellFoundedInduction, TLAPS

-----------------------------------------------------------------------------
(* Types *)

Stages == {"None", "LtreeParse", "LtreeParameters", "LtreeResult",
           "Parse", "Parameters", "Result", "Complete"}
Proofs == [sasl : BOOLEAN, signed : BOOLEAN, accepted : BOOLEAN,
           described : Seq({"Rows", "None"}), ltree : BOOLEAN]

StartTypeOK ==
    /\ phase \in Startup \cup {"NeedsStartup", "Ready", "Failed"}
    /\ scram \in {"None", "AwaitServerFirst", "Deriving", "AwaitServerFinal", "Complete"}
    /\ prep \in [stage : Stages, at : Nat]
    /\ slot \in {"Vacant", "Handshaking", "Ready", "Closing"}
    /\ fate \in {"None", "Reconnect", "Permanent"}
    /\ cause \in {"None", "Open", "Driver", "Server"}
    /\ proof \in Proofs

-----------------------------------------------------------------------------
(* What the server has shown, by how far the connection is *)

(* Authentication: a connection that waits to be ready was accepted, and a *)
(* server that asked for SASL has signed by then.                          *)
Authenticated ==
    /\ phase = "StartupSent" => ~proof.sasl
    /\ phase = "Sasl" /\ scram = "Complete" => proof.signed
    /\ phase \in {"AwaitingReady", "Preparing", "Ready"} =>
          proof.accepted /\ (proof.sasl => proof.signed)

(* Preparation: what was described is what the cursor has left behind.     *)
LtreeStages == {"LtreeParse", "LtreeParameters", "LtreeResult"}
Prepared ==
    /\ phase \in {"StartupSent", "Sasl", "AwaitingReady"} => proof.described = <<>>
    /\ phase = "Preparing" =>
          /\ prep.at = Len(proof.described) + 1
          /\ prep.at <= Len(Queries) + 1
          /\ \A i \in 1 .. Len(proof.described) : proof.described[i] = Queries[i]
          /\ prep.stage # "None"
          /\ prep.stage \in {"Parse", "Parameters", "Result"} => prep.at <= Len(Queries)
          /\ prep.stage = "Complete" => prep.at = Len(Queries) + 1
          /\ DynamicLtree /\ prep.stage \notin LtreeStages => proof.ltree
    /\ phase = "Ready" => proof.described = Queries /\ (DynamicLtree => proof.ltree)

(* The key in a slot is that of its connection, and a slot that closes or  *)
(* is vacant has none.                                                     *)
KeyOwn ==
    /\ key # 0 => key = life
    /\ slot \in {"Vacant", "Closing"} => key = 0
    /\ CancelsOwn

(* A slot that was given up for good has a failure to report.              *)
FateCaused == fate = "Permanent" => cause \in {"Driver", "Server"}

StartInv == StartTypeOK /\ Authenticated /\ Prepared /\ KeyOwn /\ FateCaused

LEMMA ShownTypes ==
    ASSUME NEW p \in Proofs
    PROVE  /\ [p EXCEPT !.accepted = TRUE] \in Proofs
           /\ [p EXCEPT !.sasl = TRUE] \in Proofs
           /\ [p EXCEPT !.signed = TRUE] \in Proofs
           /\ [p EXCEPT !.ltree = TRUE] \in Proofs
           /\ \A d \in {"Rows", "None"} : [p EXCEPT !.described = Append(@, d)] \in Proofs
<1>1. /\ [p EXCEPT !.accepted = TRUE] \in Proofs
      /\ [p EXCEPT !.sasl = TRUE] \in Proofs
      /\ [p EXCEPT !.signed = TRUE] \in Proofs
      /\ [p EXCEPT !.ltree = TRUE] \in Proofs
  BY Zenon DEF Proofs
<1>2. \A d \in {"Rows", "None"} : [p EXCEPT !.described = Append(@, d)] \in Proofs
  BY SMT DEF Proofs
<1> QED
  BY <1>1, <1>2

LEMMA StartInitInv == StartInit => StartInv
BY DEF StartInit, StartInv, StartTypeOK, Authenticated, Prepared, KeyOwn, FateCaused,
       CancelsOwn, Startup, Stages, Proofs, NoPrep, Nothing

(* A step that fails, at any moment. *)
LEMMA FailKeeps ==
    ASSUME StartInv, NEW class \in {"Permanent", "Transient"},
           NEW c \in {"Driver", "Server"}, FailAs(class, c)
    PROVE  StartInv'
<1>1. /\ phase' = "Failed" /\ scram' = "None" /\ prep' = NoPrep
      /\ UNCHANGED <<token, intent, life, proof>>
  BY DEF FailAs
<1>2. Disposition(class) \in {"Permanent", "Reconnect"}
  BY DEF Disposition
<1>3. /\ slot' \in {"Vacant", "Closing"} /\ slot' = (IF slot = "Vacant" THEN slot ELSE "Closing")
      /\ key' = 0
  BY DEF StartInv, StartTypeOK, KeyOwn, FailAs, CloseSlot, ClosedKey
<1>4. fate' \in {fate, Disposition(class)}
  BY <1>2 DEF FailAs, CloseSlot, StartInv, StartTypeOK
<1>5. cause' = (IF Disposition(class) = "Permanent" THEN RecordCause(c) ELSE cause)
  BY DEF FailAs
<1>6. StartTypeOK'
  BY <1>1, <1>2, <1>3, <1>4, <1>5
  DEF StartInv, StartTypeOK, Startup, Stages, NoPrep, RecordCause
<1>7. Authenticated' /\ Prepared'
  BY <1>1 DEF Authenticated, Prepared
<1>8. KeyOwn'
  BY <1>1, <1>3 DEF StartInv, KeyOwn, CancelsOwn
<1>9. FateCaused'
  BY <1>2, <1>4, <1>5 DEF StartInv, StartTypeOK, FateCaused, RecordCause
<1> QED
  BY <1>6, <1>7, <1>8, <1>9 DEF StartInv

(* A step of the session alone, which Goes is, keeps the slot's part.      *)
LEMMA GoesKeeps ==
    ASSUME StartInv, NEW p, NEW s, NEW q, Goes(p, s, q),
           StartTypeOK', Authenticated', Prepared'
    PROVE  StartInv'
BY DEF Goes, StartInv, KeyOwn, CancelsOwn, FateCaused

LEMMA StartupMessageKeeps ==
    ASSUME StartInv, NEW m \in Messages, phase \in {"StartupSent", "AwaitingReady"},
           StartupMessage(m)
    PROVE  StartInv'
<1> USE StartupAssumption
<1>I. StartTypeOK /\ Authenticated /\ Prepared /\ KeyOwn /\ FateCaused
  BY DEF StartInv
<1>1. ASSUME Fail("Permanent") PROVE StartInv'
  BY <1>1, FailKeeps DEF Fail
<1>2. CASE m = "AuthOk" /\ MayAuthenticate
  <2>1. Goes("AwaitingReady", "None", NoPrep) /\ proof' = [proof EXCEPT !.accepted = TRUE]
    BY <1>2 DEF StartupMessage, StartupAuth, AuthMessages, Picks
  <2>2. phase = "StartupSent" /\ phase' = "AwaitingReady" /\ scram' = "None" /\ prep' = NoPrep
    BY <1>2, <2>1 DEF Goes, MayAuthenticate
  <2>3. StartTypeOK'
    <3>1. proof' \in Proofs
      BY <1>I, <2>1, ShownTypes DEF StartTypeOK
    <3> QED
      BY <1>I, <2>1, <2>2, <3>1 DEF StartTypeOK, Goes, Startup, Stages, NoPrep
  <2>4. /\ proof'.accepted /\ proof'.sasl = proof.sasl /\ proof'.signed = proof.signed
        /\ proof'.described = proof.described /\ proof'.ltree = proof.ltree
    BY <1>I, <2>1 DEF StartTypeOK, Proofs
  <2>5. Authenticated'
    BY <1>I, <2>2, <2>4 DEF Authenticated
  <2>6. Prepared'
    BY <1>I, <2>2, <2>4 DEF Prepared
  <2> QED
    BY <2>1, <2>3, <2>5, <2>6, GoesKeeps
<1>3. CASE Picks(m) /\ MayAuthenticate
  <2>1. Goes("Sasl", "AwaitServerFirst", NoPrep) /\ proof' = [proof EXCEPT !.sasl = TRUE]
    BY <1>3 DEF StartupMessage, StartupAuth, AuthMessages, Picks
  <2>2. phase = "StartupSent" /\ phase' = "Sasl" /\ scram' = "AwaitServerFirst" /\ prep' = NoPrep
    BY <1>3, <2>1 DEF Goes, MayAuthenticate
  <2>3. StartTypeOK'
    <3>1. proof' \in Proofs
      BY <1>I, <2>1, ShownTypes DEF StartTypeOK
    <3> QED
      BY <1>I, <2>1, <2>2, <3>1 DEF StartTypeOK, Goes, Startup, Stages, NoPrep
  <2>4. /\ proof'.sasl /\ proof'.signed = proof.signed
        /\ proof'.described = proof.described /\ proof'.ltree = proof.ltree
    BY <1>I, <2>1 DEF StartTypeOK, Proofs
  <2>5. Authenticated'
    BY <1>I, <2>2, <2>4 DEF Authenticated
  <2>6. Prepared'
    BY <1>I, <2>2, <2>4 DEF Prepared
  <2> QED
    BY <2>1, <2>3, <2>5, <2>6, GoesKeeps
<1>4. CASE m = "ParameterStatus"
  <2>1. (Goes(phase, scram, prep) /\ UNCHANGED proof) \/ Fail("Permanent")
    BY <1>4 DEF StartupMessage, AuthMessages
  <2>2. ASSUME Goes(phase, scram, prep), UNCHANGED proof PROVE StartInv'
    BY <1>I, <2>2, GoesKeeps DEF Goes, StartTypeOK, Authenticated, Prepared
  <2> QED
    BY <1>1, <2>1, <2>2
<1>5. CASE m = "BackendKey"
  <2>1. InstallKey /\ UNCHANGED proof
    BY <1>5 DEF StartupMessage, AuthMessages
  <2>2. Fail("Permanent") \/ (/\ slot = "Handshaking" /\ key' = life
                              /\ UNCHANGED <<phase, scram, prep, slot, fate, cause, token, intent, life>>)
    BY <2>1 DEF InstallKey
  <2>3. ASSUME slot = "Handshaking", key' = life,
               UNCHANGED <<phase, scram, prep, slot, fate, cause, token, intent, life, proof>>
        PROVE  StartInv'
    BY <1>I, <2>3 DEF StartInv, StartTypeOK, Authenticated, Prepared, KeyOwn, CancelsOwn, FateCaused
  <2> QED
    BY <1>1, <2>1, <2>2, <2>3
<1>6. CASE m = "ReadyIdle" /\ phase = "AwaitingReady"
  <2>1. Goes("Preparing", "None", FirstStep) /\ UNCHANGED proof
    BY <1>6 DEF StartupMessage, AuthMessages
  <2>2. phase' = "Preparing" /\ scram' = "None" /\ prep' = FirstStep
    BY <2>1 DEF Goes
  <2>3. /\ FirstStep \in [stage : Stages, at : Nat] /\ FirstStep.at = 1
        /\ FirstStep.stage = (IF DynamicLtree THEN "LtreeParse"
                              ELSE IF 1 <= Len(Queries) THEN "Parse" ELSE "Complete")
    BY DEF FirstStep, Resume, Stages
  <2>4. StartTypeOK'
    BY <1>I, <2>1, <2>2, <2>3 DEF StartTypeOK, Goes, Startup
  <2>5. Authenticated'
    BY <1>6, <1>I, <2>1, <2>2 DEF Authenticated
  <2>6. Len(Queries) \in Nat /\ proof.described = <<>> /\ Len(proof.described) = 0
    BY <1>6, <1>I DEF Prepared
  <2>7. Prepared'
    BY <2>1, <2>2, <2>3, <2>6 DEF Prepared, LtreeStages
  <2> QED
    BY <2>1, <2>4, <2>5, <2>7, GoesKeeps
<1>7. CASE ~(m = "AuthOk" /\ MayAuthenticate) /\ ~(Picks(m) /\ MayAuthenticate)
           /\ m # "ParameterStatus" /\ m # "BackendKey"
           /\ ~(m = "ReadyIdle" /\ phase = "AwaitingReady")
  <2>1. Fail("Permanent")
    BY <1>7 DEF StartupMessage, StartupAuth
  <2> QED
    BY <1>1, <2>1
<1> QED
  BY <1>2, <1>3, <1>4, <1>5, <1>6, <1>7

LEMMA SaslMessageKeeps ==
    ASSUME StartInv, NEW m \in Messages, phase = "Sasl", SaslMessage(m)
    PROVE  StartInv'
<1>I. StartTypeOK /\ Authenticated /\ Prepared /\ KeyOwn /\ FateCaused
  BY DEF StartInv
<1>1. CASE m = "AuthFirst" /\ scram = "AwaitServerFirst"
  <2>1. Goes("Sasl", "Deriving", prep) /\ UNCHANGED proof
    BY <1>1 DEF SaslMessage
  <2> QED
    BY <1>I, <2>1, GoesKeeps DEF Goes, StartTypeOK, Authenticated, Prepared
<1>2. CASE m = "AuthFinal" /\ scram = "AwaitServerFinal"
  <2>1. Goes("Sasl", "Complete", prep) /\ proof' = [proof EXCEPT !.signed = TRUE]
    BY <1>2 DEF SaslMessage
  <2>2. phase' = "Sasl" /\ scram' = "Complete" /\ prep' = prep
    BY <2>1 DEF Goes
  <2>3. StartTypeOK'
    <3>1. proof' \in Proofs
      BY <1>I, <2>1, ShownTypes DEF StartTypeOK
    <3> QED
      BY <1>I, <2>1, <2>2, <3>1 DEF StartTypeOK, Goes, Startup
  <2>4. /\ proof'.signed /\ proof'.sasl = proof.sasl
        /\ proof'.described = proof.described /\ proof'.ltree = proof.ltree
    BY <1>I, <2>1 DEF StartTypeOK, Proofs
  <2>5. Authenticated'
    BY <1>I, <2>2, <2>4 DEF Authenticated
  <2>6. Prepared'
    BY <1>I, <2>2, <2>4 DEF Prepared
  <2> QED
    BY <2>1, <2>3, <2>5, <2>6, GoesKeeps
<1>3. CASE m = "AuthOk" /\ Finishes
  <2>1. Goes("AwaitingReady", "None", NoPrep) /\ proof' = [proof EXCEPT !.accepted = TRUE]
    BY <1>3 DEF SaslMessage
  <2>2. /\ phase' = "AwaitingReady" /\ scram' = "None" /\ prep' = NoPrep
        /\ scram = "Complete"
    BY <1>3, <2>1 DEF Goes, Finishes
  <2>3. StartTypeOK'
    <3>1. proof' \in Proofs
      BY <1>I, <2>1, ShownTypes DEF StartTypeOK
    <3> QED
      BY <1>I, <2>1, <2>2, <3>1 DEF StartTypeOK, Goes, Startup, Stages, NoPrep
  <2>4. /\ proof'.accepted /\ proof'.sasl = proof.sasl /\ proof'.signed = proof.signed
        /\ proof'.described = proof.described /\ proof'.ltree = proof.ltree
    BY <1>I, <2>1 DEF StartTypeOK, Proofs
  <2>5. Authenticated'
    BY <1>I, <2>2, <2>4 DEF Authenticated
  <2>6. Prepared'
    BY <1>I, <2>2, <2>4 DEF Prepared
  <2> QED
    BY <2>1, <2>3, <2>5, <2>6, GoesKeeps
<1>4. CASE ~(m = "AuthFirst" /\ scram = "AwaitServerFirst") /\ ~(m = "AuthOk" /\ Finishes)
           /\ ~(m = "AuthFinal" /\ scram = "AwaitServerFinal")
  <2>1. Fail("Permanent") \/ Fail("Transient")
    BY <1>4 DEF SaslMessage
  <2> QED
    BY <2>1, FailKeeps DEF Fail
<1> QED
  BY <1>1, <1>2, <1>3, <1>4

LEMMA ResumeStep ==
    ASSUME NEW q \in 1 .. Len(Queries) + 1
    PROVE  /\ Resume(q) \in [stage : Stages, at : Nat] /\ Resume(q).at = q
           /\ q <= Len(Queries) => Resume(q).stage = "Parse"
           /\ ~(q <= Len(Queries)) => q = Len(Queries) + 1 /\ Resume(q).stage = "Complete"
<1>1. Len(Queries) \in Nat
  BY StartupAssumption
<1>2. Resume(q) = (IF q <= Len(Queries) THEN [stage |-> "Parse", at |-> q]
                   ELSE [stage |-> "Complete", at |-> q])
  BY DEF Resume
<1>3. CASE q <= Len(Queries)
  BY <1>1, <1>2, <1>3 DEF Stages
<1>4. CASE ~(q <= Len(Queries))
  BY <1>1, <1>2, <1>4 DEF Stages
<1> QED
  BY <1>3, <1>4

(* The cursor moves on behind a result that was described as compiled.     *)
LEMMA DescribedKeeps ==
    ASSUME StartInv, phase = "Preparing", prep.stage = "Result",
           Goes(phase, scram, Resume(prep.at + 1)),
           NEW kind \in {"Rows", "None"}, kind = Queries[prep.at], proof' = Described(kind)
    PROVE  StartInv'
<1>I. StartTypeOK /\ Authenticated /\ Prepared
  BY DEF StartInv
<1>1. /\ Len(Queries) \in Nat /\ prep.at \in Nat /\ proof.described \in Seq({"Rows", "None"})
      /\ Len(proof.described) \in Nat
      /\ prep.at = Len(proof.described) + 1 /\ prep.at <= Len(Queries)
      /\ \A i \in 1 .. Len(proof.described) : proof.described[i] = Queries[i]
      /\ DynamicLtree => proof.ltree
  BY <1>I, StartupAssumption DEF StartTypeOK, Proofs, Prepared, LtreeStages
<1>2. prep.at + 1 \in 1 .. Len(Queries) + 1
  BY <1>1
<1>3. phase' = "Preparing" /\ scram' = scram /\ prep' = Resume(prep.at + 1)
  BY DEF Goes
<1>4. proof' \in Proofs
  BY <1>I, ShownTypes DEF StartTypeOK, Described
<1>5. StartTypeOK'
  BY <1>2, <1>3, <1>4, <1>I, ResumeStep DEF StartTypeOK, Goes, Startup
<1>6. /\ proof'.described = Append(proof.described, kind) /\ proof'.ltree = proof.ltree
      /\ proof'.accepted = proof.accepted /\ proof'.signed = proof.signed
      /\ proof'.sasl = proof.sasl
  BY <1>I DEF StartTypeOK, Proofs, Described
<1>7. Authenticated'
  BY <1>3, <1>6, <1>I DEF Authenticated
<1>8. /\ Len(proof'.described) = prep.at
      /\ \A i \in 1 .. Len(proof'.described) : proof'.described[i] = Queries[i]
  <2> DEFINE d == proof.described
  <2>1. /\ Len(Append(d, kind)) = Len(d) + 1 /\ Append(d, kind)[Len(d) + 1] = kind
        /\ \A i \in 1 .. Len(d) : Append(d, kind)[i] = d[i]
    BY <1>1
  <2>2. \A i \in 1 .. Len(d) + 1 : i \in 1 .. Len(d) \/ i = Len(d) + 1
    BY <1>1
  <2>3. \A i \in 1 .. Len(d) + 1 : Append(d, kind)[i] = Queries[i]
    <3>1. d \in Seq({"Rows", "None"}) /\ Queries[Len(d) + 1] = kind
          /\ \A i \in 1 .. Len(d) : d[i] = Queries[i]
      BY <1>1
    <3> HIDE DEF d
    <3> QED
      BY <2>1, <2>2, <3>1
  <2>4. Len(d) + 1 = prep.at /\ proof'.described = Append(d, kind)
    BY <1>1, <1>6
  <2> HIDE DEF d
  <2> QED
    BY <2>1, <2>3, <2>4
<1>9. Prepared'
  BY <1>1, <1>2, <1>3, <1>6, <1>8, ResumeStep DEF Prepared, LtreeStages
<1> QED
  BY <1>5, <1>7, <1>9, GoesKeeps

LEMMA PrepareMessageKeeps ==
    ASSUME StartInv, NEW m \in Messages, phase = "Preparing", PrepareMessage(m)
    PROVE  StartInv'
<1>I. StartTypeOK /\ Authenticated /\ Prepared /\ KeyOwn /\ FateCaused
  BY DEF StartInv
<1>F. ASSUME Fail("Permanent") PROVE StartInv'
  BY <1>F, FailKeeps DEF Fail
(* The stage moves and the cursor stays. *)
<1>M. ASSUME NEW stage \in Stages, Goes(phase, scram, [stage |-> stage, at |-> prep.at]),
             UNCHANGED proof,
             \/ prep.stage \in LtreeStages /\ stage \in LtreeStages
             \/ /\ prep.stage \in {"Parse", "Parameters", "Result"}
                /\ stage \in {"Parse", "Parameters", "Result"}
      PROVE  StartInv'
  <2>1. phase' = phase /\ scram' = scram /\ prep' = [stage |-> stage, at |-> prep.at]
    BY <1>M DEF Goes
  <2>2. StartTypeOK'
    BY <1>I, <1>M, <2>1 DEF StartTypeOK, Goes
  <2>3. Authenticated'
    BY <1>I, <1>M, <2>1 DEF Authenticated
  <2>4. Prepared'
    BY <1>I, <1>M, <2>1 DEF Prepared, LtreeStages
  <2> QED
    BY <1>M, <2>2, <2>3, <2>4, GoesKeeps
<1>1. CASE m = "ParameterStatus"
  <2>1. Goes(phase, scram, prep) /\ UNCHANGED proof
    BY <1>1 DEF PrepareMessage
  <2> QED
    BY <1>I, <2>1, GoesKeeps DEF Goes, StartTypeOK, Authenticated, Prepared
<1>2. CASE m = "ParseComplete" /\ prep.stage \in {"LtreeParse", "Parse"}
  <2> DEFINE stage == IF prep.stage = "Parse" THEN "Parameters" ELSE "LtreeParameters"
  <2>1. Goes(phase, scram, [stage |-> stage, at |-> prep.at]) /\ UNCHANGED proof
    BY <1>2 DEF PrepareMessage
  <2>2. stage \in Stages
    BY DEF Stages
  <2>3. \/ prep.stage \in LtreeStages /\ stage \in LtreeStages
        \/ /\ prep.stage \in {"Parse", "Parameters", "Result"}
           /\ stage \in {"Parse", "Parameters", "Result"}
    BY <1>2 DEF LtreeStages
  <2> HIDE DEF stage
  <2> QED
    BY <1>M, <2>1, <2>2, <2>3
<1>3. CASE m = "ParameterDescription" /\ prep.stage \in {"LtreeParameters", "Parameters"}
  <2> DEFINE stage == IF prep.stage = "Parameters" THEN "Result" ELSE "LtreeResult"
  <2>1. Goes(phase, scram, [stage |-> stage, at |-> prep.at]) /\ UNCHANGED proof
    BY <1>3 DEF PrepareMessage
  <2>2. stage \in Stages
    BY DEF Stages
  <2>3. \/ prep.stage \in LtreeStages /\ stage \in LtreeStages
        \/ /\ prep.stage \in {"Parse", "Parameters", "Result"}
           /\ stage \in {"Parse", "Parameters", "Result"}
    BY <1>3 DEF LtreeStages
  <2> HIDE DEF stage
  <2> QED
    BY <1>M, <2>1, <2>2, <2>3
<1>4. CASE m = "RowDescription" /\ prep.stage = "LtreeResult"
  <2>1. Goes(phase, scram, Resume(prep.at)) /\ proof' = [proof EXCEPT !.ltree = TRUE]
    BY <1>4 DEF PrepareMessage
  <2>2. /\ Len(Queries) \in Nat /\ Len(proof.described) \in Nat /\ prep.at \in Nat
        /\ prep.at = Len(proof.described) + 1 /\ prep.at <= Len(Queries) + 1
    BY <1>I, StartupAssumption DEF Prepared, StartTypeOK, Proofs
  <2>3. prep.at \in 1 .. Len(Queries) + 1
    BY <2>2
  <2>4. phase' = phase /\ scram' = scram /\ prep' = Resume(prep.at)
    BY <2>1 DEF Goes
  <2>5. proof' \in Proofs
    BY <1>I, <2>1, ShownTypes DEF StartTypeOK
  <2>6. StartTypeOK'
    BY <1>I, <2>1, <2>3, <2>4, <2>5, ResumeStep DEF StartTypeOK, Goes
  <2>7. /\ proof'.described = proof.described /\ proof'.ltree
        /\ proof'.accepted = proof.accepted /\ proof'.signed = proof.signed
        /\ proof'.sasl = proof.sasl
    BY <1>I, <2>1 DEF StartTypeOK, Proofs
  <2>8. Authenticated'
    BY <1>I, <2>4, <2>7 DEF Authenticated
  <2>9. Prepared'
    BY <1>I, <2>2, <2>3, <2>4, <2>7, ResumeStep DEF Prepared, LtreeStages
  <2> QED
    BY <2>1, <2>6, <2>8, <2>9, GoesKeeps
<1>5. CASE m = "RowDescription" /\ prep.stage = "Result"
  <2>1. CASE Queries[prep.at] = "Rows"
    <3>1. Goes(phase, scram, Resume(prep.at + 1)) /\ proof' = Described("Rows")
      BY <1>5, <2>1 DEF PrepareMessage
    <3> QED
      BY <1>5, <2>1, <3>1, DescribedKeeps
  <2>2. CASE Queries[prep.at] # "Rows"
    BY <1>5, <1>F, <2>2 DEF PrepareMessage
  <2> QED
    BY <2>1, <2>2
<1>6. CASE m = "NoData" /\ prep.stage = "Result" /\ NoDataExpected
  <2>1. Goes(phase, scram, Resume(prep.at + 1)) /\ proof' = Described("None")
    BY <1>6 DEF PrepareMessage
  <2>2. prep.at \in 1 .. Len(Queries)
    <3>1. prep.at = Len(proof.described) + 1 /\ prep.at <= Len(Queries)
      BY <1>6, <1>I DEF Prepared
    <3>2. Len(proof.described) \in Nat /\ Len(Queries) \in Nat
      BY <1>I, StartupAssumption DEF StartTypeOK, Proofs
    <3> QED
      BY <3>1, <3>2
  <2>3. Queries[prep.at] = "None"
    BY <1>6, <2>2, StartupAssumption DEF NoDataExpected
  <2> QED
    BY <1>6, <2>1, <2>3, DescribedKeeps
<1>7. CASE m = "ReadyIdle" /\ prep.stage = "Complete"
  <2>1. CASE slot # "Handshaking"
    BY <1>7, <1>F, <2>1 DEF PrepareMessage
  <2>2. CASE slot = "Handshaking"
    <3>1. /\ phase' = "Ready" /\ slot' = "Ready" /\ prep' = NoPrep
          /\ cause' = (IF cause = "Open" THEN "None" ELSE cause)
          /\ UNCHANGED <<scram, fate, key, token, intent, life, proof>>
      BY <1>7, <2>2 DEF PrepareMessage
    <3>2. StartTypeOK'
      BY <1>I, <3>1 DEF StartTypeOK, Startup, Stages, NoPrep
    <3>3. Authenticated'
      BY <1>I, <3>1 DEF Authenticated
    <3>4. proof.described = Queries
      <4>1. /\ Len(Queries) \in Nat /\ Len(proof.described) \in Nat
            /\ prep.at = Len(proof.described) + 1 /\ prep.at = Len(Queries) + 1
            /\ \A i \in 1 .. Len(proof.described) : proof.described[i] = Queries[i]
            /\ proof.described \in Seq({"Rows", "None"})
        BY <1>7, <1>I, StartupAssumption DEF Prepared, StartTypeOK, Proofs
      <4> QED
        BY <4>1, StartupAssumption
    <3>5. DynamicLtree => proof.ltree
      BY <1>7, <1>I DEF Prepared, LtreeStages
    <3>6. Prepared'
      BY <3>1, <3>4, <3>5 DEF Prepared
    <3>7. KeyOwn' /\ FateCaused'
      BY <1>I, <3>1 DEF KeyOwn, CancelsOwn, FateCaused
    <3> QED
      BY <3>2, <3>3, <3>6, <3>7 DEF StartInv
  <2> QED
    BY <2>1, <2>2
<1>8. CASE /\ m # "ParameterStatus"
           /\ ~(m = "ParseComplete" /\ prep.stage \in {"LtreeParse", "Parse"})
           /\ ~(m = "ParameterDescription" /\ prep.stage \in {"LtreeParameters", "Parameters"})
           /\ ~(m = "RowDescription" /\ prep.stage = "LtreeResult")
           /\ ~(m = "RowDescription" /\ prep.stage = "Result")
           /\ ~(m = "NoData" /\ prep.stage = "Result" /\ NoDataExpected)
           /\ ~(m = "ReadyIdle" /\ prep.stage = "Complete")
  <2>1. Fail("Permanent")
    BY <1>8 DEF PrepareMessage
  <2> QED
    BY <1>F, <2>1
<1> QED
  BY <1>1, <1>2, <1>3, <1>4, <1>5, <1>6, <1>7, <1>8

LEMMA StartStep == StartInv /\ [StartNext]_startVars => StartInv'
<1> SUFFICES ASSUME StartInv, [StartNext]_startVars PROVE StartInv'
  OBVIOUS
<1>I. StartTypeOK /\ Authenticated /\ Prepared /\ KeyOwn /\ FateCaused
  BY DEF StartInv
<1>1. CASE Connect
  <2>1. /\ slot = "Vacant" /\ slot' = "Handshaking" /\ fate' = "None"
        /\ phase' = "StartupSent" /\ scram' = "None" /\ prep' = NoPrep /\ proof' = Nothing
        /\ UNCHANGED <<key, cause, token, intent>>
    BY <1>1 DEF Connect
  <2>2. StartTypeOK'
    BY <1>I, <2>1 DEF StartTypeOK, Startup, Stages, NoPrep, Proofs, Nothing
  <2>3. Authenticated' /\ Prepared'
    BY <2>1 DEF Authenticated, Prepared, Nothing
  <2>4. KeyOwn' /\ FateCaused'
    BY <1>I, <2>1 DEF KeyOwn, CancelsOwn, FateCaused
  <2> QED
    BY <2>2, <2>3, <2>4 DEF StartInv
(* A slot that closes while the session keeps its state. *)
<1>C. ASSUME NEW d \in {"Permanent", "Reconnect"}, CloseSlot(d), slot # "Vacant",
             UNCHANGED <<phase, scram, prep, token, intent, life, proof>>,
             cause' \in {"None", "Open", "Driver", "Server"},
             cause \in {"Driver", "Server"} => cause' = cause,
             d = "Permanent" => cause' \in {"Driver", "Server"}
      PROVE  StartInv'
  <2>1. slot' = "Closing" /\ key' = 0 /\ fate' \in {fate, d}
    BY <1>C, <1>I DEF CloseSlot, ClosedKey, StartTypeOK
  <2>2. StartTypeOK'
    BY <1>C, <1>I, <2>1 DEF StartTypeOK
  <2>3. Authenticated' /\ Prepared'
    BY <1>C, <1>I DEF Authenticated, Prepared
  <2>4. KeyOwn' /\ FateCaused'
    BY <1>C, <1>I, <2>1 DEF KeyOwn, CancelsOwn, FateCaused
  <2> QED
    BY <2>2, <2>3, <2>4 DEF StartInv
<1>2. CASE IdentityExhausted
  BY <1>2, <1>C, <1>I DEF IdentityExhausted, RecordCause, StartTypeOK
<1>3. CASE LinkFails
  BY <1>3, <1>C, <1>I DEF LinkFails, StartTypeOK
<1>4. CASE OpenFails
  <2>1. /\ slot = "Vacant" /\ fate # "Permanent" /\ cause' = RecordCause("Open")
        /\ UNCHANGED <<phase, scram, prep, slot, fate, key, token, intent, life, proof>>
    BY <1>4 DEF OpenFails
  <2>2. StartTypeOK'
    BY <1>I, <2>1 DEF StartTypeOK, RecordCause
  <2>3. Authenticated' /\ Prepared'
    BY <1>I, <2>1 DEF Authenticated, Prepared
  <2>4. KeyOwn' /\ FateCaused'
    BY <1>I, <2>1 DEF KeyOwn, CancelsOwn, FateCaused
  <2> QED
    BY <2>2, <2>3, <2>4 DEF StartInv
<1>5. CASE Derived
  <2>1. Goes("Sasl", "AwaitServerFinal", prep) /\ UNCHANGED proof /\ phase = "Sasl"
    BY <1>5 DEF Derived
  <2> QED
    BY <1>I, <2>1, GoesKeeps DEF Goes, StartTypeOK, Authenticated, Prepared
<1>6. CASE Disconnect
  <2>1. /\ slot = "Closing" /\ slot' = "Vacant" /\ phase' = "NeedsStartup"
        /\ scram' = "None" /\ prep' = NoPrep
        /\ UNCHANGED <<fate, key, cause, token, intent, life, proof>>
    BY <1>6 DEF Disconnect
  <2>2. StartTypeOK'
    BY <1>I, <2>1 DEF StartTypeOK, Startup, Stages, NoPrep
  <2>3. Authenticated' /\ Prepared'
    BY <2>1 DEF Authenticated, Prepared
  <2>4. KeyOwn' /\ FateCaused'
    BY <1>I, <2>1 DEF KeyOwn, CancelsOwn, FateCaused
  <2> QED
    BY <2>2, <2>3, <2>4 DEF StartInv
<1>U. ASSUME UNCHANGED <<phase, scram, prep, slot, fate, key, cause, life, proof>>, CancelsOwn'
      PROVE  StartInv'
  BY <1>I, <1>U DEF StartInv, StartTypeOK, Authenticated, Prepared, KeyOwn, FateCaused
<1>7. CASE TakeToken
  <2>1. intent = 0 /\ UNCHANGED intent
    BY <1>7, <1>I DEF TakeToken, KeyOwn, CancelsOwn
  <2> QED
    BY <1>7, <1>U, <2>1 DEF TakeToken, CancelsOwn
<1>8. CASE CancelQuery
  <2>1. intent' = key /\ token = life /\ UNCHANGED token
    BY <1>8 DEF CancelQuery, SameEpoch
  <2>2. CancelsOwn'
    BY <1>I, <2>1 DEF KeyOwn, CancelsOwn
  <2> QED
    BY <1>8, <1>U, <2>2 DEF CancelQuery
<1>9. ASSUME NEW m \in Messages, Response(m) PROVE StartInv'
  <2>1. CASE m \in {"ErrorPermanent", "ErrorTransient"}
    <3>1. FailAs("Permanent", "Server") \/ FailAs("Transient", "Server")
      BY <1>9, <2>1 DEF Response
    <3> QED
      BY <3>1, FailKeeps
  <2>2. CASE m \in {"ErrorMalformed", "NoticeMalformed"}
    BY <1>9, <2>2, FailKeeps DEF Response, Fail
  <2>3. CASE m = "Notice"
    BY <1>9, <1>I, <1>U, <2>3 DEF Response, startVars, KeyOwn, CancelsOwn
  <2>4. CASE m \notin {"ErrorPermanent", "ErrorTransient", "ErrorMalformed", "NoticeMalformed", "Notice"}
    <3>1. CASE phase \in {"StartupSent", "AwaitingReady"}
      BY <1>9, <2>4, <3>1, StartupMessageKeeps DEF Response
    <3>2. CASE phase = "Sasl"
      BY <1>9, <2>4, <3>2, SaslMessageKeeps DEF Response
    <3>3. CASE phase = "Preparing"
      BY <1>9, <2>4, <3>3, PrepareMessageKeeps DEF Response
    <3> QED
      BY <1>9, <3>1, <3>2, <3>3 DEF Response, Startup
  <2> QED
    BY <2>1, <2>2, <2>3, <2>4
<1>10. ASSUME NEW class \in {"Permanent", "Transient"}, ReadyFails(class) PROVE StartInv'
  BY <1>10, FailKeeps DEF ReadyFails, Fail
<1>11. CASE UNCHANGED startVars
  BY <1>11, <1>I, <1>U DEF startVars, KeyOwn, CancelsOwn
<1> QED
  BY <1>1, <1>2, <1>3, <1>4, <1>5, <1>6, <1>7, <1>8, <1>9, <1>10, <1>11 DEF StartNext

LEMMA StartInvariant == StartSpec => []StartInv
BY StartInitInv, StartStep, PTL DEF StartSpec

(* Against any server, a connection reaches the phase in which it serves   *)
(* only accepted, signed for if the server had asked for SASL, and with    *)
(* every statement described as it was compiled; and no cancel request     *)
(* carries the key of another connection of its slot.                      *)
THEOREM StartupSoundCorrect == StartSpec => []StartupSound
<1>1. StartInv => StartupSound
  BY DEF StartInv, Authenticated, Prepared, KeyOwn, StartupSound, ServesProved
<1> QED
  BY <1>1, StartInvariant, PTL

-----------------------------------------------------------------------------
(* Failures that clients are shown *)

(* Recording a failure never replaces one, and leaves one.                 *)
LEMMA CauseStep ==
    ASSUME StartInv, [StartNext]_startVars
    PROVE  /\ cause \in {"Driver", "Server"} => cause' = cause
           /\ phase = "Ready" /\ phase' = "Failed" =>
                 fate' # "Permanent" \/ fate = "Permanent"
<1> DEFINE P == /\ cause \in {"Driver", "Server"} => cause' = cause
                /\ phase = "Ready" /\ phase' = "Failed" =>
                      fate' # "Permanent" \/ fate = "Permanent"
<1>I. StartTypeOK
  BY DEF StartInv
<1>F. ASSUME NEW class, NEW c, FailAs(class, c) PROVE P
  <2>1. cause \in {"Driver", "Server"} => cause' = cause
    BY <1>F DEF FailAs, RecordCause
  <2>2. phase = "Ready" => Disposition(class) = "Reconnect"
    BY DEF Disposition, Startup
  <2>3. phase = "Ready" => fate' \in {fate, "Reconnect"}
    BY <1>F, <2>2 DEF FailAs, CloseSlot
  <2> QED
    BY <2>1, <2>3
<1>S. ASSUME UNCHANGED cause, phase' # "Failed" \/ UNCHANGED phase PROVE P
  BY <1>S
<1>1. CASE Connect
  BY <1>1 DEF Connect
<1>2. CASE IdentityExhausted
  BY <1>2 DEF IdentityExhausted, RecordCause
<1>3. CASE OpenFails
  BY <1>3 DEF OpenFails, RecordCause
<1>4. CASE Derived
  BY <1>4 DEF Derived, Goes
<1>5. CASE LinkFails
  BY <1>5 DEF LinkFails
<1>6. CASE Disconnect
  BY <1>6 DEF Disconnect
<1>7. CASE TakeToken \/ CancelQuery
  BY <1>7 DEF TakeToken, CancelQuery
<1>8. ASSUME NEW m \in Messages, Response(m) PROVE P
  <2>1. CASE m \in {"ErrorPermanent", "ErrorTransient"}
    <3>1. FailAs("Permanent", "Server") \/ FailAs("Transient", "Server")
      BY <1>8, <2>1 DEF Response
    <3> QED
      BY <1>F, <3>1
  <2>2. CASE m \in {"ErrorMalformed", "NoticeMalformed"}
    BY <1>8, <1>F, <2>2 DEF Response, Fail
  <2>3. CASE m = "Notice"
    BY <1>8, <2>3 DEF Response, startVars
  <2>4. ASSUME NEW p, NEW s, NEW q, Goes(p, s, q), phase # "Ready" PROVE P
    BY <2>4 DEF Goes
  <2>5. CASE m \notin {"ErrorPermanent", "ErrorTransient", "ErrorMalformed", "NoticeMalformed", "Notice"}
    <3>0. phase # "Ready"
      BY <1>8 DEF Response, Startup
    <3>1. CASE phase \in {"StartupSent", "AwaitingReady"}
      <4>1. StartupMessage(m)
        BY <1>8, <2>5, <3>1 DEF Response
      <4>2. (\E p, s, q : Goes(p, s, q)) \/ Fail("Permanent") \/ UNCHANGED cause
        BY <4>1 DEF StartupMessage, StartupAuth, InstallKey
      <4> QED
        BY <1>F, <2>4, <3>0, <4>2 DEF Fail
    <3>2. CASE phase = "Sasl"
      <4>1. SaslMessage(m)
        BY <1>8, <2>5, <3>2 DEF Response
      <4>2. (\E p, s, q : Goes(p, s, q)) \/ Fail("Permanent") \/ Fail("Transient")
        BY <4>1 DEF SaslMessage
      <4> QED
        BY <1>F, <2>4, <3>0, <4>2 DEF Fail
    <3>3. CASE phase = "Preparing"
      <4>1. PrepareMessage(m)
        BY <1>8, <2>5, <3>3 DEF Response
      <4>2. \/ (\E p, s, q : Goes(p, s, q)) \/ Fail("Permanent")
            \/ cause' = (IF cause = "Open" THEN "None" ELSE cause)
        BY <4>1 DEF PrepareMessage
      <4> QED
        BY <1>F, <2>4, <3>0, <4>2 DEF Fail
    <3> QED
      BY <1>8, <3>1, <3>2, <3>3 DEF Response, Startup
  <2> QED
    BY <2>1, <2>2, <2>3, <2>5
<1>9. ASSUME NEW class \in {"Permanent", "Transient"}, ReadyFails(class) PROVE P
  BY <1>9, <1>F DEF ReadyFails, Fail
<1>10. CASE UNCHANGED startVars
  BY <1>10 DEF startVars
<1> QED
  BY <1>1, <1>2, <1>3, <1>4, <1>5, <1>6, <1>7, <1>8, <1>9, <1>10 DEF StartNext

(* A failure the client has to report is never forgotten or replaced, a    *)
(* slot is given up for good only with one recorded, and an error of a     *)
(* connection that serves never gives its slot up.                         *)
THEOREM CauseKeptCorrect == StartSpec => CauseKept
<1>1. StartInv /\ StartInv' /\ [StartNext]_startVars =>
        [/\ cause \in {"Driver", "Server"} => cause' = cause
         /\ fate' = "Permanent" => cause' \in {"Driver", "Server"}
         /\ phase = "Ready" /\ phase' = "Failed" =>
               fate' # "Permanent" \/ fate = "Permanent"]_startVars
  BY CauseStep DEF StartInv, FateCaused
<1> QED
  BY <1>1, StartInvariant, PTL DEF StartSpec, CauseKept

-----------------------------------------------------------------------------
(* The lanes of the key derivation *)

Members(q) == {q[i] : i \in 1 .. Len(q)}
NoTwice(q) == \A i, j \in 1 .. Len(q) : q[i] = q[j] => i = j

(* What joining and leaving does to the members of a lane.                 *)
LEMMA JoinsLane ==
    ASSUME NEW q \in Seq(Conns), NEW c \in Conns, c \notin Members(q), NoTwice(q)
    PROVE  /\ Append(q, c) \in Seq(Conns) /\ Append(q, c) # <<>> /\ NoTwice(Append(q, c))
           /\ Members(Append(q, c)) = Members(q) \cup {c}
           /\ q # <<>> => Head(Append(q, c)) = Head(q)
           /\ q = <<>> => Head(Append(q, c)) = c
<1> DEFINE r == Append(q, c)
<1>1. /\ r \in Seq(Conns) /\ Len(q) \in Nat /\ Len(r) = Len(q) + 1
      /\ \A i \in 1 .. Len(q) : r[i] = q[i] /\ q[i] # c
      /\ r[Len(q) + 1] = c
  BY DEF Members
<1> HIDE DEF r
<1>h. /\ r # <<>> /\ Head(r) = r[1]
      /\ q # <<>> => Len(q) > 0 /\ Head(q) = q[1]
      /\ q = <<>> => Len(q) = 0
  <2>1. r # <<>> /\ Head(r) = r[1]
    <3>1. Len(r) # 0
      BY <1>1
    <3> QED
      BY <1>1, <3>1
  <2>2. q # <<>> => Len(q) > 0 /\ Head(q) = q[1]
    BY <1>1
  <2> QED
    BY <2>1, <2>2
<1>2. \A i \in 1 .. Len(r) : i \in 1 .. Len(q) \/ i = Len(q) + 1
  BY <1>1
<1>3. NoTwice(r)
  BY <1>1, <1>2 DEF NoTwice
<1>4. Members(r) = Members(q) \cup {c}
  <2>1. \A i \in 1 .. Len(q) : i \in 1 .. Len(r)
    BY <1>1
  <2>2. Len(q) + 1 \in 1 .. Len(r)
    BY <1>1
  <2> QED
    BY <1>1, <1>2, <2>1, <2>2 DEF Members
<1>5. (q # <<>> => Head(r) = Head(q)) /\ (q = <<>> => Head(r) = c)
  BY <1>1, <1>h
<1> QED
  BY <1>1, <1>h, <1>3, <1>4, <1>5 DEF r

LEMMA LeavesLane ==
    ASSUME NEW q \in Seq(Conns), NEW c \in Conns, NoTwice(q)
    PROVE  /\ Without(q, c) \in Seq(Conns) /\ NoTwice(Without(q, c))
           /\ Members(Without(q, c)) = Members(q) \ {c}
           /\ q # <<>> /\ Head(q) # c => Without(q, c) # <<>> /\ Head(Without(q, c)) = Head(q)
<1>0. Len(q) \in Nat /\ DOMAIN q = 1 .. Len(q) /\ (q # <<>> => Len(q) > 0 /\ Head(q) = q[1])
      /\ \A i \in 1 .. Len(q) : q[i] \in Conns
  OBVIOUS
<1>1. CASE \A i \in DOMAIN q : q[i] # c
  BY <1>0, <1>1 DEF Without, Members
<1>2. CASE \E i \in DOMAIN q : q[i] = c
  <2> DEFINE at == CHOOSE i \in DOMAIN q : q[i] = c
             r == [i \in 1 .. Len(q) - 1 |-> IF i < at THEN q[i] ELSE q[i + 1]]
  <2>1. at \in 1 .. Len(q) /\ q[at] = c
    BY <1>0, <1>2
  <2>2. Without(q, c) = r
    BY <1>2 DEF Without
  <2>3. r \in [1 .. Len(q) - 1 -> Conns] /\ Len(q) - 1 \in Nat
    BY <1>0, <2>1
  <2>4. r \in Seq(Conns) /\ Len(r) = Len(q) - 1
    BY <2>3, SeqDef
  <2>5. \A i \in 1 .. Len(q) - 1 : r[i] = IF i < at THEN q[i] ELSE q[i + 1]
    OBVIOUS
  <2> HIDE DEF at, r
  <2>6. NoTwice(r)
    <3> SUFFICES ASSUME NEW i \in 1 .. Len(q) - 1, NEW j \in 1 .. Len(q) - 1, r[i] = r[j] PROVE i = j
      BY <2>4 DEF NoTwice
    <3> DEFINE f(k) == IF k < at THEN k ELSE k + 1
    <3>1. f(i) \in 1 .. Len(q) /\ f(j) \in 1 .. Len(q) /\ r[i] = q[f(i)] /\ r[j] = q[f(j)]
      BY <1>0, <2>1, <2>5
    <3>2. f(i) = f(j)
      BY <3>1 DEF NoTwice
    <3> QED
      BY <1>0, <2>1, <3>2
  <2>7. Members(r) = Members(q) \ {c}
    <3>1. ASSUME NEW i \in 1 .. Len(q) - 1 PROVE r[i] \in Members(q) \ {c}
      <4>1. PICK k \in 1 .. Len(q) : r[i] = q[k] /\ k # at
        BY <1>0, <2>1, <2>5
      <4>2. q[k] # c
        BY <2>1, <4>1 DEF NoTwice
      <4> QED
        BY <4>1, <4>2 DEF Members
    <3>2. ASSUME NEW k \in 1 .. Len(q), q[k] # c PROVE q[k] \in Members(r)
      <4>1. CASE k < at
        <5>1. k \in 1 .. Len(q) - 1 /\ r[k] = q[k]
          BY <1>0, <2>1, <2>5, <4>1
        <5> QED
          BY <2>4, <5>1 DEF Members
      <4>2. CASE k > at
        <5>1. k - 1 \in 1 .. Len(q) - 1 /\ ~(k - 1 < at) /\ (k - 1) + 1 = k
          BY <1>0, <2>1, <4>2
        <5>2. r[k - 1] = q[k]
          BY <2>5, <5>1
        <5> QED
          BY <2>4, <5>1, <5>2 DEF Members
      <4> QED
        BY <1>0, <2>1, <3>2, <4>1, <4>2
    <3> QED
      BY <2>4, <3>1, <3>2 DEF Members
  <2>8. ASSUME q # <<>>, Head(q) # c PROVE r # <<>> /\ Head(r) = Head(q)
    <3>1. at # 1 /\ Len(q) > 1
      BY <1>0, <2>1, <2>8
    <3>2. 1 \in 1 .. Len(q) - 1 /\ 1 < at
      BY <1>0, <2>1, <3>1
    <3>3. r[1] = q[1] /\ Len(r) > 0
      BY <1>0, <2>4, <2>5, <3>1, <3>2
    <3>4. r # <<>> /\ Head(r) = r[1]
      BY <2>4, <3>3
    <3> QED
      BY <1>0, <2>8, <3>3, <3>4
  <2> QED
    BY <2>2, <2>4, <2>6, <2>7, <2>8
<1> QED
  BY <1>1, <1>2

LEMMA LaneMembers ==
    ASSUME NEW q \in Seq(Conns)
    PROVE  /\ Members(q) = {} <=> q = <<>>
           /\ q # <<>> => Head(q) \in Members(q)
           /\ Members(q) \subseteq Conns
<1>1. /\ Len(q) \in Nat /\ (q = <<>> <=> Len(q) = 0)
      /\ (q # <<>> => Head(q) = q[1] /\ 1 \in 1 .. Len(q))
  OBVIOUS
<1> QED
  BY <1>1 DEF Members

-----------------------------------------------------------------------------
(* Entries, cache and lanes that agree.  The parts of the coordinator are  *)
(* parameters: one poll goes through several such states.                  *)

Lane == Entry \cup {Wait}
Place == 0 .. Caches - 1

(* Every part has its type. *)
Typed(es, cs, ls, jb, nd) ==
    /\ es \in [Entry -> [key : Keys \cup {NoKey}, left : Nat]]
    /\ cs \in [Place -> Entry \cup {Nowhere}]
    /\ ls \in [Lane -> Seq(Conns)]
    /\ jb \in [Conns -> Lane \cup {Nowhere}]
    /\ nd \in [Conns -> Keys \cup {NoKey}]

(* A connection is in the lane its job names, once, and needs the key of   *)
(* its entry; outside a derivation it needs none.                          *)
Placed(es, ls, jb, nd) ==
    /\ \A l \in Lane : NoTwice(ls[l])
    /\ \A l \in Lane : \A c \in Members(ls[l]) : jb[c] = l
    /\ \A c \in Conns : jb[c] \in Entry => c \in Members(ls[jb[c]]) /\ es[jb[c]].key = nd[c]
    /\ \A c \in Conns : jb[c] = Nowhere <=> nd[c] = NoKey

(* The cache holds finished entries that nobody is in the lane of, each    *)
(* once, and every entry in use is cached or has a lane.                   *)
Shelved(es, cs, ls) ==
    /\ \A p \in Place : cs[p] # Nowhere =>
          es[cs[p]].key # NoKey /\ es[cs[p]].left = 0 /\ ls[cs[p]] = <<>>
    /\ \A p, r \in Place : cs[p] = cs[r] /\ cs[p] # Nowhere => p = r
    /\ \A e \in Entry : es[e].key # NoKey => ls[e] # <<>> \/ \E p \in Place : cs[p] = e
    /\ \A e \in Entry : es[e].key = NoKey => es[e].left = 0

Running(es) == {e \in Entry : es[e].left > 0}

Sound(es, cs, ls, jb, nd) ==
    /\ Typed(es, cs, ls, jb, nd) /\ Placed(es, ls, jb, nd) /\ Shelved(es, cs, ls)
    /\ Cardinality(Running(es)) <= Lanes

LEMMA KdfNames ==
    /\ Entry \subseteq Nat /\ Wait \in Nat /\ Wait \notin Entry /\ IsFiniteSet(Entry)
    /\ Nowhere \notin Lane /\ Nowhere \notin Place /\ Place \subseteq Nat /\ 0 \in Place /\ 0 \in Entry
    /\ NoKey \notin Keys /\ Slices > 0 /\ Slices \in Nat /\ Lanes \in Nat /\ Lanes > 0
<1>1. IsFiniteSet(Entry)
  BY KdfAssumption, FS_Interval, 0 \in Int, Lanes + Caches - 1 \in Int DEF Entry
<1> QED
  BY <1>1, KdfAssumption DEF Entry, Wait, Lane, Place, Nowhere, NoKey

(* Fewer entries compute.                                                  *)
LEMMA RunningShrinks ==
    ASSUME NEW A \in SUBSET Entry, NEW B \in SUBSET A, Cardinality(A) <= Lanes
    PROVE  Cardinality(B) <= Lanes
<1>1. IsFiniteSet(A)
  BY KdfNames, FS_Subset
<1>2. IsFiniteSet(B) /\ Cardinality(B) <= Cardinality(A)
  BY <1>1, FS_Subset
<1>3. Cardinality(A) \in Nat /\ Cardinality(B) \in Nat
  BY <1>1, <1>2, FS_CardinalityType
<1> QED
  BY <1>2, <1>3, KdfNames

(* Nobody is in two lanes, or in the lane of an entry without a key.       *)
LEMMA LanesApart ==
    ASSUME NEW es, NEW cs, NEW ls, NEW jb, NEW nd, Sound(es, cs, ls, jb, nd)
    PROVE  /\ \A l, m \in Lane : l # m => Members(ls[l]) \cap Members(ls[m]) = {}
           /\ \A e \in Entry : ls[e] # <<>> => es[e].key # NoKey
<1>1. \A l \in Lane : \A c \in Members(ls[l]) : jb[c] = l /\ c \in Conns
  BY LaneMembers DEF Sound, Typed, Placed
<1>2. ASSUME NEW e \in Entry, ls[e] # <<>> PROVE es[e].key # NoKey
  <2>1. Head(ls[e]) \in Members(ls[e]) /\ e \in Lane
    BY <1>2, LaneMembers DEF Sound, Typed, Lane
  <2>2. jb[Head(ls[e])] = e /\ Head(ls[e]) \in Conns
    BY <1>1, <2>1
  <2>3. es[e].key = nd[Head(ls[e])] /\ nd[Head(ls[e])] # NoKey
    BY <2>2, KdfNames DEF Sound, Placed, Lane
  <2> QED
    BY <2>3
<1> QED
  BY <1>1, <1>2

(* Kdf::step: an entry with a lane computes a slice, or its last one.      *)
LEMMA Ticks ==
    ASSUME NEW es, NEW cs, NEW ls, NEW jb, NEW nd, Sound(es, cs, ls, jb, nd),
           NEW e \in Entry, ls[e] # <<>>, NEW n \in Nat, n < es[e].left
    PROVE  Sound([es EXCEPT ![e].left = n], cs, ls, jb, nd)
<1> DEFINE fs == [es EXCEPT ![e].left = n]
<1>0. Typed(es, cs, ls, jb, nd) /\ Placed(es, ls, jb, nd) /\ Shelved(es, cs, ls)
      /\ Cardinality(Running(es)) <= Lanes
  BY DEF Sound
<1>1. /\ fs \in [Entry -> [key : Keys \cup {NoKey}, left : Nat]]
      /\ \A f \in Entry : fs[f].key = es[f].key
      /\ \A f \in Entry \ {e} : fs[f] = es[f]
      /\ fs[e].left = n /\ es[e].left > 0
  BY <1>0 DEF Typed
<1> HIDE DEF fs
<1>2. Typed(fs, cs, ls, jb, nd)
  BY <1>0, <1>1 DEF Typed
<1>3. Placed(fs, ls, jb, nd)
  BY <1>0, <1>1 DEF Placed
<1>4. es[e].key # NoKey
  BY LanesApart
<1>5. Shelved(fs, cs, ls)
  <2>1. \A p \in Place : cs[p] # Nowhere => cs[p] \in Entry \ {e}
    BY <1>0 DEF Shelved, Typed
  <2> QED
    BY <1>0, <1>1, <1>4, <2>1 DEF Shelved
<1>6. Running(fs) \subseteq Running(es) /\ Running(es) \subseteq Entry
  BY <1>0, <1>1 DEF Running, Typed
<1>7. Cardinality(Running(fs)) <= Lanes
  BY <1>0, <1>6, RunningShrinks
<1> QED
  BY <1>2, <1>3, <1>5, <1>7 DEF Sound, fs

(* The entry e that Coordinator::select has for c, with the entries and    *)
(* the cache it leaves: it computes this key, or is started for it, free   *)
(* or taken out of the cache.                                              *)
Chosen(es, cs, nd, c, e, fs, ds) ==
    \/ fs = es /\ ds = cs /\ es[e].key = nd[c] /\ es[e].left > 0
    \/ /\ fs = [es EXCEPT ![e] = Fresh(nd[c])]
       /\ Cardinality(Running(es)) < Lanes
       /\ \/ es[e].key = NoKey /\ ds = cs
          \/ \E p \in Place : cs[p] = e /\ ds = [cs EXCEPT ![p] = Nowhere]

LEMMA Joins ==
    ASSUME NEW es, NEW cs, NEW ls, NEW jb, NEW nd, Sound(es, cs, ls, jb, nd),
           NEW c \in Conns, jb[c] = Wait, NEW e \in Entry, NEW fs, NEW ds,
           Chosen(es, cs, nd, c, e, fs, ds)
    PROVE  /\ Sound(fs, ds, [Leaves(ls, Wait, c) EXCEPT ![e] = Append(@, c)], [jb EXCEPT ![c] = e], nd)
           /\ fs[e].left > 0 /\ fs[e].key = nd[c]
<1> DEFINE ms == [Leaves(ls, Wait, c) EXCEPT ![e] = Append(@, c)]
           jc == [jb EXCEPT ![c] = e]
<1>0. Typed(es, cs, ls, jb, nd) /\ Placed(es, ls, jb, nd) /\ Shelved(es, cs, ls)
      /\ Cardinality(Running(es)) <= Lanes
  BY DEF Sound
<1>e. e \in Lane /\ Wait \in Lane /\ e # Wait /\ Entry \subseteq Lane
  BY KdfNames DEF Lane
<1>n. nd[c] \in Keys /\ nd[c] # NoKey
  BY <1>0, KdfNames DEF Typed, Placed, Lane
<1>1. c \notin Members(ls[e])
  BY <1>0, <1>e DEF Placed
<1>t. ls[e] \in Seq(Conns) /\ ls[Wait] \in Seq(Conns) /\ NoTwice(ls[e]) /\ NoTwice(ls[Wait])
  BY <1>0, <1>e DEF Typed, Placed
<1>2. /\ ms \in [Lane -> Seq(Conns)]
      /\ ms[e] = Append(ls[e], c) /\ ms[Wait] = Without(ls[Wait], c)
      /\ \A l \in Lane \ {e, Wait} : ms[l] = ls[l]
  <2>1. Append(ls[e], c) \in Seq(Conns) /\ Without(ls[Wait], c) \in Seq(Conns)
    BY <1>1, <1>t, JoinsLane, LeavesLane
  <2> DEFINE lw == Leaves(ls, Wait, c)
  <2>2. /\ lw \in [Lane -> Seq(Conns)] /\ lw[Wait] = Without(ls[Wait], c)
        /\ \A l \in Lane \ {Wait} : lw[l] = ls[l]
    BY <1>0, <1>e, <2>1 DEF Typed, Leaves
  <2>3. ms = [lw EXCEPT ![e] = Append(lw[e], c)]
    OBVIOUS
  <2> HIDE DEF lw, ms
  <2>4. lw[e] = ls[e]
    BY <1>e, <2>2
  <2> QED
    BY <1>e, <2>1, <2>2, <2>3, <2>4
<1>3. /\ jc \in [Conns -> Lane \cup {Nowhere}] /\ jc[c] = e
      /\ \A d \in Conns \ {c} : jc[d] = jb[d]
  BY <1>0, <1>e DEF Typed
<1> HIDE DEF ms, jc
<1>4. /\ \A l \in Lane : NoTwice(ms[l])
      /\ Members(ms[e]) = Members(ls[e]) \cup {c} /\ ms[e] # <<>>
      /\ Members(ms[Wait]) = Members(ls[Wait]) \ {c}
      /\ \A l \in Lane \ {e, Wait} : Members(ms[l]) = Members(ls[l])
  <2>1. NoTwice(ms[e]) /\ Members(ms[e]) = Members(ls[e]) \cup {c} /\ ms[e] # <<>>
    BY <1>1, <1>2, <1>t, JoinsLane
  <2>2. NoTwice(ms[Wait]) /\ Members(ms[Wait]) = Members(ls[Wait]) \ {c}
    BY <1>2, <1>t, LeavesLane
  <2> QED
    BY <1>0, <1>2, <1>e, <2>1, <2>2 DEF Placed
<1>5. /\ fs \in [Entry -> [key : Keys \cup {NoKey}, left : Nat]]
      /\ fs[e].key = nd[c] /\ fs[e].left > 0
      /\ \A f \in Entry \ {e} : fs[f] = es[f]
  BY <1>0, <1>n, KdfNames DEF Chosen, Fresh, Typed
<1>6. /\ ds \in [Place -> Entry \cup {Nowhere}]
      /\ \A p \in Place : ds[p] = IF cs[p] = e THEN Nowhere ELSE cs[p]
      /\ Cardinality(Running(fs)) <= Lanes
      /\ es[e].key # nd[c] => ls[e] = <<>>
  <2>1. CASE fs = es /\ ds = cs /\ es[e].key = nd[c] /\ es[e].left > 0
    BY <1>0, <2>1 DEF Typed, Shelved
  <2>2. CASE /\ fs = [es EXCEPT ![e] = Fresh(nd[c])]
             /\ Cardinality(Running(es)) < Lanes
             /\ \/ es[e].key = NoKey /\ ds = cs
                \/ \E p \in Place : cs[p] = e /\ ds = [cs EXCEPT ![p] = Nowhere]
    <3>1. /\ ds \in [Place -> Entry \cup {Nowhere}]
          /\ \A p \in Place : ds[p] = IF cs[p] = e THEN Nowhere ELSE cs[p]
      BY <1>0, <2>2, KdfNames DEF Typed, Shelved, Lane
    <3>2. ls[e] = <<>>
      <4>1. CASE es[e].key = NoKey
        BY <4>1, LanesApart
      <4>2. CASE \E p \in Place : cs[p] = e
        BY <1>0, <4>2, KdfNames DEF Shelved, Lane
      <4> QED
        BY <2>2, <4>1, <4>2
    <3>3. Running(fs) = Running(es) \cup {e}
      BY <1>5 DEF Running
    <3>4. IsFiniteSet(Running(es))
      BY KdfNames, FS_Subset DEF Running
    <3>5. Cardinality(Running(fs)) \in {Cardinality(Running(es)), Cardinality(Running(es)) + 1}
      BY <3>3, <3>4, FS_AddElement
    <3>6. Cardinality(Running(es)) \in Nat
      BY <3>4, FS_CardinalityType
    <3>7. Cardinality(Running(fs)) <= Lanes
      BY <2>2, <3>5, <3>6, KdfNames
    <3> QED
      BY <3>1, <3>2, <3>7
  <2> QED
    BY <2>1, <2>2 DEF Chosen
<1>7. Typed(fs, ds, ms, jc, nd)
  BY <1>0, <1>2, <1>3, <1>5, <1>6 DEF Typed
<1>8. Placed(fs, ms, jc, nd)
  <2>1. ASSUME NEW l \in Lane, NEW d \in Members(ms[l]) PROVE jc[d] = l
    <3>0. d \in Conns
      BY <1>2, LaneMembers
    <3>1. CASE d = c
      <4>1. l # Wait
        BY <1>4, <3>1
      <4>2. \A m \in Lane : c \in Members(ls[m]) => m = Wait
        BY <1>0 DEF Placed
      <4> QED
        BY <1>3, <1>4, <3>1, <4>1, <4>2
    <3>2. CASE d # c
      <4>1. d \in Members(ls[l])
        BY <1>4, <3>2
      <4> QED
        BY <1>0, <1>3, <3>0, <3>2, <4>1 DEF Placed
    <3> QED
      BY <3>1, <3>2
  <2>2. ASSUME NEW d \in Conns, jc[d] \in Entry PROVE d \in Members(ms[jc[d]]) /\ fs[jc[d]].key = nd[d]
    <3>1. CASE d = c
      BY <1>3, <1>4, <1>5, <3>1
    <3>2. CASE d # c
      <4>1. jb[d] = jc[d] /\ d \in Members(ls[jb[d]]) /\ es[jb[d]].key = nd[d]
        BY <1>0, <1>3, <2>2, <3>2 DEF Placed
      <4>2. d \in Members(ms[jb[d]])
        BY <1>4, <1>e, <2>2, <3>2, <4>1, KdfNames
      <4>3. jb[d] = e => ls[e] # <<>>
        BY <1>0, <1>e, <4>1, LaneMembers DEF Typed
      <4> QED
        BY <1>5, <1>6, <2>2, <4>1, <4>2, <4>3
    <3> QED
      BY <3>1, <3>2
  <2>3. \A d \in Conns : jc[d] = Nowhere <=> nd[d] = NoKey
    BY <1>0, <1>3, <1>e, <1>n, KdfNames DEF Placed
  <2> QED
    BY <1>4, <2>1, <2>2, <2>3 DEF Placed
<1>9. Shelved(fs, ds, ms)
  <2>1. ASSUME NEW p \in Place, ds[p] # Nowhere
        PROVE  /\ ds[p] = cs[p] /\ ds[p] \in Entry \ {e}
               /\ fs[ds[p]].key # NoKey /\ fs[ds[p]].left = 0 /\ ms[ds[p]] = <<>>
    <3>1. ds[p] = cs[p] /\ ds[p] # e /\ ds[p] \in Entry
      BY <1>6, <2>1
    <3>2. ds[p] \in Lane \ {e, Wait} /\ ds[p] \in Entry \ {e}
      BY <1>e, <3>1, KdfNames
    <3>3. fs[ds[p]] = es[cs[p]] /\ ms[ds[p]] = ls[cs[p]]
      BY <1>2, <1>5, <3>1, <3>2
    <3> QED
      BY <1>0, <2>1, <3>1, <3>2, <3>3 DEF Shelved
  <2>2. \A p, r \in Place : ds[p] = ds[r] /\ ds[p] # Nowhere => p = r
    BY <1>0, <2>1 DEF Shelved
  <2>3. ASSUME NEW f \in Entry, fs[f].key # NoKey PROVE ms[f] # <<>> \/ \E p \in Place : ds[p] = f
    <3>1. CASE f = e
      BY <1>4, <3>1
    <3>2. CASE f # e
      <4>1. f \in Lane \ {e, Wait} /\ f \in Entry \ {e}
        BY <1>e, <3>2, KdfNames
      <4>2. fs[f] = es[f] /\ ms[f] = ls[f]
        BY <1>2, <1>5, <4>1
      <4>3. ls[f] # <<>> \/ \E p \in Place : cs[p] = f
        BY <1>0, <2>3, <4>2 DEF Shelved
      <4> QED
        BY <1>6, <3>2, <4>2, <4>3
    <3> QED
      BY <3>1, <3>2
  <2>4. \A f \in Entry : fs[f].key = NoKey => fs[f].left = 0
    BY <1>0, <1>5, <1>n DEF Shelved
  <2> QED
    BY <2>1, <2>2, <2>3, <2>4 DEF Shelved
<1> QED
  BY <1>5, <1>6, <1>7, <1>8, <1>9 DEF Sound, ms, jc

(* Ticket::release: c leaves its lane, an entry left alone is freed, or    *)
(* cached if it is finished, and the one it displaces is freed.            *)
Released(at, es, cs, after, fs, ds) ==
    \/ /\ at # Wait /\ after[at] = <<>> /\ es[at].left = 0
       /\ \E p \in Place :
             /\ ds = [cs EXCEPT ![p] = at]
             /\ fs = IF cs[p] = Nowhere THEN es ELSE [es EXCEPT ![cs[p]] = Vacant]
    \/ /\ at # Wait /\ after[at] = <<>> /\ es[at].left # 0
       /\ ds = cs /\ fs = [es EXCEPT ![at] = Vacant]
    \/ (at = Wait \/ after[at] # <<>>) /\ ds = cs /\ fs = es

(* What leaving does to the lane, and to the others.                       *)
LEMMA LaneRest ==
    ASSUME NEW ls \in [Lane -> Seq(Conns)], NEW c \in Conns, NEW at \in Lane, NoTwice(ls[at])
    PROVE  Leaves(ls, at, c) \in [Lane -> Seq(Conns)] /\ NoTwice(Leaves(ls, at, c)[at])
<1>1. ls[at] \in Seq(Conns)
  OBVIOUS
<1>2. Without(ls[at], c) \in Seq(Conns) /\ NoTwice(Without(ls[at], c))
  BY <1>1, LeavesLane
<1>3. Leaves(ls, at, c) \in [Lane -> Seq(Conns)] /\ Leaves(ls, at, c)[at] = Without(ls[at], c)
  BY <1>2 DEF Leaves
<1> QED
  BY <1>2, <1>3

LEMMA LaneMembersRest ==
    ASSUME NEW ls \in [Lane -> Seq(Conns)], NEW c \in Conns, NEW at \in Lane, NoTwice(ls[at])
    PROVE  Members(Leaves(ls, at, c)[at]) = Members(ls[at]) \ {c}
<1>1. ls[at] \in Seq(Conns)
  OBVIOUS
<1>2. Members(Without(ls[at], c)) = Members(ls[at]) \ {c}
  BY <1>1, LeavesLane
<1>3. Leaves(ls, at, c)[at] = Without(ls[at], c)
  BY DEF Leaves
<1> QED
  BY <1>2, <1>3

LEMMA LaneHead ==
    ASSUME NEW ls \in [Lane -> Seq(Conns)], NEW c \in Conns, NEW at \in Lane, NoTwice(ls[at]),
           ls[at] # <<>>, Head(ls[at]) # c
    PROVE  Leaves(ls, at, c)[at] # <<>> /\ Head(Leaves(ls, at, c)[at]) = Head(ls[at])
<1>1. ls[at] \in Seq(Conns)
  OBVIOUS
<1>2. Without(ls[at], c) # <<>> /\ Head(Without(ls[at], c)) = Head(ls[at])
  BY <1>1, LeavesLane
<1>3. Leaves(ls, at, c)[at] = Without(ls[at], c)
  BY DEF Leaves
<1> QED
  BY <1>2, <1>3

LEMMA LanesElse ==
    ASSUME NEW ls \in [Lane -> Seq(Conns)], NEW c, NEW at \in Lane, NEW l \in Lane \ {at}
    PROVE  Leaves(ls, at, c)[l] = ls[l]
  BY DEF Leaves

LEMMA LeaveSound ==
    ASSUME NEW es, NEW cs, NEW ls, NEW jb, NEW nd, Sound(es, cs, ls, jb, nd),
           NEW c \in Conns, jb[c] # Nowhere, NEW fs, NEW ds,
           Released(jb[c], es, cs, Leaves(ls, jb[c], c), fs, ds)
    PROVE  Sound(fs, ds, Leaves(ls, jb[c], c), [jb EXCEPT ![c] = Nowhere], [nd EXCEPT ![c] = NoKey])
<1> DEFINE at == jb[c]
           ms == Leaves(ls, at, c)
           jc == [jb EXCEPT ![c] = Nowhere]
           nc == [nd EXCEPT ![c] = NoKey]
<1>0. Typed(es, cs, ls, jb, nd) /\ Placed(es, ls, jb, nd) /\ Shelved(es, cs, ls)
      /\ Cardinality(Running(es)) <= Lanes
  BY DEF Sound
<1>e. at \in Lane /\ (at # Wait => at \in Entry) /\ Entry \subseteq Lane
  BY <1>0 DEF Typed, Lane
<1>1. /\ ms \in [Lane -> Seq(Conns)] /\ \A l \in Lane : NoTwice(ms[l])
      /\ \A l \in Lane \ {at} : ms[l] = ls[l]
      /\ Members(ms[at]) = Members(ls[at]) \ {c}
  <2>1. ls \in [Lane -> Seq(Conns)] /\ \A l \in Lane : NoTwice(ls[l])
    BY <1>0 DEF Typed, Placed
  <2>2. ms = Leaves(ls, at, c)
    OBVIOUS
  <2> HIDE DEF at, ms
  <2>3. /\ ms \in [Lane -> Seq(Conns)] /\ NoTwice(ms[at])
        /\ Members(ms[at]) = Members(ls[at]) \ {c}
    BY <1>e, <2>1, <2>2, LaneRest, LaneMembersRest
  <2>4. \A l \in Lane \ {at} : ms[l] = ls[l]
    BY <1>e, <2>1, <2>2, LanesElse
  <2> QED
    BY <2>1, <2>3, <2>4
<1>2. /\ jc \in [Conns -> Lane \cup {Nowhere}] /\ jc[c] = Nowhere
      /\ \A d \in Conns \ {c} : jc[d] = jb[d]
      /\ nc \in [Conns -> Keys \cup {NoKey}] /\ nc[c] = NoKey
      /\ \A d \in Conns \ {c} : nc[d] = nd[d]
  BY <1>0 DEF Typed
<1>r. Released(at, es, cs, ms, fs, ds)
  OBVIOUS
<1>a. at # Wait => /\ at \in Entry /\ c \in Members(ls[at]) /\ ls[at] # <<>>
                   /\ es[at].key = nd[c] /\ es[at].key # NoKey
                   /\ \A p \in Place : cs[p] # at
  <2> SUFFICES ASSUME at # Wait PROVE /\ at \in Entry /\ c \in Members(ls[at]) /\ ls[at] # <<>>
                   /\ es[at].key = nd[c] /\ es[at].key # NoKey
                   /\ \A p \in Place : cs[p] # at
    OBVIOUS
  <2>1. at \in Entry /\ c \in Members(ls[at]) /\ es[at].key = nd[c] /\ nd[c] # NoKey
    BY <1>0, <1>e DEF Placed
  <2>2. ls[at] # <<>>
    BY <1>0, <1>e, <2>1, LaneMembers DEF Typed
  <2>3. \A p \in Place : cs[p] # at
    BY <1>0, <1>e, <2>1, <2>2, KdfNames DEF Shelved
  <2> QED
    BY <2>1, <2>2, <2>3
<1>o. \A d \in Conns \ {c} : \A l \in Lane : d \in Members(ls[l]) => d \in Members(ms[l])
  BY <1>1
<1> HIDE DEF at, ms, jc, nc
<1>v. Vacant \in [key : Keys \cup {NoKey}, left : Nat] /\ Vacant.key = NoKey /\ Vacant.left = 0
  BY DEF Vacant
<1>3. /\ fs \in [Entry -> [key : Keys \cup {NoKey}, left : Nat]]
      /\ ds \in [Place -> Entry \cup {Nowhere}]
      /\ \A f \in Entry : fs[f] = es[f] \/ (fs[f] = Vacant /\ ms[f] = <<>>)
  <2>1. CASE /\ at # Wait /\ ms[at] = <<>> /\ es[at].left = 0
             /\ \E p \in Place : /\ ds = [cs EXCEPT ![p] = at]
                                 /\ fs = IF cs[p] = Nowhere THEN es ELSE [es EXCEPT ![cs[p]] = Vacant]
    <3>1. PICK p \in Place : /\ ds = [cs EXCEPT ![p] = at]
                             /\ fs = IF cs[p] = Nowhere THEN es ELSE [es EXCEPT ![cs[p]] = Vacant]
      BY <2>1
    <3>2. ds \in [Place -> Entry \cup {Nowhere}]
      BY <1>0, <1>a, <2>1, <3>1 DEF Typed
    <3>3. CASE cs[p] = Nowhere
      BY <1>0, <3>1, <3>2, <3>3 DEF Typed
    <3>4. CASE cs[p] # Nowhere
      <4>1. cs[p] \in Entry /\ ls[cs[p]] = <<>> /\ cs[p] # at
        BY <1>0, <1>a, <2>1, <3>4 DEF Typed, Shelved
      <4>2. ms[cs[p]] = <<>>
        BY <1>1, <1>e, <4>1
      <4>3. fs = [es EXCEPT ![cs[p]] = Vacant]
        BY <3>1, <3>4
      <4> QED
        BY <1>0, <1>v, <3>2, <4>1, <4>2, <4>3 DEF Typed
    <3> QED
      BY <3>3, <3>4
  <2>2. CASE /\ at # Wait /\ ms[at] = <<>> /\ ds = cs /\ fs = [es EXCEPT ![at] = Vacant]
    BY <1>0, <1>a, <1>v, <2>2 DEF Typed
  <2>3. CASE ds = cs /\ fs = es
    BY <1>0, <2>3 DEF Typed
  <2> QED
    BY <1>r, <2>1, <2>2, <2>3 DEF Released
<1>4. Typed(fs, ds, ms, jc, nc)
  BY <1>1, <1>2, <1>3 DEF Typed
<1>5. Placed(fs, ms, jc, nc)
  <2>1. ASSUME NEW l \in Lane, NEW d \in Members(ms[l]) PROVE jc[d] = l
    <3>0. d \in Members(ls[l])
      BY <1>1
    <3>1. jb[d] = l /\ d \in Conns
      BY <1>0, <1>e, <3>0, LaneMembers DEF Placed, Typed
    <3>2. d # c
      BY <1>1, <3>1 DEF at
    <3> QED
      BY <1>2, <3>1, <3>2
  <2>2. ASSUME NEW d \in Conns, jc[d] \in Entry PROVE d \in Members(ms[jc[d]]) /\ fs[jc[d]].key = nc[d]
    <3>1. d # c
      BY <1>2, <2>2, KdfNames DEF Lane
    <3>2. jc[d] = jb[d] /\ nc[d] = nd[d] /\ d \in Members(ls[jb[d]]) /\ es[jb[d]].key = nd[d]
      BY <1>0, <1>2, <2>2, <3>1 DEF Placed
    <3>3. d \in Members(ms[jb[d]])
      BY <1>e, <1>o, <2>2, <3>1, <3>2
    <3>4. ms[jb[d]] # <<>>
      BY <1>1, <1>e, <2>2, <3>2, <3>3, LaneMembers
    <3> QED
      BY <1>3, <2>2, <3>2, <3>3, <3>4
  <2>3. \A d \in Conns : jc[d] = Nowhere <=> nc[d] = NoKey
    BY <1>0, <1>2 DEF Placed
  <2> QED
    BY <1>1, <2>1, <2>2, <2>3 DEF Placed
<1>6. Shelved(fs, ds, ms)
  <2>1. CASE /\ at # Wait /\ ms[at] = <<>> /\ es[at].left = 0
             /\ \E p \in Place : /\ ds = [cs EXCEPT ![p] = at]
                                 /\ fs = IF cs[p] = Nowhere THEN es ELSE [es EXCEPT ![cs[p]] = Vacant]
    <3>1. PICK p \in Place : /\ ds = [cs EXCEPT ![p] = at]
                             /\ fs = IF cs[p] = Nowhere THEN es ELSE [es EXCEPT ![cs[p]] = Vacant]
      BY <2>1
    <3>2. ds[p] = at /\ \A r \in Place \ {p} : ds[r] = cs[r]
      BY <1>0, <3>1 DEF Typed
    <3>3. /\ \A f \in Entry : f # cs[p] => fs[f] = es[f]
          /\ cs[p] # Nowhere => fs[cs[p]] = Vacant
      BY <1>0, <3>1 DEF Typed
    <3>4. ASSUME NEW r \in Place \ {p}, cs[r] # Nowhere
          PROVE /\ cs[r] \in Entry /\ cs[r] # at /\ cs[r] # cs[p]
                /\ fs[cs[r]] = es[cs[r]] /\ ms[cs[r]] = <<>>
      <4>1. cs[r] \in Entry /\ cs[r] # at /\ cs[r] # cs[p] /\ ls[cs[r]] = <<>>
        BY <1>0, <1>a, <2>1, <3>4 DEF Typed, Shelved
      <4> QED
        BY <1>1, <1>e, <3>3, <4>1
    <3>5. fs[at] = es[at]
      BY <1>a, <2>1, <3>3
    <3>6. ASSUME NEW r \in Place, ds[r] # Nowhere
          PROVE fs[ds[r]].key # NoKey /\ fs[ds[r]].left = 0 /\ ms[ds[r]] = <<>>
      <4>1. CASE r = p
        BY <1>a, <2>1, <3>2, <3>5, <4>1
      <4>2. CASE r # p
        BY <1>0, <3>2, <3>4, <3>6, <4>2 DEF Shelved
      <4> QED
        BY <4>1, <4>2
    <3>7. \A r, q \in Place : ds[r] = ds[q] /\ ds[r] # Nowhere => r = q
      BY <1>0, <1>a, <2>1, <3>2 DEF Shelved
    <3>8. ASSUME NEW f \in Entry, fs[f].key # NoKey PROVE ms[f] # <<>> \/ \E r \in Place : ds[r] = f
      <4>1. CASE f = at
        BY <3>2, <4>1
      <4>2. CASE f # at
        <5>1. f # cs[p] /\ fs[f] = es[f] /\ ms[f] = ls[f]
          BY <1>1, <1>e, <1>v, <3>3, <3>8, <4>2, KdfNames DEF Lane
        <5>2. ls[f] # <<>> \/ \E r \in Place : cs[r] = f
          BY <1>0, <3>8, <5>1 DEF Shelved
        <5> QED
          BY <3>2, <5>1, <5>2
      <4> QED
        BY <4>1, <4>2
    <3>9. \A f \in Entry : fs[f].key = NoKey => fs[f].left = 0
      BY <1>0, <1>3, <1>v DEF Shelved
    <3> QED
      BY <3>6, <3>7, <3>8, <3>9 DEF Shelved
  <2>2. CASE ds = cs /\ \A f \in Entry : fs[f] = es[f] \/ (f = at /\ fs[f] = Vacant)
    <3>1. ASSUME NEW r \in Place, cs[r] # Nowhere
          PROVE fs[cs[r]].key # NoKey /\ fs[cs[r]].left = 0 /\ ms[cs[r]] = <<>>
      <4>1. cs[r] \in Entry /\ ls[cs[r]] = <<>> /\ es[cs[r]].key # NoKey /\ es[cs[r]].left = 0
        BY <1>0, <3>1 DEF Typed, Shelved
      <4>2. cs[r] # at
        BY <1>a, <4>1, KdfNames
      <4> QED
        BY <1>1, <1>e, <2>2, <4>1, <4>2
    <3>2. ASSUME NEW f \in Entry, fs[f].key # NoKey PROVE ms[f] # <<>> \/ \E r \in Place : ds[r] = f
      <4>1. fs[f] = es[f]
        BY <1>v, <2>2, <3>2
      <4>2. CASE f # at
        <5>1. ls[f] # <<>> \/ \E r \in Place : cs[r] = f
          BY <1>0, <3>2, <4>1 DEF Shelved
        <5> QED
          BY <1>1, <1>e, <2>2, <4>2, <5>1
      <4>3. CASE f = at
        <5>1. at # Wait
          BY <4>3, KdfNames
        <5>2. ms[at] # <<>> \/ fs[at] # es[at] \/ \E r \in Place : ds[r] = at
          <6>1. CASE ms[at] = <<>> /\ es[at].left # 0
            <7>1. fs[at] = Vacant
              BY <1>0, <1>a, <1>r, <5>1, <6>1 DEF Released, Typed
            <7> QED
              BY <1>v, <7>1, <6>1
          <6>2. CASE ms[at] = <<>> /\ es[at].left = 0
            BY <1>0, <1>a, <1>r, <5>1, <6>2 DEF Released, Typed
          <6> QED
            BY <6>1, <6>2
        <5> QED
          BY <4>1, <4>3, <5>2
      <4> QED
        BY <4>2, <4>3
    <3>3. \A f \in Entry : fs[f].key = NoKey => fs[f].left = 0
      BY <1>0, <1>3, <1>v DEF Shelved
    <3> QED
      BY <1>0, <2>2, <3>1, <3>2, <3>3 DEF Shelved
  <2>3. CASE at # Wait /\ ds = cs /\ fs = [es EXCEPT ![at] = Vacant]
    <3>1. \A f \in Entry : fs[f] = es[f] \/ (f = at /\ fs[f] = Vacant)
      BY <1>0, <1>a, <2>3 DEF Typed
    <3> QED
      BY <2>2, <2>3, <3>1
  <2> QED
    BY <1>r, <2>1, <2>2, <2>3 DEF Released
<1>7. Cardinality(Running(fs)) <= Lanes
  <2>1. Running(fs) \subseteq Running(es) /\ Running(es) \subseteq Entry
    BY <1>3, <1>v DEF Running
  <2> QED
    BY <1>0, <2>1, RunningShrinks
<1> QED
  BY <1>4, <1>5, <1>6, <1>7 DEF Sound, at, ms, jc, nc

-----------------------------------------------------------------------------
(* Coordinator::select *)

(* A set of numbers has a least one, a set of entries a highest one.      *)
LEMMA LeastNatural ==
    ASSUME NEW T, T \subseteq Nat, T # {}
    PROVE  \E x \in T : \A y \in T : x <= y
<1> DEFINE R == OpToRel(<, Nat)
<1>1. \A x, y \in Nat : <<y, x>> \in R <=> y < x
  BY DEF OpToRel
<1>2. IsWellFoundedOn(R, Nat)
  BY NatLessThanWellFounded
<1> HIDE DEF R
<1>3. PICK x \in T : \A y \in T : ~ (<<y, x>> \in R)
  BY <1>2, WFMin
<1>4. \A y \in T : y \in Nat /\ x \in Nat /\ ~ (y < x)
  BY <1>1, <1>3, Zenon
<1>5. \A y \in T : x <= y
  BY <1>4
<1> QED
  BY <1>5

LEMMA HighestEntry ==
    ASSUME NEW T \in SUBSET Entry, T # {}
    PROVE  \E e \in T : \A f \in T : f <= e
<1> DEFINE N == Lanes + Caches - 1
           D == {N - e : e \in T}
<1>1. N \in Nat /\ \A e \in T : e \in Nat /\ N - e \in Nat
  BY KdfAssumption DEF Entry
<1> HIDE DEF N
<1>2. D \subseteq Nat /\ D # {}
  BY <1>1
<1>3. PICK x \in D : \A y \in D : x <= y
  BY <1>2, LeastNatural
<1>4. PICK e \in T : x = N - e
  BY <1>3
<1>5. \A f \in T : f <= e
  <2> TAKE f \in T
  <2>1. N - e <= N - f
    BY <1>3, <1>4
  <2> QED
    BY <1>1, <2>1
<1> QED
  BY <1>5

(* The places of the cache that may be given up are taken ones. *)
LEMMA Victims ==
    ASSUME second \in Place, NEW p \in VictimPlaces
    PROVE  p \in Place /\ cached[p] # Nowhere
<1> DEFINE order == [i \in 0 .. Caches - 1 |-> (second + i) % Caches]
           taken == {i \in DOMAIN order : cached[order[i]] # Nowhere}
<1>1. PICK i \in taken : p = order[i]
  BY DEF VictimPlaces
<1>2. i \in 0 .. Caches - 1 /\ p = (second + i) % Caches /\ cached[p] # Nowhere
  BY <1>1
<1>3. second + i \in Nat /\ Caches \in Nat /\ Caches > 0
  BY <1>2, KdfAssumption DEF Place
<1>4. \A n \in Nat : n % Caches \in 0 .. Caches - 1
  BY <1>3
<1> QED
  BY <1>2, <1>3, <1>4 DEF Place

(* The three outcomes of a selection. *)
SelectsNone(c) ==
    /\ Select(c).entry = Nowhere
    /\ \A e \in Entry : entries[e].key # need[c]
    /\ ~Admitted(c) \/ Cardinality(Busy) = Lanes \/ (Free = {} /\ VictimPlaces = {})
SelectsHeld(c) ==
    /\ Select(c).entry \in Entry /\ Select(c).es = entries /\ Select(c).cs = cached
    /\ entries[Select(c).entry].key = need[c]
SelectsNew(c) ==
    /\ Select(c).entry \in Entry /\ Admitted(c) /\ Cardinality(Busy) # Lanes
    /\ Select(c).es = [entries EXCEPT ![Select(c).entry] = Fresh(need[c])]
    /\ \/ entries[Select(c).entry].key = NoKey /\ Select(c).cs = cached
       \/ \E p \in Place : /\ cached[p] = Select(c).entry
                           /\ Select(c).cs = [cached EXCEPT ![p] = Nowhere]

LEMMA Selection ==
    ASSUME Typed(entries, cached, lanes, job, need), second \in Place, NEW c \in Conns
    PROVE  SelectsNone(c) \/ SelectsHeld(c) \/ SelectsNew(c)
<1> DEFINE k == need[c]
           found == IF Holding(k) \cap InCache # {} THEN Holding(k) \cap InCache ELSE Holding(k)
           blocked == ~Admitted(c) \/ Cardinality(Busy) = Lanes \/ (Free = {} /\ VictimPlaces = {})
           held == CHOOSE e \in found : TRUE
           place == CHOOSE p \in VictimPlaces : TRUE
           fresh(e) == [entries EXCEPT ![e] = Fresh(k)]
<1>f. found \subseteq Holding(k) /\ (found = {} => Holding(k) = {})
  OBVIOUS
<1>1. CASE found # {}
  <2>1. Select(c) = [entry |-> held, es |-> entries, cs |-> cached]
    BY <1>1 DEF Select
  <2>2. held \in found
    BY <1>1
  <2>3. held \in Entry /\ entries[held].key = need[c]
    BY <1>f, <2>2 DEF Holding
  <2> QED
    BY <2>1, <2>3 DEF SelectsHeld
<1>2. CASE found = {} /\ blocked
  <2>1. Select(c) = [entry |-> Nowhere, es |-> entries, cs |-> cached]
    BY <1>2 DEF Select
  <2>2. \A e \in Entry : entries[e].key # need[c]
    BY <1>2, <1>f DEF Holding
  <2> QED
    BY <1>2, <2>1, <2>2 DEF SelectsNone
<1>3. CASE found = {} /\ ~blocked /\ Free # {}
  <2>1. Select(c) = [entry |-> HighestFree, es |-> fresh(HighestFree), cs |-> cached]
    BY <1>3 DEF Select
  <2>2. Free \in SUBSET Entry
    BY DEF Free
  <2>3. \E e \in Free : \A f \in Free : f <= e
    BY <1>3, <2>2, HighestEntry
  <2>4. HighestFree \in Free
    BY <2>3 DEF HighestFree
  <2>5. HighestFree \in Entry /\ entries[HighestFree].key = NoKey
    BY <2>4 DEF Free, Vacant
  <2> QED
    BY <1>3, <2>1, <2>5 DEF SelectsNew
<1>4. CASE found = {} /\ ~blocked /\ Free = {}
  <2>1. Select(c) = [entry |-> cached[place], es |-> fresh(cached[place]), cs |-> Evicted(place)]
    BY <1>4 DEF Select
  <2>2. place \in VictimPlaces
    BY <1>4
  <2>3. place \in Place /\ cached[place] # Nowhere
    BY <2>2, Victims
  <2>4. cached[place] \in Entry
    BY <2>3 DEF Typed
  <2>5. Evicted(place) = [cached EXCEPT ![place] = Nowhere]
    BY DEF Evicted
  <2> HIDE DEF place
  <2>6. /\ Select(c).entry = cached[place] /\ Select(c).cs = [cached EXCEPT ![place] = Nowhere]
        /\ Select(c).es = [entries EXCEPT ![cached[place]] = Fresh(need[c])]
    BY <2>1, <2>5
  <2> QED
    BY <1>4, <2>3, <2>4, <2>6 DEF SelectsNew
<1> QED
  BY <1>1, <1>2, <1>3, <1>4

KdfInv ==
    /\ Sound(entries, cached, lanes, job, need)
    /\ second \in Place /\ mixed = {}

(* The entries that compute are not in the cache. *)
LEMMA BusyRunning ==
    ASSUME Sound(entries, cached, lanes, job, need)
    PROVE  Busy = Running(entries)
<1>1. Typed(entries, cached, lanes, job, need) /\ Shelved(entries, cached, lanes)
  BY DEF Sound
<1>2. \A e \in Entry : e \in InCache => ~Computing(e)
  BY <1>1 DEF InCache, Computing, Shelved, Typed
<1> QED
  BY <1>2 DEF Busy, Running, Computing

(* A derivation that is joined or started.  *)
LEMMA SelectsChosen ==
    ASSUME KdfInv, NEW c \in Conns, Select(c).entry # Nowhere,
           Select(c).es[Select(c).entry].left > 0
    PROVE  /\ Select(c).entry \in Entry
           /\ Chosen(entries, cached, need, c, Select(c).entry, Select(c).es, Select(c).cs)
<1>1. Sound(entries, cached, lanes, job, need) /\ second \in Place
  BY DEF KdfInv
<1>2. SelectsHeld(c) \/ SelectsNew(c)
  BY <1>1, Selection DEF Sound, SelectsNone
<1>3. CASE SelectsHeld(c)
  BY <1>3 DEF SelectsHeld, Chosen
<1>4. CASE SelectsNew(c)
  <2>1. IsFiniteSet(Running(entries))
    BY KdfNames, FS_Subset DEF Running
  <2>2. Cardinality(Running(entries)) \in Nat
    BY <2>1, FS_CardinalityType
  <2>3. Cardinality(Running(entries)) < Lanes
    BY <1>1, <1>4, <2>2, BusyRunning, KdfNames DEF SelectsNew, Sound
  <2> QED
    BY <1>4, <2>3 DEF SelectsNew, Chosen
<1> QED
  BY <1>2, <1>3, <1>4

-----------------------------------------------------------------------------
(* The steps of the key derivation *)

LEMMA KdfInitial == KdfInit => KdfInv
<1> SUFFICES ASSUME KdfInit PROVE KdfInv
  OBVIOUS
<1>1. <<>> \in Seq(Conns) /\ Members(<<>>) = {} /\ NoTwice(<<>>)
  BY DEF Members, NoTwice
<1>2. Vacant \in [key : Keys \cup {NoKey}, left : Nat] /\ Vacant.key = NoKey /\ Vacant.left = 0
  BY DEF Vacant
<1>3. Typed(entries, cached, lanes, job, need)
  BY <1>1, <1>2 DEF KdfInit, Typed, Lane, Place
<1>4. Placed(entries, lanes, job, need)
  <2>1. /\ \A l \in Lane : lanes[l] = <<>>
        /\ \A c \in Conns : job[c] = Nowhere /\ need[c] = NoKey
    BY DEF KdfInit, Lane
  <2> QED
    BY <1>1, <2>1, KdfNames DEF Placed, Lane
<1>5. Shelved(entries, cached, lanes)
  <2>1. /\ \A p \in Place : cached[p] = Nowhere
        /\ \A e \in Entry : entries[e] = Vacant
    BY DEF KdfInit, Place
  <2> QED
    BY <1>2, <2>1 DEF Shelved
<1>6. Cardinality(Running(entries)) <= Lanes
  <2>1. Running(entries) = {}
    BY <1>2 DEF KdfInit, Running
  <2> QED
    BY <2>1, FS_EmptySet, KdfNames
<1>7. second \in Place /\ mixed = {}
  BY KdfNames DEF KdfInit
<1> QED
  BY <1>3, <1>4, <1>5, <1>6, <1>7 DEF KdfInv, Sound

LEMMA NextPlace == second \in Place => (second + 1) % Caches \in Place
  BY KdfAssumption DEF Place

(* Ticket::release keeps the books, from any state within the poll. *)
LEMMA ReleaseSound ==
    ASSUME NEW es, NEW cs, NEW ls, NEW jb, Sound(es, cs, ls, jb, need), second \in Place,
           NEW c \in Conns, jb[c] # Nowhere, [jb EXCEPT ![c] = Nowhere] = [job EXCEPT ![c] = Nowhere],
           NEW wakes, Release(c, jb[c], es, cs, ls, Leaves(ls, jb[c], c), wakes),
           need' = [need EXCEPT ![c] = NoKey]
    PROVE  Sound(entries', cached', lanes', job', need') /\ second' \in Place
<1> DEFINE at == jb[c]
           after == Leaves(ls, jb[c], c)
<1>1. lanes' = after /\ job' = [jb EXCEPT ![c] = Nowhere]
  BY DEF Release
<1>2. Released(at, es, cs, after, entries', cached') /\ second' \in Place
  <2>1. CASE at # Wait /\ after[at] = <<>> /\ es[at].left = 0
    <3>1. /\ cached' = [cs EXCEPT ![second] = at]
          /\ entries' = IF cs[second] = Nowhere THEN es ELSE [es EXCEPT ![cs[second]] = Vacant]
          /\ second' = (second + 1) % Caches
      BY <2>1 DEF Release, Cached
    <3> HIDE DEF at, after
    <3> QED
      BY <2>1, <3>1, NextPlace DEF Released
  <2>2. CASE ~(at # Wait /\ after[at] = <<>> /\ es[at].left = 0)
    <3>1. /\ entries' = IF at # Wait /\ after[at] = <<>> THEN [es EXCEPT ![at] = Vacant] ELSE es
          /\ cached' = cs /\ second' = second
      BY <2>2 DEF Release
    <3> HIDE DEF at, after
    <3> QED
      BY <2>2, <3>1 DEF Released
  <2> QED
    BY <2>1, <2>2
<1> QED
  BY <1>1, <1>2, LeaveSound

(* A poll in the lane of an entry that computes. *)
LEMMA ComputeSound ==
    ASSUME NEW es, NEW cs, NEW ls, NEW c \in Conns, NEW e \in Entry,
           Sound(es, cs, ls, [job EXCEPT ![c] = e], need), second \in Place, mixed = {},
           c \in DOMAIN job, es[e].left > 0, NEW wakes, Compute(c, e, es, cs, ls, wakes)
    PROVE  KdfInv'
<1> DEFINE jb == [job EXCEPT ![c] = e]
           fs == [es EXCEPT ![e].left = 0]
<1>0. jb[c] = e /\ e # Nowhere /\ e \in Lane /\ [jb EXCEPT ![c] = Nowhere] = [job EXCEPT ![c] = Nowhere]
  BY KdfNames DEF Lane
<1>1. es[e].left \in Nat /\ ls[e] # <<>> /\ es[e].key = need[c]
  <2>1. Typed(es, cs, ls, jb, need) /\ Placed(es, ls, jb, need)
    BY DEF Sound
  <2>2. c \in Members(ls[e]) /\ es[e].key = need[c]
    BY <1>0, <2>1 DEF Placed
  <2> QED
    BY <1>0, <2>1, <2>2, LaneMembers DEF Typed
<1>2. CASE Head(ls[e]) = c /\ es[e].left = 1
  <2>1. Sound(fs, cs, ls, jb, need)
    BY <1>1, Ticks
  <2>2. PICK w : Release(c, e, fs, cs, ls, Leaves(ls, e, c), w)
    BY <1>2 DEF Compute
  <2>3. need' = [need EXCEPT ![c] = NoKey] /\ mixed' = {}
    BY <1>1, <1>2 DEF Compute, Answers
  <2> HIDE DEF fs, jb
  <2>4. Sound(entries', cached', lanes', job', need') /\ second' \in Place
    BY <1>0, <2>1, <2>2, <2>3, ReleaseSound
  <2> QED
    BY <2>3, <2>4 DEF KdfInv
<1>3. CASE ~(Head(ls[e]) = c /\ es[e].left = 1)
  <2>1. /\ entries' = IF Head(ls[e]) = c THEN [es EXCEPT ![e].left = @ - 1] ELSE es
        /\ cached' = cs /\ lanes' = ls /\ job' = jb
        /\ second' = second /\ need' = need /\ mixed' = mixed
    BY <1>3 DEF Compute
  <2>2. Sound(entries', cs, ls, jb, need)
    <3>1. CASE Head(ls[e]) = c
      <4>1. es[e].left - 1 \in Nat /\ es[e].left - 1 < es[e].left
        BY <1>1
      <4>2. entries' = [es EXCEPT ![e].left = es[e].left - 1]
        BY <2>1, <3>1
      <4> QED
        BY <1>1, <4>1, <4>2, Ticks
    <3>2. CASE Head(ls[e]) # c
      BY <2>1, <3>2
    <3> QED
      BY <3>1, <3>2
  <2> QED
    BY <2>1, <2>2 DEF KdfInv
<1> QED
  BY <1>2, <1>3

(* A connection in no lane, or in the waiting queue, has the types that    *)
(* the lemmas ask for.                                                     *)
LEMMA KdfTypes ==
    ASSUME KdfInv
    PROVE  /\ Typed(entries, cached, lanes, job, need) /\ Placed(entries, lanes, job, need)
           /\ Shelved(entries, cached, lanes) /\ second \in Place /\ mixed = {}
           /\ DOMAIN job = Conns
           /\ \A c \in Conns : job[c] \in Entry \/ job[c] = Wait \/ job[c] = Nowhere
  BY DEF KdfInv, Sound, Typed, Lane

LEMMA BeginSound ==
    ASSUME KdfInv, NEW c \in Conns, NEW k \in Keys, BeginDeriving(c, k)
    PROVE  KdfInv'
<1>0. Typed(entries, cached, lanes, job, need) /\ Placed(entries, lanes, job, need)
      /\ Shelved(entries, cached, lanes)
  BY KdfTypes
<1>1. /\ job[c] = Nowhere /\ need[c] = NoKey
      /\ need' = [need EXCEPT ![c] = k] /\ job' = [job EXCEPT ![c] = Wait]
      /\ UNCHANGED <<entries, cached, second, lanes, mixed>>
  BY DEF BeginDeriving
<1>2. /\ job' \in [Conns -> Lane \cup {Nowhere}] /\ need' \in [Conns -> Keys \cup {NoKey}]
      /\ job'[c] = Wait /\ need'[c] = k
      /\ \A d \in Conns \ {c} : job'[d] = job[d] /\ need'[d] = need[d]
  BY <1>0, <1>1 DEF Typed, Lane
<1>3. Typed(entries, cached, lanes, job', need')
  BY <1>0, <1>2 DEF Typed
<1>4. Placed(entries, lanes, job', need')
  <2>1. \A l \in Lane : \A d \in Members(lanes[l]) : job'[d] = l
    <3> SUFFICES ASSUME NEW l \in Lane, NEW d \in Members(lanes[l]) PROVE job'[d] = l
      OBVIOUS
    <3>1. job[d] = l /\ d \in Conns
      BY <1>0, LaneMembers DEF Placed, Typed
    <3>2. d # c
      BY <1>1, <3>1, KdfNames
    <3> QED
      BY <1>2, <3>1, <3>2
  <2>2. ASSUME NEW d \in Conns, job'[d] \in Entry
        PROVE  d \in Members(lanes[job'[d]]) /\ entries[job'[d]].key = need'[d]
    <3>1. d # c
      BY <1>2, <2>2, KdfNames
    <3> QED
      BY <1>0, <1>2, <2>2, <3>1 DEF Placed
  <2>3. \A d \in Conns : job'[d] = Nowhere <=> need'[d] = NoKey
    BY <1>0, <1>2, KdfNames DEF Placed, Lane
  <2> QED
    BY <1>0, <2>1, <2>2, <2>3 DEF Placed
<1> QED
  BY <1>0, <1>1, <1>3, <1>4 DEF KdfInv, Sound

LEMMA WaitSound ==
    ASSUME KdfInv, NEW c \in Conns, PollWaits(c)
    PROVE  KdfInv'
<1>0. Typed(entries, cached, lanes, job, need) /\ Placed(entries, lanes, job, need)
      /\ Shelved(entries, cached, lanes)
  BY KdfTypes
<1>1. job[c] = Wait /\ UNCHANGED <<entries, cached, second, job, need, mixed>>
  BY DEF PollWaits
<1>w. Wait \in Lane /\ lanes[Wait] \in Seq(Conns) /\ NoTwice(lanes[Wait])
  BY <1>0 DEF Typed, Placed, Lane
<1>m. c \in Members(lanes[Wait]) <=> \E i \in DOMAIN lanes[Wait] : lanes[Wait][i] = c
  BY <1>w DEF Members
<1>2. CASE c \in Members(lanes[Wait])
  <2>1. lanes' = lanes
    BY <1>0, <1>2, <1>m, <1>w DEF PollWaits, Typed
  <2> QED
    BY <1>1, <2>1 DEF KdfInv
<1>3. CASE c \notin Members(lanes[Wait])
  <2>1. lanes' = [lanes EXCEPT ![Wait] = Append(lanes[Wait], c)]
    BY <1>3, <1>m DEF PollWaits
  <2>2. /\ Append(lanes[Wait], c) \in Seq(Conns) /\ NoTwice(Append(lanes[Wait], c))
        /\ Members(Append(lanes[Wait], c)) = Members(lanes[Wait]) \cup {c}
    BY <1>3, <1>w, JoinsLane
  <2>3. /\ lanes' \in [Lane -> Seq(Conns)] /\ lanes'[Wait] = Append(lanes[Wait], c)
        /\ \A l \in Lane \ {Wait} : lanes'[l] = lanes[l]
    BY <1>0, <1>w, <2>1, <2>2 DEF Typed
  <2>4. Typed(entries, cached, lanes', job, need)
    BY <1>0, <2>3 DEF Typed
  <2>5. \A e \in Entry : lanes'[e] = lanes[e]
    BY <2>3, KdfNames DEF Lane
  <2>6. Placed(entries, lanes', job, need)
    <3>1. \A l \in Lane : NoTwice(lanes'[l])
      BY <1>0, <2>2, <2>3 DEF Placed
    <3>2. ASSUME NEW l \in Lane, NEW d \in Members(lanes'[l]) PROVE job[d] = l
      <4>1. d \in Members(lanes[l]) \/ (l = Wait /\ d = c)
        BY <2>2, <2>3
      <4> QED
        BY <1>0, <1>1, <4>1 DEF Placed
    <3>3. \A d \in Conns : job[d] \in Entry =>
             d \in Members(lanes'[job[d]]) /\ entries[job[d]].key = need[d]
      BY <1>0, <2>5 DEF Placed
    <3> QED
      BY <1>0, <3>1, <3>2, <3>3 DEF Placed
  <2>7. Shelved(entries, cached, lanes')
    <3>1. \A p \in Place : cached[p] # Nowhere => lanes'[cached[p]] = lanes[cached[p]]
      BY <1>0, <2>5 DEF Typed
    <3> QED
      BY <1>0, <2>5, <3>1 DEF Shelved
  <2> QED
    BY <1>1, <2>4, <2>6, <2>7 DEF KdfInv, Sound
<1> QED
  BY <1>2, <1>3

LEMMA ContinueSound ==
    ASSUME KdfInv, NEW c \in Conns, PollContinues(c)
    PROVE  KdfInv'
<1>0. Typed(entries, cached, lanes, job, need) /\ second \in Place /\ mixed = {} /\ DOMAIN job = Conns
  BY KdfTypes
<1>1. job[c] \in Entry /\ entries[job[c]].left > 0
      /\ Compute(c, job[c], entries, cached, lanes, {})
  BY DEF PollContinues, Computing
<1>2. [job EXCEPT ![c] = job[c]] = job
  BY <1>0 DEF Typed
<1>3. Sound(entries, cached, lanes, [job EXCEPT ![c] = job[c]], need)
  BY <1>2 DEF KdfInv
<1> QED
  BY <1>0, <1>1, <1>3, ComputeSound

LEMMA JoinSound ==
    ASSUME KdfInv, NEW c \in Conns, PollJoins(c)
    PROVE  KdfInv'
<1> DEFINE pick == Select(c)
           queues == [Leaves(lanes, Wait, c) EXCEPT ![pick.entry] = Append(@, c)]
<1>0. /\ Sound(entries, cached, lanes, job, need) /\ second \in Place /\ mixed = {}
      /\ DOMAIN job = Conns
  BY KdfTypes DEF KdfInv
<1>1. job[c] = Wait /\ pick.entry # Nowhere /\ pick.es[pick.entry].left > 0
  BY DEF PollJoins
<1>2. PICK wakes : Compute(c, pick.entry, pick.es, pick.cs, queues, wakes)
  BY DEF PollJoins
<1>3. /\ pick.entry \in Entry
      /\ Chosen(entries, cached, need, c, pick.entry, pick.es, pick.cs)
  BY <1>1, SelectsChosen
<1> HIDE DEF pick
<1>4. Sound(pick.es, pick.cs, queues, [job EXCEPT ![c] = pick.entry], need)
  BY <1>0, <1>1, <1>3, Joins
<1> HIDE DEF queues
<1> QED
  BY <1>0, <1>1, <1>2, <1>3, <1>4, ComputeSound

LEMMA FinishSound ==
    ASSUME KdfInv, NEW c \in Conns, PollFinished(c)
    PROVE  KdfInv'
<1> DEFINE e == IF job[c] = Wait THEN Select(c).entry ELSE job[c]
<1>0. /\ Sound(entries, cached, lanes, job, need) /\ second \in Place /\ mixed = {}
      /\ Typed(entries, cached, lanes, job, need) /\ Placed(entries, lanes, job, need)
      /\ job[c] \in Entry \/ job[c] = Wait \/ job[c] = Nowhere
  BY KdfTypes DEF KdfInv
<1>1. /\ job[c] # Nowhere /\ e # Nowhere
      /\ (IF job[c] = Wait THEN Select(c).es ELSE entries)[e].left = 0
      /\ Release(c, job[c], entries, cached, lanes, Leaves(lanes, job[c], c), {})
      /\ Answers(c, entries[e].key)
  BY DEF PollFinished, Deriving
<1>2. entries[e].key = need[c]
  <2>1. CASE job[c] # Wait
    BY <1>0, <1>1, <2>1 DEF Placed
  <2>2. CASE job[c] = Wait
    <3>1. SelectsHeld(c) \/ SelectsNew(c)
      BY <1>0, <1>1, <2>2, Selection DEF SelectsNone
    <3>2. ~SelectsNew(c)
      <4> SUFFICES ASSUME SelectsNew(c) PROVE FALSE
        OBVIOUS
      <4>1. Select(c).entry \in Entry /\ Select(c).es = [entries EXCEPT ![Select(c).entry] = Fresh(need[c])]
        BY DEF SelectsNew
      <4>2. Select(c).es[Select(c).entry].left = Slices
        BY <1>0, <4>1 DEF Typed, Fresh
      <4> QED
        BY <1>1, <2>2, <4>2, KdfNames
    <3> QED
      BY <2>2, <3>1, <3>2 DEF SelectsHeld
  <2> QED
    BY <2>1, <2>2
<1>3. mixed' = {} /\ need' = [need EXCEPT ![c] = NoKey]
  BY <1>0, <1>1, <1>2 DEF Answers
<1>4. Sound(entries', cached', lanes', job', need') /\ second' \in Place
  BY <1>0, <1>1, <1>3, ReleaseSound
<1> QED
  BY <1>3, <1>4 DEF KdfInv

LEMMA CancelSound ==
    ASSUME KdfInv, NEW c \in Conns, CancelDeriving(c)
    PROVE  KdfInv'
<1>1. /\ job[c] # Nowhere /\ UNCHANGED mixed /\ need' = [need EXCEPT ![c] = NoKey]
      /\ Release(c, job[c], entries, cached, lanes, Leaves(lanes, job[c], c), {})
  BY DEF CancelDeriving, Deriving
<1>2. Sound(entries', cached', lanes', job', need') /\ second' \in Place
  BY <1>1, ReleaseSound DEF KdfInv
<1> QED
  BY <1>1, <1>2 DEF KdfInv

LEMMA KdfStep == KdfInv /\ [KdfNext]_kdfVars => KdfInv'
<1> SUFFICES ASSUME KdfInv, [KdfNext]_kdfVars PROVE KdfInv'
  OBVIOUS
<1>1. CASE UNCHANGED kdfVars
  BY <1>1 DEF kdfVars, KdfInv
<1>2. ASSUME NEW c \in Conns, Poll(c) PROVE KdfInv'
  BY <1>2, WaitSound, ContinueSound, JoinSound, FinishSound DEF Poll
<1> QED
  BY <1>1, <1>2, BeginSound, CancelSound DEF KdfNext, WokenPoll, StrayPoll

(* The cache holds as many entries as it has places in use. *)
LEMMA CacheOnce ==
    ASSUME Typed(entries, cached, lanes, job, need), Shelved(entries, cached, lanes)
    PROVE  Cardinality(InCache) = Cardinality({p \in DOMAIN cached : cached[p] # Nowhere})
<1> DEFINE P == {p \in DOMAIN cached : cached[p] # Nowhere}
           f == [p \in P |-> cached[p]]
<1>1. DOMAIN cached = Place
  BY DEF Typed
<1>2. InCache = {cached[p] : p \in P}
  BY DEF InCache
<1>3. f \in Surjection(P, InCache)
  BY <1>2 DEF Surjection
<1>4. f \in Injection(P, InCache)
  <2>1. f \in [P -> InCache]
    BY <1>2
  <2>2. ASSUME NEW p \in P, NEW q \in P, f[p] = f[q] PROVE p = q
    <3>1. p \in Place /\ q \in Place /\ cached[p] = cached[q] /\ cached[p] # Nowhere
      BY <1>1, <2>2
    <3> QED
      BY <3>1 DEF Shelved
  <2> HIDE DEF f, P
  <2> QED
    BY <2>1, <2>2 DEF Injection, IsInjective
<1>5. IsFiniteSet(P)
  <2>1. IsFiniteSet(Place)
    BY KdfAssumption, FS_Interval, 0 \in Int, Caches - 1 \in Int DEF Place
  <2> QED
    BY <1>1, <2>1, FS_Subset
<1> HIDE DEF f, P
<1> QED
  BY <1>3, <1>4, <1>5, FS_Surjection DEF P

LEMMA KdfInvSound == KdfInv => EntriesSound
<1> SUFFICES ASSUME KdfInv PROVE EntriesSound
  OBVIOUS
<1>0. Typed(entries, cached, lanes, job, need) /\ Placed(entries, lanes, job, need)
      /\ Shelved(entries, cached, lanes) /\ mixed = {}
  BY KdfTypes
<1>1. ASSUME NEW l \in Lane
      PROVE  /\ DOMAIN lanes[l] = 1 .. Len(lanes[l])
             /\ \A c : c \in Members(lanes[l]) <=> \E i \in DOMAIN lanes[l] : lanes[l][i] = c
  BY <1>0 DEF Typed, Members
<1>2. \A c \in Conns : job[c] \in Entry =>
        /\ entries[job[c]].key = need[c]
        /\ \E i \in DOMAIN lanes[job[c]] : lanes[job[c]][i] = c
  <2> SUFFICES ASSUME NEW c \in Conns, job[c] \in Entry
               PROVE  /\ entries[job[c]].key = need[c]
                      /\ \E i \in DOMAIN lanes[job[c]] : lanes[job[c]][i] = c
    OBVIOUS
  <2>1. c \in Members(lanes[job[c]]) /\ entries[job[c]].key = need[c]
    BY <1>0 DEF Placed
  <2>2. job[c] \in Lane
    BY DEF Lane
  <2> QED
    BY <1>1, <2>1, <2>2
<1>3. \A l \in Entry \cup {Wait} : \A i \in DOMAIN lanes[l] : job[lanes[l][i]] = l
  BY <1>0, <1>1 DEF Placed, Lane
<1>4. Cardinality({e \in Entry : Computing(e)}) <= Lanes
  BY DEF KdfInv, Sound, Running, Computing
<1>5. \A e \in InCache : Finished(e) /\ lanes[e] = <<>>
  BY <1>0 DEF InCache, Finished, Shelved, Typed
<1>6. \A e \in Entry : entries[e] # Vacant => e \in InCache \/ lanes[e] # <<>>
  <2> TAKE e \in Entry
  <2>1. entries[e].key = NoKey => entries[e] = Vacant
    BY <1>0 DEF Typed, Shelved, Vacant
  <2>2. e # Nowhere /\ DOMAIN cached = Place
    BY <1>0, KdfNames DEF Typed, Lane
  <2> QED
    BY <1>0, <2>1, <2>2 DEF Shelved, InCache
<1>7. Cardinality(InCache) = Cardinality({p \in DOMAIN cached : cached[p] # Nowhere})
  BY <1>0, CacheOnce
<1> QED
  BY <1>0, <1>2, <1>3, <1>4, <1>5, <1>6, <1>7 DEF EntriesSound

(* The books of the shared key derivations: EntriesSound, for every number *)
(* of connections, keys, lanes and cache places.                           *)
THEOREM EntriesSoundCorrect == KdfSpec => []EntriesSound
<1>1. KdfInit /\ [][KdfNext]_kdfVars => []KdfInv
  BY KdfInitial, KdfStep, PTL
<1> QED
  BY <1>1, KdfInvSound, PTL DEF KdfSpec

-----------------------------------------------------------------------------
(* No lost turn *)

(* Nothing for d to join, and no place to start: as many derivations run   *)
(* as may, or every entry is in use and none of them is only cached.       *)
Stuck(es, cs, nd, d) ==
    /\ \A e \in Entry : es[e].key # nd[d]
    /\ \/ Cardinality(Running(es)) = Lanes
       \/ (\A e \in Entry : es[e].key # NoKey) /\ \A p \in Place : cs[p] = Nowhere

(* The three parts of TurnsKept, of the state within a poll.               *)
HeadsTurn(ls, pl) == \A e \in Entry : ls[e] # <<>> => Head(ls[e]) \in pl
WaitersKnown(ls, jb, pl) == \A d \in Conns : jb[d] = Wait => d \in pl \cup Members(ls[Wait])
FrontTurn(es, cs, ls, nd, pl) ==
    ls[Wait] # <<>> => Head(ls[Wait]) \in pl \/ Stuck(es, cs, nd, Head(ls[Wait]))

TurnsInv ==
    /\ HeadsTurn(lanes, polls) /\ WaitersKnown(lanes, job, polls)
    /\ FrontTurn(entries, cached, lanes, need, polls)

(* The head of a lane is not a connection that is somewhere else. *)
LEMMA HeadsApart ==
    ASSUME NEW es, NEW cs, NEW ls, NEW jb, NEW nd, Sound(es, cs, ls, jb, nd),
           NEW l \in Lane, ls[l] # <<>>
    PROVE  Head(ls[l]) \in Conns /\ jb[Head(ls[l])] = l /\ ls[l] \in Seq(Conns)
<1>1. Typed(es, cs, ls, jb, nd) /\ Placed(es, ls, jb, nd)
  BY DEF Sound
<1>2. ls[l] \in Seq(Conns)
  BY <1>1 DEF Typed
<1>3. Head(ls[l]) \in Members(ls[l]) /\ Members(ls[l]) \subseteq Conns
  BY <1>2, LaneMembers
<1> QED
  BY <1>1, <1>2, <1>3 DEF Placed

(* Ticket::release passes the turns on: of the lane that c leaves, and of  *)
(* the waiting queue when the entry is freed or cached.                    *)
LEMMA ReleaseTurns ==
    ASSUME NEW es, NEW cs, NEW ls, NEW jb, Sound(es, cs, ls, jb, need),
           NEW c \in Conns, jb[c] # Nowhere, [jb EXCEPT ![c] = Nowhere] = [job EXCEPT ![c] = Nowhere],
           NEW wakes, Release(c, jb[c], es, cs, ls, Leaves(ls, jb[c], c), wakes),
           need' = [need EXCEPT ![c] = NoKey],
           NEW pl, pl \subseteq polls \cup wakes \cup {c},
           HeadsTurn(ls, pl), WaitersKnown(ls, jb, pl),
           \/ jb[c] # Wait /\ Leaves(ls, jb[c], c)[jb[c]] = <<>>
           \/ FrontTurn(es, cs, ls, need, pl)
    PROVE  TurnsInv'
<1> DEFINE at == jb[c]
           after == Leaves(ls, at, c)
<1>0. Typed(es, cs, ls, jb, need) /\ Placed(es, ls, jb, need)
  BY DEF Sound
<1>e. at \in Lane /\ (at # Wait => at \in Entry) /\ Entry \subseteq Lane /\ Wait \in Lane
  BY <1>0 DEF Typed, Lane
<1>1. /\ lanes' = after /\ job' = [jb EXCEPT ![c] = Nowhere]
      /\ polls' = (polls \ {c}) \cup ReleaseWakes(c, at, ls, after) \cup wakes
  BY DEF Release
<1>p. \A d \in pl : d # c => d \in polls'
  BY <1>1
<1>a. after = Leaves(ls, at, c)
  OBVIOUS
<1>j. at = jb[c]
  OBVIOUS
<1>u. at = Wait \/ after[at] # <<>> => entries' = es /\ cached' = cs
  BY DEF Release
<1>f. \/ at # Wait /\ after[at] = <<>>
      \/ FrontTurn(es, cs, ls, need, pl)
  OBVIOUS
<1> HIDE DEF at, after
<1>2. /\ after \in [Lane -> Seq(Conns)]
      /\ Members(after[at]) = Members(ls[at]) \ {c}
      /\ ls[at] # <<>> /\ Head(ls[at]) # c => after[at] # <<>> /\ Head(after[at]) = Head(ls[at])
  <2>1. ls \in [Lane -> Seq(Conns)] /\ NoTwice(ls[at])
    BY <1>0, <1>e DEF Typed, Placed
  <2>2. at \in Lane /\ c \in Conns
    BY <1>e
  <2>3. after \in [Lane -> Seq(Conns)] /\ Members(after[at]) = Members(ls[at]) \ {c}
    BY ONLY <1>a, <2>1, <2>2, LaneRest, LaneMembersRest
  <2>4. ls[at] # <<>> /\ Head(ls[at]) # c => after[at] # <<>> /\ Head(after[at]) = Head(ls[at])
    BY ONLY <1>a, <2>1, <2>2, LaneHead
  <2> QED
    BY <2>3, <2>4
<1>3. \A l \in Lane \ {at} : after[l] = ls[l]
  <2>1. ls \in [Lane -> Seq(Conns)] /\ at \in Lane
    BY <1>0, <1>e DEF Typed
  <2> QED
    BY ONLY <1>a, <2>1, LanesElse
<1>h. ASSUME NEW l \in Lane, ls[l] # <<>>, l # at PROVE Head(ls[l]) # c
  BY <1>h, <1>j, HeadsApart
<1>q. ls[at] = <<>> => after[at] = <<>>
  <2>1. ASSUME ls[at] = <<>> PROVE after[at] = <<>>
    <3>1. Members(ls[at]) = {}
      BY <1>0, <1>e, <2>1, LaneMembers DEF Typed
    <3> QED
      BY <1>2, <1>e, <3>1, LaneMembers
  <2> QED
    BY <2>1
<1>w. /\ at # Wait /\ after[at] = <<>> /\ after[Wait] # <<>> => Head(after[Wait]) \in polls'
      /\ ~(at # Wait /\ after[at] = <<>>) /\ ls[at] # <<>> /\ Head(ls[at]) = c /\ after[at] # <<>> =>
            Head(after[at]) \in polls'
  BY <1>1 DEF ReleaseWakes, FrontOf
<1>4. HeadsTurn(after, polls')
  <2> SUFFICES ASSUME NEW e \in Entry, after[e] # <<>> PROVE Head(after[e]) \in polls'
    BY DEF HeadsTurn
  <2>1. CASE e # at
    BY <1>3, <1>e, <1>h, <1>p, <2>1 DEF HeadsTurn
  <2>2. CASE e = at
    <3>1. ls[at] # <<>>
      BY <1>q, <2>2
    <3>2. CASE Head(ls[at]) = c
      BY <1>w, <2>2, <3>1, <3>2
    <3>3. CASE Head(ls[at]) # c
      BY <1>2, <1>p, <2>2, <3>1, <3>3 DEF HeadsTurn
    <3> QED
      BY <3>2, <3>3
  <2> QED
    BY <2>1, <2>2
<1>5. WaitersKnown(after, job', polls')
  <2> SUFFICES ASSUME NEW d \in Conns, job'[d] = Wait PROVE d \in polls' \cup Members(after[Wait])
    BY DEF WaitersKnown
  <2>1. d # c /\ jb[d] = Wait
    BY <1>0, <1>1, KdfNames DEF Typed, Lane
  <2>2. d \in pl \cup Members(ls[Wait])
    BY <2>1 DEF WaitersKnown
  <2>3. d \in Members(ls[Wait]) => d \in Members(after[Wait])
    BY <1>2, <1>3, <1>e, <2>1
  <2> QED
    BY <1>p, <2>1, <2>2, <2>3
<1>6. FrontTurn(entries', cached', after, need', polls')
  <2> SUFFICES ASSUME after[Wait] # <<>>
               PROVE  Head(after[Wait]) \in polls' \/ Stuck(entries', cached', need', Head(after[Wait]))
    BY DEF FrontTurn
  <2>1. CASE at # Wait /\ after[at] = <<>>
    BY <1>w, <2>1
  <2>2. CASE ~(at # Wait /\ after[at] = <<>>)
    <3>1. entries' = es /\ cached' = cs /\ FrontTurn(es, cs, ls, need, pl)
      BY <1>f, <1>u, <2>2
    <3>2. ls[Wait] # <<>>
      BY <1>3, <1>e, <1>q
    <3>3. CASE Head(ls[Wait]) = c
      <4>1. at = Wait
        BY <1>e, <1>h, <3>2, <3>3
      <4> QED
        BY <1>w, <2>2, <3>2, <3>3, <4>1
    <3>4. CASE Head(ls[Wait]) # c
      <4>1. Head(after[Wait]) = Head(ls[Wait])
        BY <1>2, <1>3, <1>e, <3>2, <3>4
      <4>2. Head(ls[Wait]) \in Conns
        BY <1>e, <3>2, HeadsApart
      <4>3. need'[Head(ls[Wait])] = need[Head(ls[Wait])]
        BY <1>0, <3>4, <4>2 DEF Typed
      <4>4. Head(ls[Wait]) \in pl \/ Stuck(es, cs, need, Head(ls[Wait]))
        BY <3>1, <3>2 DEF FrontTurn
      <4> QED
        BY <1>p, <3>1, <3>4, <4>1, <4>3, <4>4 DEF Stuck
    <3> QED
      BY <3>3, <3>4
  <2> QED
    BY <2>1, <2>2
<1> QED
  BY <1>1, <1>4, <1>5, <1>6 DEF TurnsInv

(* A poll in the lane of an entry that computes keeps the turns: the first *)
(* asks for its own, and a completed derivation wakes who waits.           *)
LEMMA ComputeTurns ==
    ASSUME NEW es, NEW cs, NEW ls, NEW c \in Conns, NEW e \in Entry,
           Sound(es, cs, ls, [job EXCEPT ![c] = e], need),
           c \in DOMAIN job, es[e].left > 0, NEW wakes, Compute(c, e, es, cs, ls, wakes),
           NEW pl, pl = polls \cup wakes \cup {c},
           HeadsTurn(ls, pl), WaitersKnown(ls, [job EXCEPT ![c] = e], pl),
           FrontTurn(es, cs, ls, need, pl)
    PROVE  TurnsInv'
<1> DEFINE jb == [job EXCEPT ![c] = e]
           fs == [es EXCEPT ![e].left = 0]
           after == Leaves(ls, e, c)
           w == wakes \cup CompletionWakes(e, after)
<1>0. /\ jb[c] = e /\ e # Nowhere /\ e # Wait /\ e \in Lane /\ Wait \in Lane
      /\ [jb EXCEPT ![c] = Nowhere] = [job EXCEPT ![c] = Nowhere]
  BY KdfNames DEF Lane
<1>1. Typed(es, cs, ls, jb, need) /\ Placed(es, ls, jb, need)
  BY DEF Sound
<1>2. es[e].left \in Nat /\ ls[e] # <<>>
  <2>1. c \in Members(ls[e])
    BY <1>0, <1>1 DEF Placed
  <2> QED
    BY <1>0, <1>1, <2>1, LaneMembers DEF Typed
<1>h. ASSUME NEW l \in Lane, ls[l] # <<>>, l # e PROVE Head(ls[l]) # c
  BY <1>0, <1>h, HeadsApart
<1>3. CASE Head(ls[e]) = c /\ es[e].left = 1
  <2>1. Sound(fs, cs, ls, jb, need)
    BY <1>2, Ticks
  <2>2. Release(c, e, fs, cs, ls, after, w) /\ need' = [need EXCEPT ![c] = NoKey]
    BY <1>3 DEF Compute, Answers
  <2>3. after[Wait] = ls[Wait]
    BY <1>0, <1>1, LanesElse DEF Typed
  <2>4. after[e] # <<>> /\ ls[Wait] # <<>> => Head(ls[Wait]) \in w
    BY <2>3 DEF CompletionWakes, FrontOf
  <2> HIDE DEF w
  <2>5. after[e] = <<>> \/ FrontTurn(fs, cs, ls, need, pl \cup w)
    BY <2>4 DEF FrontTurn
  <2>6. pl \cup w \subseteq polls \cup w \cup {c}
    BY DEF w
  <2>7. HeadsTurn(ls, pl \cup w) /\ WaitersKnown(ls, jb, pl \cup w)
    BY DEF HeadsTurn, WaitersKnown
  <2> DEFINE pw == pl \cup w
  <2>8. /\ pw \subseteq polls \cup w \cup {c} /\ HeadsTurn(ls, pw) /\ WaitersKnown(ls, jb, pw)
        /\ (e # Wait /\ after[e] = <<>>) \/ FrontTurn(fs, cs, ls, need, pw)
    BY <1>0, <2>5, <2>6, <2>7
  <2>9. /\ Release(c, jb[c], fs, cs, ls, Leaves(ls, jb[c], c), w)
        /\ \/ jb[c] # Wait /\ Leaves(ls, jb[c], c)[jb[c]] = <<>>
           \/ FrontTurn(fs, cs, ls, need, pw)
    BY <1>0, <2>2, <2>8
  <2> HIDE DEF pw, fs, jb
  <2> QED
    BY <1>0, <2>1, <2>2, <2>8, <2>9, ReleaseTurns
<1>4. CASE ~(Head(ls[e]) = c /\ es[e].left = 1)
  <2>1. /\ entries' = IF Head(ls[e]) = c THEN [es EXCEPT ![e].left = @ - 1] ELSE es
        /\ cached' = cs /\ lanes' = ls /\ job' = jb /\ need' = need
        /\ polls' = (polls \ {c}) \cup wakes \cup (IF Head(ls[e]) = c THEN {c} ELSE {})
    BY <1>4 DEF Compute
  <2>2. \A d \in pl : d # c \/ Head(ls[e]) = c => d \in polls'
    BY <2>1
  <2>3. HeadsTurn(ls, polls')
    BY <1>0, <1>h, <2>2 DEF HeadsTurn, Lane
  <2>4. WaitersKnown(ls, jb, polls')
    BY <1>0, <2>2 DEF WaitersKnown
  <2>5. /\ \A f \in Entry : entries'[f].key = es[f].key
        /\ Running(entries') = Running(es)
    <3>1. CASE Head(ls[e]) = c
      <4>1. entries' = [es EXCEPT ![e].left = es[e].left - 1]
        BY <2>1, <3>1
      <4>2. es[e].left - 1 > 0
        BY <1>2, <1>4, <3>1
      <4>3. /\ \A f \in Entry \ {e} : entries'[f] = es[f]
            /\ entries'[e].key = es[e].key /\ entries'[e].left = es[e].left - 1
        BY <1>1, <4>1 DEF Typed
      <4> QED
        BY <1>2, <4>2, <4>3 DEF Running
    <3>2. CASE Head(ls[e]) # c
      BY <2>1, <3>2
    <3> QED
      BY <3>1, <3>2
  <2>6. FrontTurn(entries', cs, ls, need, polls')
    <3> SUFFICES ASSUME ls[Wait] # <<>>
                 PROVE  Head(ls[Wait]) \in polls' \/ Stuck(entries', cs, need, Head(ls[Wait]))
      BY DEF FrontTurn
    <3>1. Head(ls[Wait]) \in pl \/ Stuck(es, cs, need, Head(ls[Wait]))
      BY DEF FrontTurn
    <3>2. Head(ls[Wait]) # c
      BY <1>0, <1>h
    <3> QED
      BY <2>2, <2>5, <3>1, <3>2 DEF Stuck
  <2> QED
    BY <2>1, <2>3, <2>4, <2>6 DEF TurnsInv
<1> QED
  BY <1>3, <1>4

(* Every place of the cache is reached from the one to replace next. *)
LEMMA PlaceReached ==
    ASSUME NEW s \in Place, NEW p \in Place
    PROVE  \E i \in Place : (s + i) % Caches = p
<1>0. Caches \in Nat /\ Caches > 0 /\ s \in 0 .. Caches - 1 /\ p \in 0 .. Caches - 1
  BY KdfAssumption DEF Place
<1>1. p % Caches = p /\ (p + Caches) % Caches = p
  BY <1>0
<1>2. CASE p >= s
  <2>1. p - s \in 0 .. Caches - 1 /\ s + (p - s) = p
    BY <1>0, <1>2
  <2> QED
    BY <1>1, <2>1 DEF Place
<1>3. CASE p < s
  <2>1. p - s + Caches \in 0 .. Caches - 1 /\ s + (p - s + Caches) = p + Caches
    BY <1>0, <1>3
  <2> QED
    BY <1>1, <2>1 DEF Place
<1> QED
  BY <1>0, <1>2, <1>3

LEMMA NoVictims ==
    ASSUME second \in Place, VictimPlaces = {}, NEW p \in Place
    PROVE  cached[p] = Nowhere
<1> SUFFICES ASSUME cached[p] # Nowhere PROVE FALSE
  OBVIOUS
<1> DEFINE order == [i \in 0 .. Caches - 1 |-> (second + i) % Caches]
           taken == {i \in DOMAIN order : cached[order[i]] # Nowhere}
<1>1. PICK i \in Place : (second + i) % Caches = p
  BY PlaceReached
<1>2. i \in taken /\ taken \subseteq Nat
  BY <1>1 DEF Place
<1>3. PICK j \in taken : \A k \in taken : j <= k
  BY <1>2, LeastNatural
<1>4. order[j] \in VictimPlaces
  BY <1>3 DEF VictimPlaces
<1> QED
  BY <1>4

(* Who is admitted and finds no entry is stuck, and the other way round.   *)
LEMMA StuckSelects ==
    ASSUME KdfInv, NEW d \in Conns, Admitted(d)
    PROVE  Select(d).entry = Nowhere <=> Stuck(entries, cached, need, d)
<1>0. /\ Typed(entries, cached, lanes, job, need) /\ Shelved(entries, cached, lanes)
      /\ second \in Place /\ Busy = Running(entries)
  BY KdfTypes, BusyRunning DEF KdfInv
<1>1. SelectsNone(d) \/ SelectsHeld(d) \/ SelectsNew(d)
  BY <1>0, Selection
<1>2. ASSUME SelectsNone(d) PROVE Stuck(entries, cached, need, d)
  <2>1. CASE Cardinality(Busy) = Lanes
    BY <1>0, <1>2, <2>1 DEF SelectsNone, Stuck
  <2>2. CASE Free = {} /\ VictimPlaces = {}
    <3>1. \A p \in Place : cached[p] = Nowhere
      BY <1>0, <2>2, NoVictims
    <3>2. \A e \in Entry : entries[e].key # NoKey
      <4> SUFFICES ASSUME NEW e \in Entry, entries[e].key = NoKey PROVE FALSE
        OBVIOUS
      <4>1. entries[e] = Vacant
        BY <1>0 DEF Typed, Shelved, Vacant
      <4> QED
        BY <2>2, <4>1 DEF Free
    <3> QED
      BY <1>2, <3>1, <3>2 DEF SelectsNone, Stuck
  <2> QED
    BY <1>2, <2>1, <2>2 DEF SelectsNone
<1>3. Stuck(entries, cached, need, d) => ~SelectsHeld(d)
  BY DEF Stuck, SelectsHeld
<1>4. Stuck(entries, cached, need, d) => ~SelectsNew(d)
  BY <1>0, KdfNames DEF Stuck, SelectsNew, Lane
<1>5. (SelectsHeld(d) \/ SelectsNew(d)) => Select(d).entry # Nowhere
  BY KdfNames DEF SelectsHeld, SelectsNew, Lane
<1> QED
  BY <1>1, <1>2, <1>3, <1>4, <1>5 DEF SelectsNone

(* Who is stuck waits for somebody in a lane.                              *)
LEMMA StuckWaits ==
    ASSUME KdfInv, NEW d, Stuck(entries, cached, need, d)
    PROVE  \E e \in Entry : lanes[e] # <<>>
<1>0. Typed(entries, cached, lanes, job, need) /\ Shelved(entries, cached, lanes)
  BY KdfTypes
<1>1. CASE Cardinality(Running(entries)) = Lanes
  <2>1. Running(entries) # {}
    BY <1>1, FS_EmptySet, KdfNames
  <2>2. PICK e \in Entry : entries[e].left > 0
    BY <2>1 DEF Running
  <2>3. entries[e].key # NoKey /\ \A p \in Place : cached[p] # e
    BY <1>0, <2>2, KdfNames DEF Shelved, Typed, Lane
  <2> QED
    BY <1>0, <2>3 DEF Shelved
<1>2. CASE (\A e \in Entry : entries[e].key # NoKey) /\ \A p \in Place : cached[p] = Nowhere
  <2>1. entries[0].key # NoKey /\ 0 \in Entry /\ \A p \in Place : cached[p] # 0
    BY <1>2, KdfNames DEF Lane
  <2> QED
    BY <1>0, <2>1 DEF Shelved
<1> QED
  BY <1>1, <1>2 DEF Stuck

LEMMA TurnsInvKept == KdfInv /\ TurnsInv => TurnsKept
<1> SUFFICES ASSUME KdfInv, TurnsInv PROVE TurnsKept
  OBVIOUS
<1>0. Typed(entries, cached, lanes, job, need) /\ Sound(entries, cached, lanes, job, need)
  BY DEF KdfInv, Sound
<1>w. Wait \in Lane
  BY DEF Lane
<1>m. \A d : d \in Members(lanes[Wait]) <=> \E i \in DOMAIN lanes[Wait] : lanes[Wait][i] = d
  <2>1. lanes[Wait] \in Seq(Conns)
    BY <1>0, <1>w DEF Typed
  <2>2. DOMAIN lanes[Wait] = 1 .. Len(lanes[Wait])
    BY <2>1
  <2> QED
    BY <2>2 DEF Members
<1>1. \A e \in Entry : lanes[e] # <<>> => Head(lanes[e]) \in polls
  BY DEF TurnsInv, HeadsTurn
<1>2. \A c \in Conns : job[c] = Wait =>
        c \in polls \/ \E i \in DOMAIN lanes[Wait] : lanes[Wait][i] = c
  BY <1>m DEF TurnsInv, WaitersKnown
<1>3. ASSUME lanes[Wait] # <<>>, Head(lanes[Wait]) \notin polls
      PROVE  Select(Head(lanes[Wait])).entry = Nowhere /\ \E e \in Entry : lanes[e] # <<>>
  <2>1. Stuck(entries, cached, need, Head(lanes[Wait]))
    BY <1>3 DEF TurnsInv, FrontTurn
  <2>2. Head(lanes[Wait]) \in Conns
    BY <1>0, <1>3, <1>w, HeadsApart
  <2>3. Admitted(Head(lanes[Wait]))
    BY DEF Admitted
  <2> QED
    BY <2>1, <2>2, <2>3, StuckSelects, StuckWaits
<1> QED
  BY <1>1, <1>2, <1>3 DEF TurnsKept

-----------------------------------------------------------------------------
(* The turns, action by action *)

LEMMA BeginTurns ==
    ASSUME KdfInv, TurnsInv, NEW c \in Conns, NEW k \in Keys, BeginDeriving(c, k)
    PROVE  TurnsInv'
<1>0. Sound(entries, cached, lanes, job, need) /\ Typed(entries, cached, lanes, job, need)
  BY DEF KdfInv, Sound
<1>1. /\ job[c] = Nowhere /\ need' = [need EXCEPT ![c] = k] /\ job' = [job EXCEPT ![c] = Wait]
      /\ polls' = polls \cup {c} /\ UNCHANGED <<entries, cached, lanes>>
  BY DEF BeginDeriving
<1>2. HeadsTurn(lanes, polls') /\ WaitersKnown(lanes, job', polls')
  BY <1>0, <1>1 DEF TurnsInv, HeadsTurn, WaitersKnown, Typed
<1>3. FrontTurn(entries, cached, lanes, need', polls')
  <2> SUFFICES ASSUME lanes[Wait] # <<>>
               PROVE  Head(lanes[Wait]) \in polls' \/ Stuck(entries, cached, need', Head(lanes[Wait]))
    BY DEF FrontTurn
  <2>1. Head(lanes[Wait]) \in Conns /\ Head(lanes[Wait]) # c
    BY <1>0, <1>1, HeadsApart, KdfNames DEF Lane
  <2>2. need'[Head(lanes[Wait])] = need[Head(lanes[Wait])]
    BY <1>0, <1>1, <2>1 DEF Typed
  <2>3. Head(lanes[Wait]) \in polls \/ Stuck(entries, cached, need, Head(lanes[Wait]))
    BY DEF TurnsInv, FrontTurn
  <2> QED
    BY <1>1, <2>2, <2>3 DEF Stuck
<1> QED
  BY <1>1, <1>2, <1>3 DEF TurnsInv

LEMMA WaitTurns ==
    ASSUME KdfInv, TurnsInv, NEW c \in Conns, PollWaits(c)
    PROVE  TurnsInv'
<1>0. /\ Sound(entries, cached, lanes, job, need) /\ Typed(entries, cached, lanes, job, need)
      /\ Placed(entries, lanes, job, need)
  BY DEF KdfInv, Sound
<1>1. /\ job[c] = Wait /\ Select(c).entry = Nowhere /\ polls' = polls \ {c}
      /\ UNCHANGED <<entries, cached, job, need>>
  BY DEF PollWaits
<1>w. Wait \in Lane /\ lanes[Wait] \in Seq(Conns) /\ NoTwice(lanes[Wait]) /\ Wait \notin Entry
  BY <1>0, KdfNames DEF Typed, Placed, Lane
<1>m. c \in Members(lanes[Wait]) <=> \E i \in DOMAIN lanes[Wait] : lanes[Wait][i] = c
  BY <1>w DEF Members
<1>2. /\ \A e \in Entry : lanes'[e] = lanes[e]
      /\ lanes'[Wait] = IF c \in Members(lanes[Wait]) THEN lanes[Wait] ELSE Append(lanes[Wait], c)
  BY <1>0, <1>m, <1>w DEF PollWaits, Typed, Lane
<1>3. /\ Members(lanes'[Wait]) = Members(lanes[Wait]) \cup {c}
      /\ lanes[Wait] # <<>> => Head(lanes'[Wait]) = Head(lanes[Wait])
      /\ lanes[Wait] = <<>> => Head(lanes'[Wait]) = c
  <2>1. CASE c \in Members(lanes[Wait])
    <3>1. lanes[Wait] # <<>>
      BY <1>w, <2>1, LaneMembers
    <3> QED
      BY <1>2, <2>1, <3>1
  <2>2. CASE c \notin Members(lanes[Wait])
    BY <1>2, <1>w, <2>2, JoinsLane
  <2> QED
    BY <2>1, <2>2
<1>4. HeadsTurn(lanes', polls')
  <2> SUFFICES ASSUME NEW e \in Entry, lanes'[e] # <<>> PROVE Head(lanes'[e]) \in polls'
    BY DEF HeadsTurn
  <2>1. Head(lanes[e]) \in polls
    BY <1>2 DEF TurnsInv, HeadsTurn
  <2>2. job[Head(lanes[e])] = e
    BY <1>0, <1>2, HeadsApart DEF Lane
  <2> QED
    BY <1>1, <1>2, <1>w, <2>1, <2>2
<1>5. WaitersKnown(lanes', job', polls')
  BY <1>1, <1>3 DEF TurnsInv, WaitersKnown
<1>6. FrontTurn(entries, cached, lanes', need, polls')
  <2>1. CASE lanes[Wait] = <<>> \/ Head(lanes[Wait]) = c
    <3>1. Admitted(c) /\ Head(lanes'[Wait]) = c
      BY <1>3, <2>1 DEF Admitted
    <3>2. Stuck(entries, cached, need, c)
      BY <1>1, <3>1, StuckSelects
    <3> QED
      BY <3>1, <3>2 DEF FrontTurn
  <2>2. CASE lanes[Wait] # <<>> /\ Head(lanes[Wait]) # c
    BY <1>1, <1>3, <2>2 DEF TurnsInv, FrontTurn
  <2> QED
    BY <2>1, <2>2
<1> QED
  BY <1>1, <1>4, <1>5, <1>6 DEF TurnsInv

LEMMA ContinueTurns ==
    ASSUME KdfInv, TurnsInv, NEW c \in Conns, PollContinues(c)
    PROVE  TurnsInv'
<1> DEFINE pl == polls \cup {} \cup {c}
           jb == [job EXCEPT ![c] = job[c]]
<1>0. Typed(entries, cached, lanes, job, need) /\ DOMAIN job = Conns
  BY KdfTypes
<1>1. job[c] \in Entry /\ entries[job[c]].left > 0
      /\ Compute(c, job[c], entries, cached, lanes, {})
  BY DEF PollContinues, Computing
<1>2. jb = job
  BY <1>0 DEF Typed
<1>3. Sound(entries, cached, lanes, jb, need)
  BY <1>2 DEF KdfInv
<1>4. HeadsTurn(lanes, pl) /\ FrontTurn(entries, cached, lanes, need, pl)
  BY DEF TurnsInv, HeadsTurn, FrontTurn
<1>5. WaitersKnown(lanes, jb, pl)
  BY <1>2 DEF TurnsInv, WaitersKnown
<1> QED
  BY <1>0, <1>1, <1>3, <1>4, <1>5, ComputeTurns

LEMMA LeaveTurns ==
    ASSUME KdfInv, TurnsInv, NEW c \in Conns, job[c] # Nowhere,
           Release(c, job[c], entries, cached, lanes, Leaves(lanes, job[c], c), {}),
           need' = [need EXCEPT ![c] = NoKey]
    PROVE  TurnsInv'
<1>1. Sound(entries, cached, lanes, job, need)
  BY DEF KdfInv
<1>2. /\ HeadsTurn(lanes, polls) /\ WaitersKnown(lanes, job, polls)
      /\ FrontTurn(entries, cached, lanes, need, polls)
  BY DEF TurnsInv
<1>3. polls \subseteq polls \cup {} \cup {c}
  OBVIOUS
<1> QED
  BY <1>1, <1>2, <1>3, ReleaseTurns

LEMMA JoinTurns ==
    ASSUME KdfInv, TurnsInv, NEW c \in Conns, PollJoins(c)
    PROVE  TurnsInv'
<1> DEFINE pick == Select(c)
           e == pick.entry
           left == Leaves(lanes, Wait, c)
           queues == [left EXCEPT ![e] = Append(@, c)]
           wakes == IF FrontOf(lanes[Wait]) = {c} THEN FrontOf(queues[Wait]) ELSE {}
           pl == polls \cup wakes \cup {c}
           jb == [job EXCEPT ![c] = e]
<1>0. /\ Sound(entries, cached, lanes, job, need) /\ Typed(entries, cached, lanes, job, need)
      /\ Placed(entries, lanes, job, need) /\ second \in Place /\ DOMAIN job = Conns
  BY KdfTypes DEF KdfInv
<1>1. /\ job[c] = Wait /\ e # Nowhere /\ pick.es[e].left > 0
      /\ Compute(c, e, pick.es, pick.cs, queues, wakes)
  BY DEF PollJoins
<1>2. e \in Entry /\ Chosen(entries, cached, need, c, e, pick.es, pick.cs)
  BY <1>1, SelectsChosen
<1>s. SelectsHeld(c) \/ SelectsNew(c)
  BY <1>0, <1>1, Selection DEF SelectsNone
<1>t. \/ pick.es = entries /\ pick.cs = cached
      \/ Admitted(c)
  BY <1>s DEF SelectsHeld, SelectsNew
<1> HIDE DEF pick, e
<1>3. Sound(pick.es, pick.cs, queues, jb, need)
  BY <1>0, <1>1, <1>2, Joins
<1>w. Wait \in Lane /\ e \in Lane /\ e # Wait /\ Entry \subseteq Lane
  BY <1>2, KdfNames DEF Lane
<1>l. lanes \in [Lane -> Seq(Conns)] /\ NoTwice(lanes[Wait]) /\ NoTwice(lanes[e])
      /\ lanes[e] \in Seq(Conns) /\ lanes[Wait] \in Seq(Conns)
  BY <1>0, <1>w DEF Typed, Placed
<1>a. left = Leaves(lanes, Wait, c)
  OBVIOUS
<1>q. queues = [left EXCEPT ![e] = Append(left[e], c)]
  OBVIOUS
<1> HIDE DEF left, queues
<1>4. left \in [Lane -> Seq(Conns)] /\ Members(left[Wait]) = Members(lanes[Wait]) \ {c}
  <2>1. lanes \in [Lane -> Seq(Conns)] /\ NoTwice(lanes[Wait]) /\ Wait \in Lane /\ c \in Conns
    BY <1>l, <1>w
  <2>2. left \in [Lane -> Seq(Conns)]
    BY ONLY <1>a, <2>1, LaneRest
  <2>3. Members(left[Wait]) = Members(lanes[Wait]) \ {c}
    BY ONLY <1>a, <2>1, LaneMembersRest
  <2> QED
    BY <2>2, <2>3
<1>5. \A l \in Lane \ {Wait} : left[l] = lanes[l]
  BY ONLY <1>a, <1>l, <1>w, LanesElse
<1>6. lanes[Wait] # <<>> /\ Head(lanes[Wait]) # c =>
        left[Wait] # <<>> /\ Head(left[Wait]) = Head(lanes[Wait])
  BY ONLY <1>a, <1>l, <1>w, c \in Conns, LaneHead
<1>7. /\ queues[e] = Append(lanes[e], c) /\ queues[Wait] = left[Wait]
      /\ \A l \in Lane \ {e, Wait} : queues[l] = lanes[l]
  BY <1>4, <1>5, <1>q, <1>w
<1>8. lanes[Wait] = <<>> => queues[Wait] = <<>>
  <2>1. ASSUME lanes[Wait] = <<>> PROVE left[Wait] = <<>>
    <3>1. Members(lanes[Wait]) = {}
      BY <1>l, <2>1, LaneMembers
    <3>2. left[Wait] \in Seq(Conns)
      BY <1>4, <1>w
    <3> QED
      BY <1>4, <3>1, <3>2, LaneMembers
  <2> QED
    BY <1>7, <2>1
<1>9. HeadsTurn(queues, pl)
  <2> SUFFICES ASSUME NEW f \in Entry, queues[f] # <<>> PROVE Head(queues[f]) \in pl
    BY DEF HeadsTurn
  <2>1. CASE f = e
    <3>1. c \notin Members(lanes[e])
      BY <1>0, <1>1, <1>w DEF Placed
    <3>2. /\ lanes[e] # <<>> => Head(queues[e]) = Head(lanes[e])
          /\ lanes[e] = <<>> => Head(queues[e]) = c
      BY <1>7, <1>l, <3>1, JoinsLane
    <3> QED
      BY <1>2, <2>1, <3>2 DEF TurnsInv, HeadsTurn
  <2>2. CASE f # e
    <3>1. queues[f] = lanes[f]
      BY <1>7, <1>w, <2>2, KdfNames
    <3> QED
      BY <3>1 DEF TurnsInv, HeadsTurn
  <2> QED
    BY <2>1, <2>2
<1>10. WaitersKnown(queues, jb, pl)
  <2> SUFFICES ASSUME NEW d \in Conns, jb[d] = Wait PROVE d \in pl \cup Members(queues[Wait])
    BY DEF WaitersKnown
  <2>1. d # c /\ job[d] = Wait
    BY <1>0, <1>w
  <2>2. d \in polls \cup Members(lanes[Wait])
    BY <2>1 DEF TurnsInv, WaitersKnown
  <2> QED
    BY <1>4, <1>7, <2>1, <2>2
<1>11. FrontTurn(pick.es, pick.cs, queues, need, pl)
  <2> SUFFICES ASSUME queues[Wait] # <<>>
               PROVE  Head(queues[Wait]) \in pl \/ Stuck(pick.es, pick.cs, need, Head(queues[Wait]))
    BY DEF FrontTurn
  <2>1. lanes[Wait] # <<>>
    BY <1>8
  <2>2. CASE Head(lanes[Wait]) = c
    BY <2>1, <2>2 DEF FrontOf
  <2>3. CASE Head(lanes[Wait]) # c
    <3>1. Head(queues[Wait]) = Head(lanes[Wait])
      BY <1>6, <1>7, <2>1, <2>3
    <3>2. pick.es = entries /\ pick.cs = cached
      BY <1>t, <2>1, <2>3 DEF Admitted
    <3> QED
      BY <2>1, <3>1, <3>2 DEF TurnsInv, FrontTurn
  <2> QED
    BY <2>2, <2>3
<1> HIDE DEF wakes
<1>12. pl = polls \cup wakes \cup {c} /\ c \in DOMAIN job /\ jb = [job EXCEPT ![c] = e]
  BY <1>0
<1> HIDE DEF pl
<1> QED
  BY <1>1, <1>2, <1>3, <1>9, <1>10, <1>11, <1>12, ComputeTurns

LEMMA TurnsStep == KdfInv /\ TurnsInv /\ [KdfNext]_kdfVars => TurnsInv'
<1> SUFFICES ASSUME KdfInv, TurnsInv, [KdfNext]_kdfVars PROVE TurnsInv'
  OBVIOUS
<1>1. CASE UNCHANGED kdfVars
  BY <1>1 DEF kdfVars, TurnsInv
<1>2. ASSUME NEW c \in Conns, PollFinished(c) \/ CancelDeriving(c) PROVE TurnsInv'
  BY <1>2, LeaveTurns DEF PollFinished, CancelDeriving, Answers, Deriving
<1>3. ASSUME NEW c \in Conns, Poll(c) PROVE TurnsInv'
  BY <1>2, <1>3, WaitTurns, ContinueTurns, JoinTurns DEF Poll
<1> QED
  BY <1>1, <1>2, <1>3, BeginTurns DEF KdfNext, WokenPoll, StrayPoll

LEMMA TurnsInitial == KdfInit => TurnsInv
  BY KdfNames DEF KdfInit, TurnsInv, HeadsTurn, WaitersKnown, FrontTurn, Lane

(* No turn is lost: TurnsKept, for every number of connections, keys,      *)
(* lanes and cache places, whoever is polled, cancelled or served first.   *)
THEOREM TurnsKeptCorrect == KdfSpec => []TurnsKept
<1>1. KdfInit /\ [][KdfNext]_kdfVars => [](KdfInv /\ TurnsInv)
  BY KdfInitial, KdfStep, TurnsInitial, TurnsStep, PTL
<1> QED
  BY <1>1, TurnsInvKept, PTL DEF KdfSpec

-----------------------------------------------------------------------------
(* Transactions: the invariant of the fibers, the slots and the server.    *)

TxStates == {"Shared", "Reserved", "Held", "Finalizing", "Closing", "Vacant"}
OwnedStates == {"Reserved", "Held", "Finalizing"}
Places == Active \cup {"Guard", "Done"}
Inner == Asks \cup {"Set"}
Kinds == Inner \cup Ends \cup {"Begin", "None"}
Blocks == {"Idle", "Open", "Failed"}

TxSlots == [state : TxStates, life : Nat, tx : TxFibers \cup {NoFiber}]
FiberRecs == [at : Places, kind : Kinds, conn : TxConns, life : Nat,
              reply : {"None", "Ok", "Error"}, save : {"None", "Open", "Lost"}]
TxOrders == [tx : TxFibers \cup {NoFiber}, kind : Kinds, attached : BOOLEAN, sent : BOOLEAN,
             failed : BOOLEAN]
ServerType ==
    [block : [TxConns -> {"Idle", "Open", "Failed"}], committed : SUBSET TxFibers, events : Nat]

TxTypes ==
    /\ txSlot \in [TxConns -> TxSlots]
    /\ txOrders \in [TxConns -> Seq(TxOrders)]
    /\ txServer \in [block : [TxConns -> {"Idle", "Open", "Failed"}],
                     committed : SUBSET TxFibers, events : Nat]
    /\ txFiber \in [TxFibers -> FiberRecs]

(* What a fiber is busy with fits the place where it is. *)
KindFits(r) ==
    /\ r.at \in {"Waiting", "Begin"} => r.kind = "Begin" /\ r.save = "None"
    /\ r.at = "Waiting" => r.reply = "None"
    /\ r.at = "Guard" => r.kind = "None"
    /\ r.at \in {"Holding", "Settling"} => r.kind \in Ends
    /\ r.at \in {"Connecting", "Response"} => r.kind \in Inner \cup Ends

(* The end of the fiber's transaction was published: COMMIT or ROLLBACK is *)
(* on its way, or over.                                                    *)
Finishing(r) == r.at \in {"Response", "Settling", "Done"} /\ r.kind \in Ends

(* What a fiber was told of its end is what the server did; the server     *)
(* commits nothing but the end of a transaction that lost no savepoint.    *)
Told(r, committed) ==
    /\ r.reply = "Ok" /\ r.at = "Done" => r.kind \in Ends
    /\ r.reply = "Ok" /\ Finishing(r) => (committed <=> r.kind = "Commit")
    /\ committed => r.kind = "Commit" /\ Finishing(r) /\ r.save # "Lost"

FibersFit == \A f \in TxFibers :
    KindFits(txFiber[f]) /\ Told(txFiber[f], f \in txServer.committed)

(* The owner of a slot is at a place that the slot's state goes with, on   *)
(* the slot's own connection, and COMMIT waits for a lane that has settled.*)
BacksAt(s, r) ==
    /\ s.state = "Reserved" => r.at = "Begin"
    /\ s.state = "Held" => r.at \in {"Begin", "Guard", "Holding", "Connecting", "Response"}
    /\ s.state = "Held" => ~Finishing(r)
    /\ s.state = "Finalizing" => r.at \in {"Response", "Settling"} /\ r.kind \in Ends
Backed(c, s, r, q) ==
    /\ r.conn = c /\ r.life = s.life /\ r.save # "Lost"
    /\ BacksAt(s, r)
    /\ r.at = "Connecting" /\ r.kind \in Ends => q = <<>>
OwnersBack == \A c \in TxConns :
    txSlot[c].state \in OwnedStates =>
        /\ txSlot[c].tx \in TxFibers
        /\ Backed(c, txSlot[c], txFiber[txSlot[c].tx], txOrders[c])

(* The orders of a lane and the server's block go with the slot's state: a *)
(* shared lane has calls outside a block, a reserved one may end with      *)
(* BEGIN, and the end of a transaction is alone in its lane.               *)
LaneFits(s, q, b) ==
    /\ s.state \in {"Shared", "Reserved", "Vacant"} => b = "Idle"
    /\ s.state = "Vacant" => q = <<>>
    /\ s.state = "Shared" => \A i \in 1..Len(q) : q[i].kind = "Call"
    /\ s.state = "Reserved" =>
         \A i \in 1..Len(q) : q[i].kind = "Call" \/ (q[i].kind = "Begin" /\ i = Len(q))
    /\ s.state = "Held" => b # "Idle" /\ \A i \in 1..Len(q) : q[i].kind \in Inner
    /\ s.state = "Finalizing" =>
         /\ Len(q) = 1 /\ q[1].kind \in Ends /\ q[1].tx = s.tx
         /\ q[1].failed <=> b = "Idle"
LanesFit == \A c \in TxConns : LaneFits(txSlot[c], txOrders[c], txServer.block[c])

(* An order that will be answered is one that its fiber waits for; an      *)
(* order that ends a transaction, detached or not, is the end its fiber    *)
(* published, and the server has not committed it yet.                     *)
Live(o) == o.attached /\ ~o.failed
Awaited(o, c, r) == Live(o) =>
    r.conn = c /\ r.reply = "None" /\ r.at \in {"Begin", "Response"} /\ r.kind = o.kind
Closes(o, c, r, committed) == o.kind \in Ends =>
    /\ r.conn = c /\ r.kind = o.kind /\ Finishing(r) /\ r.reply # "Ok" /\ r.save # "Lost"
    /\ ~committed
OrderFits(o, c, fibers, committed) ==
    /\ o.tx = NoFiber => ~o.attached /\ o.kind \notin Ends
    /\ o.tx \in TxFibers =>
         Awaited(o, c, fibers[o.tx]) /\ Closes(o, c, fibers[o.tx], o.tx \in committed)
OrdersFit == \A c \in TxConns : \A i \in 1..Len(txOrders[c]) :
    OrderFits(txOrders[c][i], c, txFiber, txServer.committed)

(* A fiber waits for one order of a lane at most. *)
OneAwaited == \A c \in TxConns : \A i, j \in 1..Len(txOrders[c]) :
    Live(txOrders[c][i]) /\ Live(txOrders[c][j]) /\ txOrders[c][i].tx = txOrders[c][j].tx => i = j

TxInv == TxTypes /\ FibersFit /\ OwnersBack /\ LanesFit /\ OrdersFit /\ OneAwaited

-----------------------------------------------------------------------------
(* A step of one fiber: its record changes, its orders detach, its slot    *)
(* stays as it is or closes.                                               *)

(* A turn of fiber f leaves it with record r: a fiber whose end was        *)
(* published stays with that end.                                          *)
Quiet(f) == txFiber[f].at \notin {"Begin", "Response"} \/ txFiber[f].reply # "None"
Owner(c, f) == txSlot[c].state \in OwnedStates /\ txSlot[c].tx = f

Put(f, r) == [txFiber EXCEPT ![f] = r]
Turns(f, r) ==
    /\ txFiber' = Put(f, r)
    /\ KindFits(r) /\ Told(r, f \in txServer.committed)
    /\ Finishing(txFiber[f]) =>
         /\ Finishing(r) /\ r.kind = txFiber[f].kind /\ r.conn = txFiber[f].conn
         /\ r.save = txFiber[f].save /\ (r.reply = "Ok" => txFiber[f].reply = "Ok")
Lets(f) ==
    \/ txOrders' = Detached(f)
    \/ txOrders' = txOrders /\ Quiet(f)
Closed(c) == txSlot' = SetState(c, "Closing", NoFiber)
Keeps(f, r) ==
    LET c == txFiber[f].conn IN
    \/ Closed(c)
    \/ /\ txSlot' = txSlot
       /\ Owner(c, f) => Backed(c, txSlot[c], r, txOrders'[c])
Served == txServer' = txServer \/ txServer' = Event


\* Lanes p and q hold the same orders, except that in p some may be detached or sent.
Fades(p, q) ==
    /\ p \in Seq(TxOrders) /\ Len(p) = Len(q)
    /\ \A i \in 1..Len(q) :
         /\ p[i].tx = q[i].tx /\ p[i].kind = q[i].kind /\ p[i].failed = q[i].failed
         /\ p[i].attached => q[i].attached

FadedLane(q, f) ==
    [i \in 1..Len(q) |-> IF q[i].tx = f THEN [q[i] EXCEPT !.attached = FALSE] ELSE q[i]]

SentLane(q) == [i \in 1..Len(q) |-> [q[i] EXCEPT !.sent = TRUE]]

LEMMA OrderChanges ==
    ASSUME NEW o \in TxOrders
    PROVE /\ [o EXCEPT !.attached = FALSE] \in TxOrders
          /\ [o EXCEPT !.attached = FALSE].tx = o.tx
          /\ [o EXCEPT !.attached = FALSE].kind = o.kind
          /\ [o EXCEPT !.attached = FALSE].failed = o.failed
          /\ [o EXCEPT !.attached = FALSE].attached = FALSE
          /\ [o EXCEPT !.sent = TRUE] \in TxOrders
          /\ [o EXCEPT !.sent = TRUE].tx = o.tx
          /\ [o EXCEPT !.sent = TRUE].kind = o.kind
          /\ [o EXCEPT !.sent = TRUE].failed = o.failed
          /\ [o EXCEPT !.sent = TRUE].attached = o.attached
  BY DEF TxOrders

LEMMA FadedFades ==
    ASSUME NEW q \in Seq(TxOrders), NEW f
    PROVE  /\ Fades(FadedLane(q, f), q)
           /\ \A i \in 1..Len(q) : q[i].tx = f => FadedLane(q, f)[i].attached = FALSE
<1> DEFINE p == FadedLane(q, f)
<1>0. /\ Len(q) \in Nat
      /\ \A i \in 1..Len(q) : q[i] \in TxOrders
  OBVIOUS
<1>1. ASSUME NEW i \in 1..Len(q)
      PROVE  p[i] = IF q[i].tx = f THEN [q[i] EXCEPT !.attached = FALSE] ELSE q[i]
  BY DEF FadedLane
<1>2. ASSUME NEW i \in 1..Len(q)
      PROVE  /\ p[i] \in TxOrders
             /\ p[i].tx = q[i].tx /\ p[i].kind = q[i].kind /\ p[i].failed = q[i].failed
             /\ p[i].attached => q[i].attached
             /\ q[i].tx = f => p[i].attached = FALSE
  <2> DEFINE o == q[i]
  <2>1. o \in TxOrders
    BY <1>0
  <2>2. p[i] = IF o.tx = f THEN [o EXCEPT !.attached = FALSE] ELSE o
    BY <1>1
  <2> HIDE DEF o, p
  <2>3. /\ p[i] \in TxOrders
        /\ p[i].tx = o.tx /\ p[i].kind = o.kind /\ p[i].failed = o.failed
        /\ p[i].attached => o.attached
        /\ o.tx = f => p[i].attached = FALSE
    BY <2>1, <2>2, OrderChanges
  <2>4. QED BY <2>3 DEF o
<1>3. p = [i \in 1..Len(q) |-> p[i]]
  BY DEF FadedLane
<1> HIDE DEF p
<1>4. p \in [1..Len(q) -> TxOrders]
  BY <1>2, <1>3
<1>5. p \in Seq(TxOrders) /\ Len(p) = Len(q)
  BY <1>0, <1>4, <1>3
<1>6. QED
  BY <1>2, <1>5 DEF Fades, p

LEMMA SentFades ==
    ASSUME NEW q \in Seq(TxOrders)
    PROVE  Fades(SentLane(q), q)
<1> DEFINE p == SentLane(q)
<1>0. /\ Len(q) \in Nat
      /\ \A i \in 1..Len(q) : q[i] \in TxOrders
  OBVIOUS
<1>1. ASSUME NEW i \in 1..Len(q)
      PROVE  p[i] = [q[i] EXCEPT !.sent = TRUE]
  BY DEF SentLane
<1>2. ASSUME NEW i \in 1..Len(q)
      PROVE  /\ p[i] \in TxOrders
             /\ p[i].tx = q[i].tx /\ p[i].kind = q[i].kind /\ p[i].failed = q[i].failed
             /\ p[i].attached => q[i].attached
  <2> DEFINE o == q[i]
  <2>1. o \in TxOrders
    BY <1>0
  <2>2. p[i] = [o EXCEPT !.sent = TRUE]
    BY <1>1
  <2> HIDE DEF o, p
  <2>3. /\ p[i] \in TxOrders
        /\ p[i].tx = o.tx /\ p[i].kind = o.kind /\ p[i].failed = o.failed
        /\ p[i].attached => o.attached
    BY <2>1, <2>2, OrderChanges
  <2>4. QED BY <2>3 DEF o
<1>3. p = [i \in 1..Len(q) |-> p[i]]
  BY DEF SentLane
<1> HIDE DEF p
<1>4. p \in [1..Len(q) -> TxOrders]
  BY <1>2, <1>3
<1>5. p \in Seq(TxOrders) /\ Len(p) = Len(q)
  BY <1>0, <1>4, <1>3
<1>6. QED
  BY <1>2, <1>5 DEF Fades, p

LEMMA SameFades ==
    ASSUME NEW q \in Seq(TxOrders) PROVE Fades(q, q)
  BY DEF Fades

LEMMA LanesTyped ==
    ASSUME TxTypes, NEW c \in TxConns
    PROVE  txOrders[c] \in Seq(TxOrders) /\ DOMAIN txOrders = TxConns
  BY DEF TxTypes

LEMMA DetachedFades ==
    ASSUME TxTypes, NEW f \in TxFibers, NEW c \in TxConns
    PROVE  /\ Fades(Detached(f)[c], txOrders[c])
           /\ \A i \in 1..Len(txOrders[c]) :
                txOrders[c][i].tx = f => Detached(f)[c][i].attached = FALSE
<1>1. Detached(f)[c] = FadedLane(txOrders[c], f)
  BY DEF Detached, FadedLane
<1>2. QED BY <1>1, FadedFades, LanesTyped

LEMMA SendingFades ==
    ASSUME TxTypes, NEW c \in TxConns
    PROVE  Fades(Sending[c], txOrders[c])
<1>1. Sending[c] = SentLane(txOrders[c])
  BY DEF Sending, SentLane
<1>2. QED BY <1>1, SentFades, LanesTyped

LEMMA ServedKept ==
    ASSUME TxTypes, Served
    PROVE  /\ txServer' \in ServerType
           /\ txServer'.block = txServer.block
           /\ txServer'.committed = txServer.committed
<1>1. txServer \in ServerType
  BY DEF TxTypes, ServerType
<1>2. CASE txServer' = txServer
  BY <1>1, <1>2
<1>3. CASE txServer' = Event
  BY <1>1, <1>3 DEF Event, ServerType
<1>4. QED BY <1>2, <1>3 DEF Served

LEMMA SlotSet ==
    ASSUME TxTypes, NEW c \in TxConns, NEW state \in TxStates, NEW tx \in TxFibers \cup {NoFiber},
           txSlot' = SetState(c, state, tx)
    PROVE  /\ txSlot' \in [TxConns -> TxSlots]
           /\ txSlot'[c].state = state /\ txSlot'[c].tx = tx /\ txSlot'[c].life = txSlot[c].life
           /\ \A d \in TxConns \ {c} : txSlot'[d] = txSlot[d]
<1>1. txSlot[c] \in TxSlots /\ txSlot \in [TxConns -> TxSlots]
  BY DEF TxTypes
<1> DEFINE s == txSlot[c]
           t == [s EXCEPT !.state = state, !.tx = tx]
<1>2. t.state = state /\ t.tx = tx /\ t.life = s.life /\ t \in TxSlots
  BY <1>1 DEF TxSlots
<1>3. txSlot' = [txSlot EXCEPT ![c] = t]
  BY DEF SetState
<1> HIDE DEF t, s
<1>4. QED BY <1>1, <1>2, <1>3 DEF s

LEMMA SlotClosed ==
    ASSUME TxTypes, NEW c \in TxConns, Closed(c)
    PROVE  /\ txSlot' \in [TxConns -> TxSlots]
           /\ txSlot'[c].state = "Closing"
           /\ \A d \in TxConns \ {c} : txSlot'[d] = txSlot[d]
<1>1. "Closing" \in TxStates
  BY DEF TxStates
<1>2. QED BY <1>1, SlotSet DEF Closed

LEMMA FadesLane ==
    ASSUME NEW s, NEW p, NEW q \in Seq(TxOrders), NEW b, Fades(p, q), LaneFits(s, q, b)
    PROVE  LaneFits(s, p, b)
<1>1. /\ Len(p) = Len(q) /\ p \in Seq(TxOrders) /\ Len(q) \in Nat
      /\ \A i \in 1..Len(q) : p[i].kind = q[i].kind /\ p[i].tx = q[i].tx /\ p[i].failed = q[i].failed
  BY DEF Fades
<1>2. q = <<>> => p = <<>>
  BY <1>1
<1>3. QED BY <1>1, <1>2 DEF LaneFits

LEMMA TurnKeeps ==
    ASSUME TxInv, NEW f \in TxFibers, NEW r \in FiberRecs, Turns(f, r), Lets(f), Keeps(f, r), Served
    PROVE  TxInv'
<1> DEFINE C == txFiber[f].conn
<1>0. /\ TxTypes /\ FibersFit /\ OwnersBack /\ LanesFit /\ OrdersFit /\ OneAwaited
      /\ txFiber \in [TxFibers -> FiberRecs] /\ txSlot \in [TxConns -> TxSlots]
      /\ C \in TxConns
  BY DEF TxInv, TxTypes, FiberRecs
<1>1. /\ txServer' \in ServerType
      /\ txServer'.block = txServer.block
      /\ txServer'.committed = txServer.committed
  BY <1>0, ServedKept
<1>2. ASSUME NEW c \in TxConns
      PROVE  Fades(txOrders'[c], txOrders[c])
  <2>1. CASE txOrders' = Detached(f)
    BY <2>1, <1>0, DetachedFades
  <2>2. CASE txOrders' = txOrders
    BY <2>2, <1>0, LanesTyped, SameFades
  <2>3. QED BY <2>1, <2>2 DEF Lets
<1>3. txOrders' \in [TxConns -> Seq(TxOrders)]
  <2>1. DOMAIN txOrders' = TxConns /\ txOrders' = [c \in TxConns |-> txOrders'[c]]
    <3>1. CASE txOrders' = Detached(f)
      BY <3>1 DEF Detached
    <3>2. CASE txOrders' = txOrders
      BY <3>2, <1>0 DEF TxTypes
    <3>3. QED BY <3>1, <3>2 DEF Lets
  <2>2. QED BY <2>1, <1>2 DEF Fades
<1>4. /\ txFiber' \in [TxFibers -> FiberRecs] /\ txFiber'[f] = r
      /\ \A g \in TxFibers \ {f} : txFiber'[g] = txFiber[g]
  BY <1>0 DEF Turns, Put
<1>5. /\ txSlot' \in [TxConns -> TxSlots]
      /\ \A c \in TxConns : txSlot'[c] = txSlot[c] \/ txSlot'[c].state = "Closing"
  <2>1. CASE Closed(C)
    BY <2>1, <1>0, SlotClosed
  <2>2. CASE txSlot' = txSlot
    BY <2>2, <1>0
  <2>3. QED BY <2>1, <2>2 DEF Keeps
<1>6. TxTypes'
  BY <1>1, <1>3, <1>4, <1>5 DEF TxTypes, ServerType
<1>7. FibersFit'
  BY <1>0, <1>1, <1>4 DEF FibersFit, Turns
<1>8. LanesFit'
  <2> SUFFICES ASSUME NEW c \in TxConns
               PROVE  LaneFits(txSlot'[c], txOrders'[c], txServer'.block[c])
    BY DEF LanesFit
  <2>1. LaneFits(txSlot[c], txOrders'[c], txServer.block[c])
    <3>1. LaneFits(txSlot[c], txOrders[c], txServer.block[c]) /\ txOrders[c] \in Seq(TxOrders)
      BY <1>0, LanesTyped DEF LanesFit
    <3>2. QED BY <3>1, <1>2, FadesLane
  <2>2. CASE txSlot'[c] = txSlot[c]
    BY <2>1, <2>2, <1>1
  <2>3. CASE txSlot'[c].state = "Closing"
    BY <2>3 DEF LaneFits
  <2>4. QED BY <2>2, <2>3, <1>5
<1>9. OwnersBack'
  <2> SUFFICES ASSUME NEW c \in TxConns, txSlot'[c].state \in OwnedStates
               PROVE  /\ txSlot'[c].tx \in TxFibers
                      /\ Backed(c, txSlot'[c], txFiber'[txSlot'[c].tx], txOrders'[c])
    BY DEF OwnersBack
  <2>1. txSlot'[c] = txSlot[c]
    BY <1>5 DEF OwnedStates
  <2>2. /\ txSlot[c].tx \in TxFibers
        /\ Backed(c, txSlot[c], txFiber[txSlot[c].tx], txOrders[c])
    BY <2>1, <1>0 DEF OwnersBack
  <2>3. CASE txSlot[c].tx # f
    <3>1. txOrders[c] = <<>> => txOrders'[c] = <<>>
      BY <1>2, <1>0, LanesTyped DEF Fades
    <3>2. QED BY <2>1, <2>2, <2>3, <3>1, <1>4 DEF Backed
  <2>4. CASE txSlot[c].tx = f
    <3>1. c = C
      BY <2>2, <2>4 DEF Backed
    <3>3. ~Closed(C)
      BY <3>1, <2>1, <1>0, SlotClosed DEF OwnedStates
    <3>4. Backed(C, txSlot[C], r, txOrders'[C])
      BY <3>1, <3>3, <2>1, <2>4 DEF Keeps, Owner
    <3>5. QED BY <3>1, <3>4, <2>1, <2>4, <1>4
  <2>5. QED BY <2>3, <2>4
<1>10. ASSUME NEW c \in TxConns, NEW i \in 1..Len(txOrders[c])
       PROVE  /\ OrderFits(txOrders[c][i], c, txFiber, txServer.committed)
              /\ txOrders[c][i] \in TxOrders
              /\ Live(txOrders'[c][i]) => Live(txOrders[c][i]) /\ txOrders[c][i].tx # f
              /\ txOrders'[c][i].tx = txOrders[c][i].tx
              /\ txOrders'[c][i].kind = txOrders[c][i].kind
              /\ txOrders'[c][i].attached => txOrders[c][i].attached
  <2>0. /\ OrderFits(txOrders[c][i], c, txFiber, txServer.committed) /\ txOrders[c] \in Seq(TxOrders)
        /\ Len(txOrders'[c]) = Len(txOrders[c])
    BY <1>0, <1>2, LanesTyped DEF OrdersFit, Fades
  <2>1. /\ txOrders'[c][i].tx = txOrders[c][i].tx
        /\ txOrders'[c][i].kind = txOrders[c][i].kind
        /\ txOrders'[c][i].attached => txOrders[c][i].attached
        /\ txOrders'[c][i].failed = txOrders[c][i].failed
    BY <1>2 DEF Fades
  <2>2. Live(txOrders'[c][i]) => Live(txOrders[c][i])
    BY <2>1 DEF Live
  <2>3. Live(txOrders'[c][i]) => txOrders[c][i].tx # f
    <3>1. CASE txOrders' = Detached(f)
      BY <3>1, <1>0, DetachedFades DEF Live
    <3>2. CASE txOrders' = txOrders /\ Quiet(f)
      BY <3>2, <2>0 DEF OrderFits, Awaited, Quiet
    <3>3. QED BY <3>1, <3>2 DEF Lets
  <2>4. txOrders[c][i] \in TxOrders
    BY <2>0
  <2>5. QED BY <2>0, <2>1, <2>2, <2>3, <2>4
<1>11. OrdersFit'
  <2> SUFFICES ASSUME NEW c \in TxConns, NEW i \in 1..Len(txOrders'[c])
               PROVE  OrderFits(txOrders'[c][i], c, txFiber', txServer'.committed)
    BY DEF OrdersFit
  <2>1. i \in 1..Len(txOrders[c])
    BY <1>2 DEF Fades
  <2> DEFINE o == txOrders[c][i]
             u == txOrders'[c][i]
  <2>2. /\ OrderFits(o, c, txFiber, txServer.committed) /\ o \in TxOrders
        /\ Live(u) => Live(o) /\ o.tx # f
        /\ u.tx = o.tx /\ u.kind = o.kind
        /\ u.attached => o.attached
    BY <1>10, <2>1
  <2> HIDE DEF o, u
  <2>3. CASE o.tx = NoFiber
    BY <2>2, <2>3, TxAssumption DEF OrderFits, u
  <2>4. CASE o.tx \in TxFibers \ {f}
    <3>1. /\ Awaited(o, c, txFiber[o.tx]) /\ Closes(o, c, txFiber[o.tx], o.tx \in txServer.committed)
          /\ txFiber'[u.tx] = txFiber[o.tx]
      BY <2>2, <2>4, <1>4 DEF OrderFits
    <3>2. Awaited(u, c, txFiber'[u.tx])
      BY <3>1, <2>2 DEF Awaited
    <3>3. Closes(u, c, txFiber'[u.tx], u.tx \in txServer'.committed)
      BY <3>1, <2>2, <1>1 DEF Closes
    <3>4. QED BY <3>2, <3>3, <2>2, <2>4, TxAssumption DEF OrderFits, u
  <2>5. CASE o.tx = f
    <3>1. Closes(o, c, txFiber[f], f \in txServer.committed)
      BY <2>2, <2>5 DEF OrderFits
    <3>2. Awaited(u, c, txFiber'[f])
      BY <2>2, <2>5 DEF Awaited
    <3>3. Closes(u, c, txFiber'[f], f \in txServer'.committed)
      BY <3>1, <2>2, <1>1, <1>4 DEF Closes, Turns
    <3>4. QED BY <3>2, <3>3, <2>2, <2>5, TxAssumption DEF OrderFits, u
  <2>6. QED BY <2>2, <2>3, <2>4, <2>5 DEF TxOrders
<1>12. OneAwaited'
  <2> SUFFICES ASSUME NEW c \in TxConns, NEW i \in 1..Len(txOrders'[c]), NEW j \in 1..Len(txOrders'[c]),
                      Live(txOrders'[c][i]), Live(txOrders'[c][j]),
                      txOrders'[c][i].tx = txOrders'[c][j].tx
               PROVE  i = j
    BY DEF OneAwaited
  <2>1. i \in 1..Len(txOrders[c]) /\ j \in 1..Len(txOrders[c])
    BY <1>2 DEF Fades
  <2>2. /\ Live(txOrders[c][i]) /\ Live(txOrders[c][j])
        /\ txOrders[c][i].tx = txOrders[c][j].tx
    BY <2>1, <1>10
  <2>3. QED BY <2>1, <2>2, <1>0 DEF OneAwaited
<1>13. QED BY <1>6, <1>7, <1>8, <1>9, <1>11, <1>12 DEF TxInv

Moved(r, at, kind) == [r EXCEPT !.at = at, !.kind = kind, !.reply = "None"]
Saved(r, at, kind, save) == [Moved(r, at, kind) EXCEPT !.save = save]
Over(r, reply) == [r EXCEPT !.at = "Done", !.reply = reply, !.life = 0]

LEMMA MovedFields ==
    ASSUME NEW r \in FiberRecs, NEW at \in Places, NEW kind \in Kinds
    PROVE  /\ Moved(r, at, kind) \in FiberRecs
           /\ Moved(r, at, kind).at = at /\ Moved(r, at, kind).kind = kind
           /\ Moved(r, at, kind).reply = "None" /\ Moved(r, at, kind).conn = r.conn
           /\ Moved(r, at, kind).life = r.life /\ Moved(r, at, kind).save = r.save
  BY DEF FiberRecs, Moved

LEMMA SavedFields ==
    ASSUME NEW r \in FiberRecs, NEW at \in Places, NEW kind \in Kinds,
           NEW save \in {"None", "Open", "Lost"}
    PROVE  /\ Saved(r, at, kind, save) \in FiberRecs
           /\ Saved(r, at, kind, save).at = at /\ Saved(r, at, kind, save).kind = kind
           /\ Saved(r, at, kind, save).reply = "None" /\ Saved(r, at, kind, save).conn = r.conn
           /\ Saved(r, at, kind, save).life = r.life /\ Saved(r, at, kind, save).save = save
  BY DEF FiberRecs, Moved, Saved

LEMMA OverFields ==
    ASSUME NEW r \in FiberRecs, NEW reply \in {"None", "Ok", "Error"}
    PROVE  /\ Over(r, reply) \in FiberRecs
           /\ Over(r, reply).at = "Done" /\ Over(r, reply).kind = r.kind
           /\ Over(r, reply).reply = reply /\ Over(r, reply).conn = r.conn
           /\ Over(r, reply).save = r.save
  BY DEF FiberRecs, Over, Places, Active

LEMMA FiberUpdates ==
    ASSUME NEW f \in TxFibers
    PROVE  /\ \A at, kind : To(f, at, kind) = Put(f, Moved(txFiber[f], at, kind))
           /\ \A reply : Ended(f, reply) = Put(f, Over(txFiber[f], reply))
  BY DEF To, Moved, Put, Ended, Over

SaveTo(f, at, kind, save) == [To(f, at, kind) EXCEPT ![f].save = save]

LEMMA SavedUpdate ==
    ASSUME TxInv, NEW f \in TxFibers, NEW at, NEW kind, NEW save
    PROVE  SaveTo(f, at, kind, save) = Put(f, Saved(txFiber[f], at, kind, save))
<1> DEFINE m == Moved(txFiber[f], at, kind)
<1>0. txFiber \in [TxFibers -> FiberRecs]
  BY DEF TxInv, TxTypes
<1>1. To(f, at, kind) = [txFiber EXCEPT ![f] = m]
  BY DEF To, Moved
<1>2. Saved(txFiber[f], at, kind, save) = [m EXCEPT !.save = save]
  BY DEF Saved
<1> HIDE DEF m
<1>3. [[txFiber EXCEPT ![f] = m] EXCEPT ![f].save = save] = [txFiber EXCEPT ![f] = [m EXCEPT !.save = save]]
  BY <1>0
<1>4. QED BY <1>1, <1>2, <1>3 DEF SaveTo, Put

\* A fiber that owns a slot sees it, whatever its state.
LEMMA OwnerSees ==
    ASSUME TxInv, NEW f \in TxFibers, NEW c \in TxConns, Owner(c, f)
    PROVE  /\ c = txFiber[f].conn /\ Seen(txSlot, f) = txSlot[c].state
           /\ Backed(c, txSlot[c], txFiber[f], txOrders[c])
<1>1. Backed(c, txSlot[c], txFiber[f], txOrders[c]) /\ txSlot[c].state \in OwnedStates
  BY DEF TxInv, OwnersBack, Owner
<1>2. c = txFiber[f].conn /\ txSlot[c].life = txFiber[f].life
  BY <1>1 DEF Backed
<1>3. QED BY <1>1, <1>2 DEF Seen, Owner, OwnedStates

LEMMA SeenOwned ==
    ASSUME TxInv, NEW f \in TxFibers, Seen(txSlot, f) \in OwnedStates
    PROVE  Owner(txFiber[f].conn, f) /\ Seen(txSlot, f) = txSlot[txFiber[f].conn].state
  BY DEF Seen, Owner, OwnedStates

\* Where the owner of a slot may be.
LEMMA OwnerPlace ==
    ASSUME TxInv, NEW f \in TxFibers, NEW c \in TxConns, Owner(c, f)
    PROVE  /\ txFiber[f].at \notin {"Waiting", "Done"}
           /\ txFiber[f].at = "Begin" => txSlot[c].state \in {"Reserved", "Held"}
           /\ txFiber[f].at \in {"Guard", "Holding", "Connecting"} => txSlot[c].state = "Held"
           /\ txFiber[f].at = "Response" /\ txFiber[f].kind \notin Ends => txSlot[c].state = "Held"
           /\ Finishing(txFiber[f]) => txSlot[c].state = "Finalizing"
  BY OwnerSees DEF Backed, BacksAt, Owner, OwnedStates, Finishing

LEMMA AbortKeeps ==
    ASSUME TxInv, NEW f \in TxFibers, NEW r, Abort(f)
    PROVE  Keeps(f, r)
<1> DEFINE C == txFiber[f].conn
<1>0. C \in TxConns
  BY DEF TxInv, TxTypes, FiberRecs
<1>1. CASE Aborts(f)
  BY <1>1 DEF Abort, CloseConn, Keeps, Closed
<1>2. CASE ~Aborts(f)
  <2>1. ~Owner(C, f)
    BY <1>0, <1>2, OwnerSees DEF Aborts, IsCurrent, IsCurrentFinal, Owner, OwnedStates
  <2>2. txSlot' = txSlot
    BY <1>2 DEF Abort
  <2>3. QED BY <2>1, <2>2 DEF Keeps
<1>3. QED BY <1>1, <1>2

\* A fiber that has not begun to finish was not committed and has no end order.
LEMMA NotFinishing ==
    ASSUME TxInv, NEW f \in TxFibers, ~Finishing(txFiber[f])
    PROVE  f \notin txServer.committed
  BY DEF TxInv, FibersFit, Told

LEMMA FreshTurn ==
    ASSUME TxInv, NEW f \in TxFibers, NEW r \in FiberRecs, ~Finishing(txFiber[f]),
           KindFits(r), r.reply # "Ok", txFiber' = Put(f, r)
    PROVE  Turns(f, r)
  BY NotFinishing DEF Turns, Told

LEMMA EndTurn ==
    ASSUME TxInv, NEW f \in TxFibers, NEW reply \in {"None", "Ok", "Error"},
           reply = "Ok" => Finishing(txFiber[f]) /\ txFiber[f].reply = "Ok",
           txFiber' = Ended(f, reply)
    PROVE  /\ Turns(f, Over(txFiber[f], reply))
           /\ Over(txFiber[f], reply) \in FiberRecs
<1> DEFINE r == Over(txFiber[f], reply)
<1>1. /\ txFiber[f] \in FiberRecs /\ KindFits(txFiber[f])
      /\ Told(txFiber[f], f \in txServer.committed)
  BY DEF TxInv, TxTypes, FibersFit
<1>2. /\ r \in FiberRecs
      /\ r.at = "Done" /\ r.kind = txFiber[f].kind /\ r.reply = reply
      /\ r.conn = txFiber[f].conn /\ r.save = txFiber[f].save
  BY <1>1, OverFields
<1>3. txFiber' = Put(f, r)
  BY FiberUpdates
<1> HIDE DEF r
<1>4. KindFits(r)
  BY <1>2 DEF KindFits
<1>5. Told(r, f \in txServer.committed)
  BY <1>1, <1>2 DEF Told, Finishing
<1>6. QED BY <1>1, <1>2, <1>3, <1>4, <1>5 DEF Turns, r, Finishing

LEMMA SameStates ==
    ASSUME TxInv, txSlot' = txSlot, txFiber' = txFiber, txOrders' = txOrders, Served
    PROVE  TxInv'
<1>1. /\ txServer' \in ServerType
      /\ txServer'.block = txServer.block
      /\ txServer'.committed = txServer.committed
  BY ServedKept DEF TxInv
<1>2. TxTypes' /\ FibersFit' /\ OwnersBack' /\ LanesFit' /\ OneAwaited'
  BY <1>1 DEF TxInv, TxTypes, ServerType, FibersFit, OwnersBack, LanesFit, OneAwaited
<1>3. OrdersFit'
  BY <1>1 DEF TxInv, OrdersFit, OrderFits
<1>4. QED BY <1>2, <1>3 DEF TxInv

\* The places a fiber goes to from its guard or a request, with the kinds that fit.
TurnsTo(at, kind) ==
    \/ at = "Guard" /\ kind = "None"
    \/ at = "Connecting" /\ kind \in Inner \cup Ends
    \/ at = "Holding" /\ kind \in Ends

LEMMA TurnsToFits ==
    ASSUME NEW at, NEW kind, TurnsTo(at, kind)
    PROVE  /\ at \in Places /\ kind \in Kinds
           /\ \A r : r.at = at /\ r.kind = kind => KindFits(r) /\ ~Finishing(r)
  BY DEF TurnsTo, Places, Active, Kinds, KindFits, Finishing

LEMMA FiberTyped ==
    ASSUME TxInv, NEW f \in TxFibers
    PROVE  /\ txFiber[f] \in FiberRecs /\ txFiber[f].conn \in TxConns
           /\ KindFits(txFiber[f]) /\ txFiber[f].at \in Places /\ txFiber[f].kind \in Kinds
           /\ txFiber[f].reply \in {"None", "Ok", "Error"}
           /\ txFiber[f].save \in {"None", "Open", "Lost"}
  BY DEF TxInv, TxTypes, FibersFit, FiberRecs

LEMMA GoKeeps ==
    ASSUME TxInv, NEW f \in TxFibers, NEW at, NEW kind, NEW save \in {txFiber[f].save, "None", "Open"},
           TurnsTo(at, kind), ~Finishing(txFiber[f]),
           \/ txFiber' = To(f, at, kind) /\ save = txFiber[f].save
           \/ txFiber' = SaveTo(f, at, kind, save),
           Lets(f), Served, txSlot' = txSlot,
           Owner(txFiber[f].conn, f) =>
             /\ txSlot[txFiber[f].conn].state = "Held"
             /\ at = "Connecting" /\ kind \in Ends => txOrders'[txFiber[f].conn] = <<>>
    PROVE  TxInv'
<1> DEFINE C == txFiber[f].conn
           a == txFiber[f]
<1>1. /\ a \in FiberRecs /\ C \in TxConns /\ a.save \in {"None", "Open", "Lost"}
      /\ at \in Places /\ kind \in Kinds
  BY FiberTyped, TurnsToFits
<1>2. PICK r \in FiberRecs :
        /\ r.at = at /\ r.kind = kind /\ r.reply = "None" /\ r.conn = C /\ r.life = a.life
        /\ r.save = save
        /\ txFiber' = Put(f, r)
  <2>1. CASE txFiber' = To(f, at, kind) /\ save = a.save
    <3>1. txFiber' = Put(f, Moved(a, at, kind))
      BY <2>1, FiberUpdates
    <3>2. QED BY <1>1, <2>1, <3>1, MovedFields
  <2>2. CASE txFiber' = SaveTo(f, at, kind, save)
    <3>1. txFiber' = Put(f, Saved(a, at, kind, save))
      BY <2>2, SavedUpdate
    <3>2. QED BY <1>1, <2>2, <3>1, SavedFields
  <2>3. QED BY <2>1, <2>2
<1>3. txFiber' = Put(f, r)
  BY <1>2
<1>4. KindFits(r) /\ ~Finishing(r)
  BY <1>2, TurnsToFits
<1>5. Turns(f, r)
  BY <1>2, <1>3, <1>4, FreshTurn
<1>6. Keeps(f, r)
  <2>1. CASE Owner(C, f)
    <3>1. Backed(C, txSlot[C], a, txOrders[C])
      BY <1>1, <2>1, OwnerSees
    <3>2. r.save # "Lost" /\ a.life = txSlot[C].life
      BY <1>2, <3>1 DEF Backed
    <3>3. BacksAt(txSlot[C], r)
      BY <1>2, <1>4, <2>1 DEF BacksAt, TurnsTo
    <3>4. Backed(C, txSlot[C], r, txOrders'[C])
      BY <1>2, <2>1, <3>2, <3>3 DEF Backed
    <3>5. QED BY <3>4 DEF Keeps
  <2>2. CASE ~Owner(C, f)
    BY <2>2 DEF Keeps
  <2>3. QED BY <2>1, <2>2
<1>7. QED BY <1>2, <1>5, <1>6, TurnKeeps

LEMMA AbortGo ==
    ASSUME TxInv, NEW f \in TxFibers, NEW save \in {"None", "Open", "Lost"},
           ~Finishing(txFiber[f]), Abort(f),
           \/ txFiber' = To(f, "Guard", "None") /\ save = txFiber[f].save
           \/ txFiber' = SaveTo(f, "Guard", "None", save),
           Lets(f), Served
    PROVE  TxInv'
<1> DEFINE a == txFiber[f]
<1>1. a \in FiberRecs /\ "Guard" \in Places /\ "None" \in Kinds /\ TurnsTo("Guard", "None")
  BY FiberTyped DEF Places, Kinds, TurnsTo
<1>2. PICK r \in FiberRecs :
        /\ r.at = "Guard" /\ r.kind = "None" /\ r.reply = "None"
        /\ txFiber' = Put(f, r)
  <2>1. CASE txFiber' = To(f, "Guard", "None")
    <3>1. txFiber' = Put(f, Moved(a, "Guard", "None"))
      BY <2>1, FiberUpdates
    <3>2. QED BY <1>1, <3>1, MovedFields
  <2>2. CASE txFiber' = SaveTo(f, "Guard", "None", save)
    <3>1. txFiber' = Put(f, Saved(a, "Guard", "None", save))
      BY <2>2, SavedUpdate
    <3>2. QED BY <1>1, <3>1, SavedFields
  <2>3. QED BY <2>1, <2>2
<1>3. txFiber' = Put(f, r)
  BY <1>2
<1>4. KindFits(r)
  BY <1>1, <1>2, TurnsToFits
<1>5. Turns(f, r)
  BY <1>2, <1>3, <1>4, FreshTurn
<1>6. Keeps(f, r)
  BY AbortKeeps
<1>7. QED BY <1>2, <1>5, <1>6, TurnKeeps

LEMMA AbortEnd ==
    ASSUME TxInv, NEW f \in TxFibers, Abort(f), txFiber' = Ended(f, "Error"), Lets(f), Served
    PROVE  TxInv'
<1>1. /\ Turns(f, Over(txFiber[f], "Error"))
      /\ Over(txFiber[f], "Error") \in FiberRecs
  BY EndTurn
<1>2. Keeps(f, Over(txFiber[f], "Error"))
  BY AbortKeeps
<1>3. QED BY <1>1, <1>2, TurnKeeps

LEMMA LeaveEnd ==
    ASSUME TxInv, NEW f \in TxFibers, NEW reply \in {"None", "Ok", "Error"}, txSlot' = txSlot,
           ~Owner(txFiber[f].conn, f), txFiber' = Ended(f, reply),
           reply = "Ok" => Finishing(txFiber[f]) /\ txFiber[f].reply = "Ok", Lets(f), Served
    PROVE  TxInv'
<1>1. /\ Turns(f, Over(txFiber[f], reply))
      /\ Over(txFiber[f], reply) \in FiberRecs
  BY EndTurn
<1>2. Keeps(f, Over(txFiber[f], reply))
  BY DEF Keeps
<1>3. QED BY <1>1, <1>2, TurnKeeps

LEMMA GiveUpKeeps ==
    ASSUME TxInv, NEW f \in TxFibers, txFiber[f].at \in {"Connecting", "Response"},
           txFiber[f].kind \in Inner, GiveUp(f, txFiber[f].kind), Lets(f), Served
    PROVE  TxInv'
<1> DEFINE a == txFiber[f]
<1>1. ~Finishing(a) /\ a.kind \notin Ends /\ a.conn \in TxConns /\ a.save \in {"None", "Open", "Lost"}
  BY FiberTyped DEF Finishing, Inner, Asks, Ends
<1>2. CASE Drops(a.kind) /\ a.kind = "Set"
  BY <1>2, AbortEnd DEF GiveUp
<1>3. CASE Drops(a.kind) /\ a.kind # "Set"
  <2>1. txFiber' = SaveTo(f, "Guard", "None", "Lost") /\ Abort(f)
    BY <1>3 DEF GiveUp, SaveTo
  <2>2. QED BY <1>1, <2>1, AbortGo
<1>4. CASE ~Drops(a.kind)
  <2>1. txSlot' = txSlot /\ txFiber' = To(f, "Guard", "None")
    BY <1>4 DEF GiveUp, Leave
  <2>2. TurnsTo("Guard", "None") /\ "Guard" # "Connecting"
    BY DEF TurnsTo
  <2>3. Owner(a.conn, f) => txSlot[a.conn].state = "Held"
    BY <1>1, OwnerPlace
  <2>4. QED BY <1>1, <2>1, <2>2, <2>3, GoKeeps
<1>5. QED BY <1>2, <1>3, <1>4

-----------------------------------------------------------------------------
(* The actions of fibers that publish nothing.                             *)

LEMMA QuietFacts ==
    ASSUME NEW f, txOrders' = txOrders,
           txFiber[f].at \notin {"Begin", "Response"} \/ txFiber[f].reply # "None"
    PROVE  Lets(f)
  BY DEF Lets, Quiet

LEMMA WaitingFree ==
    ASSUME TxInv, NEW f \in TxFibers, NEW c \in TxConns, txFiber[f].at = "Waiting"
    PROVE  ~Owner(c, f) /\ ~Finishing(txFiber[f])
  BY OwnerPlace DEF Finishing

LEMMA BeginFullKeeps ==
    ASSUME TxInv, NEW f \in TxFibers, BeginFull(f)
    PROVE  TxInv'
<1> DEFINE a == txFiber[f]
<1>1. PICK c \in TxConns : txFiber' = [txFiber EXCEPT ![f].conn = c]
  BY DEF BeginFull, Pickable
<1> DEFINE r == [a EXCEPT !.conn = c]
<1>2. a \in FiberRecs /\ a.at = "Waiting" /\ KindFits(a) /\ a.conn \in TxConns
  BY FiberTyped DEF BeginFull, Runs
<1>3. /\ r \in FiberRecs /\ r.at = "Waiting" /\ r.kind = a.kind /\ r.reply = a.reply
      /\ r.save = a.save
  BY <1>2 DEF FiberRecs
<1>4. txFiber' = Put(f, r)
  BY <1>1 DEF Put
<1> HIDE DEF r
<1>5. KindFits(r) /\ r.reply # "Ok"
  BY <1>2, <1>3 DEF KindFits
<1>6. Turns(f, r)
  BY <1>2, <1>3, <1>4, <1>5, FreshTurn, WaitingFree
<1>7. Lets(f) /\ Served
  BY <1>2, QuietFacts DEF BeginFull, Served
<1>8. Keeps(f, r)
  BY <1>2, WaitingFree DEF Keeps, BeginFull
<1>9. QED BY <1>3, <1>6, <1>7, <1>8, TurnKeeps

LEMMA BeginBlockedKeeps ==
    ASSUME TxInv, NEW f \in TxFibers, BeginBlocked(f)
    PROVE  TxInv'
<1>1. /\ txFiber[f].at = "Waiting" /\ txSlot' = txSlot /\ txFiber' = Ended(f, "Error")
      /\ txOrders' = txOrders /\ Served
  BY DEF BeginBlocked, Runs, Leave, Served
<1>2. Lets(f)
  BY <1>1, QuietFacts
<1>3. ~Owner(txFiber[f].conn, f)
  BY <1>1, FiberTyped, WaitingFree
<1>4. QED BY <1>1, <1>2, <1>3, LeaveEnd

LEMMA BeginReplyKeeps ==
    ASSUME TxInv, NEW f \in TxFibers, BeginReply(f)
    PROVE  TxInv'
<1> DEFINE C == txFiber[f].conn
<1>1. /\ txFiber[f].at = "Begin" /\ txFiber[f].reply # "None" /\ txOrders' = txOrders /\ Served
      /\ C \in TxConns /\ ~Finishing(txFiber[f])
  BY FiberTyped DEF BeginReply, Runs, Served, Finishing
<1>2. Lets(f)
  BY <1>1, QuietFacts
<1>3. CASE Seen(txSlot, f) = "Held" /\ Leave(f) /\ txFiber' = To(f, "Guard", "None")
  <2>1. TurnsTo("Guard", "None")
    BY DEF TurnsTo
  <2>2. Owner(C, f) => txSlot[C].state = "Held"
    BY <1>1, <1>3, OwnerSees
  <2>3. QED BY <1>1, <1>2, <1>3, <2>1, <2>2, GoKeeps DEF Leave
<1>4. CASE Seen(txSlot, f) = "Held" /\ Leave(f) /\ txFiber' = To(f, "Connecting", "Set")
  <2>1. TurnsTo("Connecting", "Set") /\ "Set" \notin Ends
    BY DEF TurnsTo, Inner, Ends
  <2>2. Owner(C, f) => txSlot[C].state = "Held"
    BY <1>1, <1>4, OwnerSees
  <2>3. QED BY <1>1, <1>2, <1>4, <2>1, <2>2, GoKeeps DEF Leave
<1>5. CASE txFiber' = Ended(f, "Error") /\ Abort(f)
  BY <1>1, <1>2, <1>5, AbortEnd
<1>6. QED BY <1>3, <1>4, <1>5 DEF BeginReply

LEMMA AskKeeps ==
    ASSUME TxInv, NEW f \in TxFibers, NEW kind \in Asks, Ask(f, kind)
    PROVE  TxInv'
<1> DEFINE C == txFiber[f].conn
<1>1. /\ txFiber[f].at = "Guard" /\ txOrders' = txOrders /\ Served /\ txSlot' = txSlot
      /\ C \in TxConns /\ ~Finishing(txFiber[f]) /\ txFiber' = To(f, "Connecting", kind)
  BY FiberTyped DEF Ask, Served, Finishing
<1>2. Lets(f)
  BY <1>1, QuietFacts
<1>3. TurnsTo("Connecting", kind) /\ kind \notin Ends
  BY DEF TurnsTo, Inner, Ends, Asks
<1>4. Owner(C, f) => txSlot[C].state = "Held"
  BY <1>1, OwnerPlace
<1>5. QED BY <1>1, <1>2, <1>3, <1>4, GoKeeps

LEMMA StartFinishKeeps ==
    ASSUME TxInv, NEW f \in TxFibers, NEW end \in Ends, StartFinish(f, end)
    PROVE  TxInv'
<1> DEFINE C == txFiber[f].conn
<1>1. /\ txFiber[f].at = "Guard" /\ txOrders' = txOrders /\ Served /\ txSlot' = txSlot
      /\ C \in TxConns /\ ~Finishing(txFiber[f]) /\ txFiber' = To(f, "Holding", end)
  BY FiberTyped DEF StartFinish, Served, Finishing
<1>2. Lets(f)
  BY <1>1, QuietFacts
<1>3. TurnsTo("Holding", end) /\ "Holding" # "Connecting"
  BY DEF TurnsTo
<1>4. Owner(C, f) => txSlot[C].state = "Held"
  BY <1>1, OwnerPlace
<1>5. QED BY <1>1, <1>2, <1>3, <1>4, GoKeeps

LEMMA ReplyKeeps ==
    ASSUME TxInv, NEW f \in TxFibers, Reply(f)
    PROVE  TxInv'
<1> DEFINE C == txFiber[f].conn
           kind == txFiber[f].kind
<1>1. /\ txFiber[f].at = "Response" /\ txFiber[f].reply # "None" /\ txOrders' = txOrders /\ Served
      /\ C \in TxConns /\ ~Finishing(txFiber[f]) /\ kind \in Inner
  BY FiberTyped DEF Reply, Runs, Served, Finishing, KindFits
<1>2. Lets(f)
  BY <1>1, QuietFacts
<1>3. CASE txFiber[f].reply = "Error"
  BY <1>1, <1>2, <1>3, GiveUpKeeps DEF Reply
<1>4. CASE txFiber[f].reply # "Error"
  <2>1. txSlot' = txSlot
    BY <1>4 DEF Reply, Leave
  <2>2. Owner(C, f) => txSlot[C].state = "Held"
    BY <1>1, OwnerPlace DEF Inner, Asks, Ends
  <2>3. CASE kind = "Revert"
    <3>1. txFiber' = To(f, "Connecting", "Release")
      BY <1>4, <2>3 DEF Reply
    <3>2. TurnsTo("Connecting", "Release") /\ "Release" \notin Ends
      BY DEF TurnsTo, Inner, Asks, Ends
    <3>3. QED BY <1>1, <1>2, <2>1, <2>2, <3>1, <3>2, GoKeeps
  <2>4. CASE kind = "Save"
    <3>1. txFiber' = SaveTo(f, "Guard", "None", "Open")
      BY <1>4, <2>4 DEF Reply, SaveTo
    <3>2. TurnsTo("Guard", "None")
      BY DEF TurnsTo
    <3>3. QED BY <1>1, <1>2, <2>1, <2>2, <3>1, <3>2, GoKeeps
  <2>5. CASE kind = "Release"
    <3>1. txFiber' = SaveTo(f, "Guard", "None", "None")
      BY <1>4, <2>5 DEF Reply, SaveTo
    <3>2. TurnsTo("Guard", "None")
      BY DEF TurnsTo
    <3>3. QED BY <1>1, <1>2, <2>1, <2>2, <3>1, <3>2, GoKeeps
  <2>6. CASE kind \notin {"Revert", "Save", "Release"}
    <3>1. txFiber' = To(f, "Guard", "None")
      BY <1>4, <2>6 DEF Reply
    <3>2. TurnsTo("Guard", "None")
      BY DEF TurnsTo
    <3>3. QED BY <1>1, <1>2, <2>1, <2>2, <3>1, <3>2, GoKeeps
  <2>7. QED BY <2>3, <2>4, <2>5, <2>6
<1>5. QED BY <1>3, <1>4

LEMMA DropAskKeeps ==
    ASSUME TxInv, NEW f \in TxFibers, DropAsk(f)
    PROVE  TxInv'
<1> DEFINE kind == txFiber[f].kind
<1>1. /\ txFiber[f].at \in {"Connecting", "Response"} /\ kind \in Inner /\ Lets(f) /\ Served
      /\ ~Finishing(txFiber[f]) /\ txFiber[f].save \in {"None", "Open", "Lost"}
  BY FiberTyped DEF DropAsk, Inner, Lets, Served, Finishing, Asks, Ends
<1>2. CASE kind = "Save" /\ txFiber[f].at = "Response"
  <2>1. Abort(f) /\ txFiber' = To(f, "Guard", "None")
    BY <1>2 DEF DropAsk
  <2>2. QED BY <1>1, <2>1, AbortGo
<1>3. CASE ~(kind = "Save" /\ txFiber[f].at = "Response")
  BY <1>1, <1>3, GiveUpKeeps DEF DropAsk
<1>4. QED BY <1>2, <1>3

LEMMA DropSavepointKeeps ==
    ASSUME TxInv, NEW f \in TxFibers, DropSavepoint(f)
    PROVE  TxInv'
<1> DEFINE a == txFiber[f]
           r == [a EXCEPT !.save = "Lost"]
<1>1. /\ a.at = "Guard" /\ a \in FiberRecs /\ KindFits(a) /\ Abort(f) /\ ~Finishing(a)
      /\ txOrders' = txOrders /\ Served /\ txFiber' = [txFiber EXCEPT ![f].save = "Lost"]
  BY FiberTyped DEF DropSavepoint, Finishing, Served
<1>2. /\ r \in FiberRecs /\ r.at = "Guard" /\ r.kind = a.kind /\ r.reply = a.reply
      /\ r.save = "Lost"
  BY <1>1 DEF FiberRecs
<1>3. txFiber' = Put(f, r)
  BY <1>1 DEF Put
<1> HIDE DEF r
<1>4. KindFits(r) /\ a.kind = "None"
  BY <1>1, <1>2 DEF KindFits
<1>5. Turns(f, r)
  <2>1. f \notin txServer.committed
    BY <1>1, NotFinishing
  <2>2. Told(r, f \in txServer.committed)
    BY <2>1, <1>2, <1>4 DEF Told, Finishing, Ends
  <2>3. QED BY <2>2, <1>1, <1>3, <1>4 DEF Turns
<1>6. Lets(f) /\ Keeps(f, r)
  BY <1>1, QuietFacts, AbortKeeps
<1>7. QED BY <1>1, <1>2, <1>5, <1>6, TurnKeeps

LEMMA PollHoldingKeeps ==
    ASSUME TxInv, NEW f \in TxFibers, PollHolding(f)
    PROVE  TxInv'
<1> DEFINE C == txFiber[f].conn
           kind == txFiber[f].kind
<1>1. /\ txFiber[f].at = "Holding" /\ txOrders' = txOrders /\ Served
      /\ C \in TxConns /\ ~Finishing(txFiber[f]) /\ kind \in Ends
  BY FiberTyped DEF PollHolding, Runs, Served, Finishing, KindFits
<1>2. Lets(f)
  BY <1>1, QuietFacts
<1>3. CASE txFiber' = Ended(f, "Error") /\ Abort(f)
  BY <1>1, <1>2, <1>3, AbortEnd
<1>4. CASE /\ Seen(txSlot, f) = "Held" /\ Settled(f)
           /\ txFiber' = To(f, "Connecting", kind) /\ Leave(f)
  <2>1. TurnsTo("Connecting", kind)
    BY <1>1 DEF TurnsTo
  <2>2. Owner(C, f) => txSlot[C].state = "Held"
    BY <1>1, OwnerPlace
  <2>3. txOrders'[C] = <<>> /\ txSlot' = txSlot
    BY <1>1, <1>4 DEF Settled, Leave
  <2>4. QED BY <1>1, <1>2, <1>4, <2>1, <2>2, <2>3, GoKeeps
<1>5. CASE UNCHANGED <<txSlot, txRecv, txFiber, txQueue>>
  BY <1>1, <1>5, SameStates
<1>6. QED BY <1>3, <1>4, <1>5 DEF PollHolding

LEMMA PollSettlingKeeps ==
    ASSUME TxInv, NEW f \in TxFibers, PollSettling(f)
    PROVE  TxInv'
<1> DEFINE C == txFiber[f].conn
           a == txFiber[f]
<1>1. /\ a.at \in {"Response", "Settling"}
      /\ a.at = "Response" => a.reply # "None"
      /\ txOrders' = txOrders /\ Served
      /\ C \in TxConns /\ Finishing(a) /\ a.kind \in Ends /\ a \in FiberRecs /\ KindFits(a)
      /\ a.reply \in {"None", "Ok", "Error"}
      /\ Told(a, f \in txServer.committed)
  <2>1. Told(a, f \in txServer.committed)
    BY DEF TxInv, FibersFit
  <2>2. QED BY <2>1, FiberTyped DEF PollSettling, Runs, Served, Finishing, KindFits
<1>2. Lets(f)
  BY <1>1, QuietFacts
<1>3. CASE TxDisposition(f) = "Pending" /\ ~Occupied(f)
  <2> DEFINE r == [a EXCEPT !.at = "Settling"]
  <2>1. txFiber' = [txFiber EXCEPT ![f].at = "Settling"] /\ txSlot' = txSlot
    BY <1>3 DEF PollSettling
  <2>2. /\ r \in FiberRecs /\ r.at = "Settling" /\ r.kind = a.kind /\ r.reply = a.reply
        /\ r.save = a.save /\ r.conn = a.conn /\ r.life = a.life
    BY <1>1 DEF FiberRecs, Places, Active
  <2>3. txFiber' = Put(f, r)
    BY <2>1 DEF Put
  <2> HIDE DEF r
  <2>4. KindFits(r) /\ Finishing(r)
    BY <1>1, <2>2 DEF KindFits, Finishing
  <2>5. Told(r, f \in txServer.committed)
    BY <1>1, <2>2, <2>4 DEF Told
  <2>6. Turns(f, r)
    BY <2>2, <2>3, <2>4, <2>5 DEF Turns
  <2>7. Keeps(f, r)
    <3>1. CASE Owner(C, f)
      <4>1. Backed(C, txSlot[C], a, txOrders[C]) /\ txSlot[C].state = "Finalizing"
        BY <1>1, <3>1, OwnerSees, OwnerPlace
      <4>2. BacksAt(txSlot[C], r)
        BY <1>1, <2>2, <4>1 DEF BacksAt
      <4>3. Backed(C, txSlot[C], r, txOrders'[C])
        BY <2>2, <4>1, <4>2 DEF Backed
      <4>4. QED BY <2>1, <4>3 DEF Keeps
    <3>2. CASE ~Owner(C, f)
      BY <2>1, <3>2 DEF Keeps
    <3>3. QED BY <3>1, <3>2
  <2>8. QED BY <1>1, <1>2, <2>2, <2>6, <2>7, TurnKeeps
<1>4. CASE TxDisposition(f) = "Pending" /\ Occupied(f)
  <2>1. txFiber' = Ended(f, "Error") /\ Abort(f)
    BY <1>4 DEF PollSettling
  <2>2. QED BY <1>1, <1>2, <2>1, AbortEnd
<1>5. CASE TxDisposition(f) # "Pending"
  <2>1. Seen(txSlot, f) \notin OwnedStates
    BY <1>5 DEF TxDisposition, OwnedStates
  <2>2. ~Owner(C, f)
    BY <1>1, <2>1, OwnerSees DEF Owner
  <2>3. txSlot' = txSlot /\ (txFiber' = Ended(f, a.reply) \/ txFiber' = Ended(f, "Error"))
    BY <1>5 DEF PollSettling, Leave
  <2>4. QED BY <1>1, <1>2, <2>2, <2>3, LeaveEnd
<1>6. QED BY <1>3, <1>4, <1>5

LEMMA DropTxKeeps ==
    ASSUME TxInv, NEW f \in TxFibers, DropTx(f)
    PROVE  TxInv'
  BY AbortEnd DEF DropTx, Lets, Served

LEMMA ExpireKeeps ==
    ASSUME TxInv, NEW f \in TxFibers, Expire(f)
    PROVE  TxInv'
<1> DEFINE kind == txFiber[f].kind
<1>1. /\ txFiber[f].at \in Active /\ Lets(f) /\ Served
      /\ txFiber[f].save \in {"None", "Open", "Lost"} /\ KindFits(txFiber[f])
  BY FiberTyped DEF Expire, Lets, Served
<1>2. kind \in Inner => txFiber[f].at \in {"Connecting", "Response"} /\ ~Finishing(txFiber[f])
  BY <1>1 DEF KindFits, Inner, Asks, Ends, Active, Finishing
<1>3. CASE kind = "Save" /\ txFiber[f].at = "Response"
  <2>1. Abort(f) /\ txFiber' = To(f, "Guard", "None") /\ kind \in Inner
    BY <1>3 DEF Expire, Inner, Asks
  <2>2. QED BY <1>1, <1>2, <2>1, AbortGo
<1>4. CASE kind \in Inner /\ ~(kind = "Save" /\ txFiber[f].at = "Response")
  <2>1. GiveUp(f, kind)
    BY <1>4 DEF Expire, Inner
  <2>2. QED BY <1>1, <1>2, <1>4, <2>1, GiveUpKeeps
<1>5. CASE kind \notin Inner
  <2>1. txFiber' = Ended(f, "Error") /\ Abort(f)
    BY <1>5 DEF Expire, Inner, Asks
  <2>2. QED BY <1>1, <2>1, AbortEnd
<1>6. QED BY <1>3, <1>4, <1>5

-----------------------------------------------------------------------------
(* The actions that publish an order.                                      *)

LEMMA Appended ==
    ASSUME NEW q \in Seq(TxOrders), NEW o \in TxOrders
    PROVE  /\ Append(q, o) \in Seq(TxOrders) /\ Len(Append(q, o)) = Len(q) + 1 /\ Len(q) \in Nat
           /\ Append(q, o)[Len(q) + 1] = o
           /\ \A i \in 1..Len(q) : Append(q, o)[i] = q[i]
           /\ \A i \in 1..Len(Append(q, o)) : i \in 1..Len(q) \/ i = Len(q) + 1
  OBVIOUS

\* What becomes of an order that stays where it is, when its fiber's record and fate change.
LEMMA OrderStays ==
    ASSUME NEW o, NEW c,
           OrderFits(o, c, txFiber, txServer.committed),
           txFiber'[o.tx] = txFiber[o.tx],
           o.tx \in txServer'.committed <=> o.tx \in txServer.committed
    PROVE  OrderFits(o, c, txFiber', txServer'.committed)
  BY DEF OrderFits, Awaited, Closes

LEMMA OrderIdle ==
    ASSUME NEW o, NEW c, o.tx \in TxFibers, ~Live(o), o.kind \notin Ends
    PROVE  OrderFits(o, c, txFiber', txServer'.committed)
  BY TxAssumption DEF OrderFits, Awaited, Closes

LEMMA OrderTyped ==
    ASSUME TxInv, NEW c \in TxConns, NEW i \in 1..Len(txOrders[c])
    PROVE  txOrders[c][i] \in TxOrders /\ OrderFits(txOrders[c][i], c, txFiber, txServer.committed)
<1>1. txOrders[c] \in Seq(TxOrders)
  BY LanesTyped DEF TxInv
<1>2. txOrders[c][i] \in TxOrders
  BY <1>1
<1>3. QED BY <1>2 DEF TxInv, OrdersFit

\* An order of f joins lane c, whose slot f owns.
Publishes(f, c, r, o) ==
    /\ txFiber' = Put(f, r) /\ KindFits(r) /\ r.reply = "None" /\ r.at \in {"Begin", "Response"}
    /\ r.conn = c
    /\ o \in TxOrders /\ o.tx = f /\ o.kind = r.kind
    /\ txOrders' = [txOrders EXCEPT ![c] = Append(@, o)]
    /\ txServer' = txServer
    /\ txSlot' \in [TxConns -> TxSlots] /\ \A d \in TxConns \ {c} : txSlot'[d] = txSlot[d]
    /\ txSlot'[c].state \in OwnedStates /\ txSlot'[c].tx = f
    /\ Backed(c, txSlot'[c], r, txOrders'[c])
    /\ LaneFits(txSlot'[c], Append(txOrders[c], o), txServer.block[c])

LEMMA PublishKeeps ==
    ASSUME TxInv, NEW f \in TxFibers, NEW c \in TxConns, NEW r \in FiberRecs, NEW o,
           Publishes(f, c, r, o), Quiet(f), ~Finishing(txFiber[f]),
           \A d \in TxConns \ {c} : ~Owner(d, f)
    PROVE  TxInv'
<1>0. /\ TxTypes /\ FibersFit /\ OwnersBack /\ LanesFit /\ OrdersFit /\ OneAwaited
      /\ txFiber \in [TxFibers -> FiberRecs] /\ txOrders \in [TxConns -> Seq(TxOrders)]
      /\ txOrders[c] \in Seq(TxOrders) /\ f \notin txServer.committed
  BY NotFinishing DEF TxInv, TxTypes
<1> DEFINE q == txOrders[c]
<1>1. /\ txFiber' \in [TxFibers -> FiberRecs] /\ txFiber'[f] = r
      /\ \A g \in TxFibers \ {f} : txFiber'[g] = txFiber[g]
  BY <1>0 DEF Publishes, Put
<1>2. /\ txOrders' \in [TxConns -> Seq(TxOrders)] /\ txOrders'[c] = Append(q, o)
      /\ \A d \in TxConns \ {c} : txOrders'[d] = txOrders[d]
      /\ o \in TxOrders
  <2>1. Append(q, o) \in Seq(TxOrders)
    BY <1>0, Appended DEF Publishes
  <2>2. QED BY <1>0, <2>1 DEF Publishes
<1>3. TxTypes'
  BY <1>0, <1>1, <1>2 DEF TxTypes, Publishes
<1>4. FibersFit'
  <2>1. Told(r, f \in txServer.committed)
    BY <1>0 DEF Told, Publishes
  <2>2. QED BY <2>1, <1>0, <1>1 DEF FibersFit, Publishes
<1>5. LanesFit'
  BY <1>0, <1>2 DEF LanesFit, Publishes
<1>6. OwnersBack'
  <2> SUFFICES ASSUME NEW d \in TxConns, txSlot'[d].state \in OwnedStates
               PROVE  /\ txSlot'[d].tx \in TxFibers
                      /\ Backed(d, txSlot'[d], txFiber'[txSlot'[d].tx], txOrders'[d])
    BY DEF OwnersBack
  <2>1. CASE d = c
    BY <2>1, <1>1 DEF Publishes
  <2>2. CASE d # c
    <3>1. txSlot'[d] = txSlot[d] /\ txOrders'[d] = txOrders[d]
      BY <2>2, <1>2 DEF Publishes
    <3>2. txSlot[d].tx # f
      BY <2>2, <3>1 DEF Owner
    <3>3. QED BY <3>1, <3>2, <1>0, <1>1 DEF OwnersBack
  <2>3. QED BY <2>1, <2>2
<1>7. ASSUME NEW d \in TxConns, NEW i \in 1..Len(txOrders[d])
      PROVE  /\ OrderFits(txOrders[d][i], d, txFiber', txServer'.committed)
             /\ Live(txOrders[d][i]) => txOrders[d][i].tx # f
  <2> DEFINE u == txOrders[d][i]
  <2>1. u \in TxOrders /\ OrderFits(u, d, txFiber, txServer.committed)
    BY OrderTyped
  <2> HIDE DEF u
  <2>2. CASE u.tx = f
    <3>1. ~Live(u) /\ u.kind \notin Ends
      BY <2>1, <2>2 DEF OrderFits, Awaited, Closes, Quiet
    <3>2. QED BY <3>1, <2>1, <2>2, OrderIdle DEF u
  <2>3. CASE u.tx # f
    <3>1. CASE u.tx = NoFiber
      BY <3>1, <2>1, <2>3, TxAssumption DEF OrderFits, u
    <3>2. CASE u.tx \in TxFibers
      BY <3>2, <2>1, <2>3, <1>1, OrderStays DEF u, Publishes
    <3>3. QED BY <2>1, <2>3, <3>1, <3>2 DEF TxOrders, u
  <2>4. QED BY <2>2, <2>3
<1>8. OrderFits(o, c, txFiber', txServer'.committed)
  <2>1. Awaited(o, c, r)
    BY DEF Awaited, Publishes
  <2>2. Closes(o, c, r, f \in txServer.committed)
    <3>1. r.save # "Lost"
      BY DEF Publishes, Backed
    <3>2. QED BY <1>0, <3>1 DEF Closes, Publishes, Finishing, KindFits, Ends
  <2>3. QED BY <2>1, <2>2, <1>1, TxAssumption DEF OrderFits, Publishes
<1>9. ASSUME NEW d \in TxConns, NEW i \in 1..Len(txOrders'[d])
      PROVE  \/ i \in 1..Len(txOrders[d]) /\ txOrders'[d][i] = txOrders[d][i]
             \/ d = c /\ i = Len(q) + 1 /\ txOrders'[d][i] = o
  <2>1. CASE d = c
    BY <2>1, <1>0, <1>2, Appended
  <2>2. CASE d # c
    BY <2>2, <1>2
  <2>3. QED BY <2>1, <2>2
<1>10. OrdersFit'
  <2> SUFFICES ASSUME NEW d \in TxConns, NEW i \in 1..Len(txOrders'[d])
               PROVE  OrderFits(txOrders'[d][i], d, txFiber', txServer'.committed)
    BY DEF OrdersFit
  <2>1. CASE i \in 1..Len(txOrders[d]) /\ txOrders'[d][i] = txOrders[d][i]
    BY <2>1, <1>7 DEF OrderFits
  <2>2. CASE d = c /\ txOrders'[d][i] = o
    BY <2>2, <1>8 DEF OrderFits
  <2>3. QED BY <1>9, <2>1, <2>2
<1>11. OneAwaited'
  <2> SUFFICES ASSUME NEW d \in TxConns, NEW i \in 1..Len(txOrders'[d]), NEW j \in 1..Len(txOrders'[d]),
                      Live(txOrders'[d][i]), Live(txOrders'[d][j]),
                      txOrders'[d][i].tx = txOrders'[d][j].tx
               PROVE  i = j
    BY DEF OneAwaited
  <2>1. o.tx = f
    BY DEF Publishes
  <2>2. \/ i \in 1..Len(txOrders[d]) /\ txOrders'[d][i] = txOrders[d][i]
        \/ d = c /\ i = Len(q) + 1 /\ txOrders'[d][i] = o
    BY <1>9
  <2>3. \/ j \in 1..Len(txOrders[d]) /\ txOrders'[d][j] = txOrders[d][j]
        \/ d = c /\ j = Len(q) + 1 /\ txOrders'[d][j] = o
    BY <1>9
  <2>4. CASE i \in 1..Len(txOrders[d]) /\ j \in 1..Len(txOrders[d])
             /\ txOrders'[d][i] = txOrders[d][i] /\ txOrders'[d][j] = txOrders[d][j]
    BY <2>4, <1>0 DEF OneAwaited
  <2>5. QED BY <2>1, <2>2, <2>3, <2>4, <1>7
<1>12. QED BY <1>3, <1>4, <1>5, <1>6, <1>10, <1>11 DEF TxInv

LEMMA OrderMade ==
    ASSUME NEW f \in TxFibers \cup {NoFiber}, NEW kind \in Kinds
    PROVE  /\ Order(f, kind) \in TxOrders /\ Order(f, kind).tx = f /\ Order(f, kind).kind = kind
           /\ Order(f, kind).failed = FALSE
  BY DEF Order, TxOrders

LEMMA BeginAdmitKeeps ==
    ASSUME TxInv, NEW f \in TxFibers, BeginAdmit(f)
    PROVE  TxInv'
<1> DEFINE a == txFiber[f]
<1>1. PICK c \in Pickable :
         /\ txSlot' = SetState(c, "Reserved", f)
         /\ txOrders' = [txOrders EXCEPT ![c] = Append(@, Order(f, "Begin"))]
         /\ txFiber' = [txFiber EXCEPT ![f] =
                [@ EXCEPT !.at = "Begin", !.conn = c, !.life = txSlot[c].life]]
  BY DEF BeginAdmit
<1> DEFINE r == [a EXCEPT !.at = "Begin", !.conn = c, !.life = txSlot[c].life]
           o == Order(f, "Begin")
           q == txOrders[c]
<1>2. /\ c \in TxConns /\ txSlot[c].state = "Shared" /\ txServer' = txServer
      /\ a.at = "Waiting" /\ a \in FiberRecs /\ KindFits(a) /\ a.conn \in TxConns
      /\ txSlot[c].life \in Nat /\ TxTypes /\ q \in Seq(TxOrders)
      /\ LaneFits(txSlot[c], q, txServer.block[c])
  BY FiberTyped DEF BeginAdmit, Runs, Pickable, TxInv, TxTypes, TxSlots, LanesFit
<1>3. /\ r \in FiberRecs /\ r.at = "Begin" /\ r.kind = a.kind /\ r.reply = a.reply
      /\ r.save = a.save /\ r.conn = c /\ r.life = txSlot[c].life
  BY <1>2 DEF FiberRecs, Places, Active
<1>4. txFiber' = Put(f, r)
  BY <1>1 DEF Put
<1>5. a.kind = "Begin" /\ a.reply = "None" /\ a.save = "None" /\ KindFits(r)
  BY <1>2, <1>3 DEF KindFits
<1>6. o \in TxOrders /\ o.tx = f /\ o.kind = "Begin"
  BY OrderMade DEF Kinds
<1> HIDE DEF r, o
<1>7. /\ txSlot' \in [TxConns -> TxSlots] /\ \A d \in TxConns \ {c} : txSlot'[d] = txSlot[d]
      /\ txSlot'[c].state = "Reserved" /\ txSlot'[c].tx = f /\ txSlot'[c].life = txSlot[c].life
  <2>1. "Reserved" \in TxStates
    BY DEF TxStates
  <2>2. QED BY <1>1, <1>2, <2>1, SlotSet
<1>8. Backed(c, txSlot'[c], r, txOrders'[c])
  BY <1>3, <1>5, <1>7 DEF Backed, BacksAt
<1>9. LaneFits(txSlot'[c], Append(q, o), txServer.block[c])
  <2>1. /\ txServer.block[c] = "Idle" /\ \A i \in 1..Len(q) : q[i].kind = "Call"
    BY <1>2 DEF LaneFits
  <2>2. ASSUME NEW i \in 1..Len(Append(q, o))
        PROVE  Append(q, o)[i].kind = "Call" \/ (Append(q, o)[i].kind = "Begin" /\ i = Len(Append(q, o)))
    BY <2>1, <1>2, <1>6, Appended
  <2>3. QED BY <2>1, <2>2, <1>7 DEF LaneFits
<1>10. txOrders' = [txOrders EXCEPT ![c] = Append(@, o)]
  BY <1>1 DEF o
<1>11. Publishes(f, c, r, o)
  BY <1>2, <1>3, <1>4, <1>5, <1>6, <1>7, <1>8, <1>9, <1>10 DEF Publishes, OwnedStates
<1>12. Quiet(f) /\ ~Finishing(txFiber[f]) /\ \A d \in TxConns \ {c} : ~Owner(d, f)
  BY <1>2, WaitingFree DEF Quiet
<1>13. QED BY <1>2, <1>3, <1>11, <1>12, PublishKeeps

LEMMA DispatchKeeps ==
    ASSUME TxInv, NEW f \in TxFibers, Dispatch(f)
    PROVE  TxInv'
<1> DEFINE a == txFiber[f]
           c == a.conn
           kind == a.kind
<1>1. /\ a.at = "Connecting" /\ a \in FiberRecs /\ KindFits(a) /\ c \in TxConns
      /\ kind \in Inner \cup Ends /\ Served /\ txServer' = txServer /\ ~Finishing(a) /\ Quiet(f)
  BY FiberTyped DEF Dispatch, Runs, Served, KindFits, Finishing, Quiet
<1>2. CASE ~IsCurrent(f)
  <2>1. txOrders' = txOrders /\ Lets(f)
    BY <1>1, <1>2 DEF Dispatch, Lets
  <2>2. CASE kind \in Ends
    <3>1. txFiber' = Ended(f, "Error") /\ txSlot' = txSlot
      BY <1>2, <2>2 DEF Dispatch, Leave
    <3>2. ~Owner(c, f)
      BY <1>1, <1>2, OwnerSees, OwnerPlace DEF IsCurrent
    <3>3. QED BY <1>1, <2>1, <3>1, <3>2, LeaveEnd
  <2>3. CASE kind \notin Ends
    BY <1>1, <1>2, <2>1, <2>3, GiveUpKeeps DEF Dispatch
  <2>4. QED BY <2>2, <2>3
<1>3. CASE IsCurrent(f) /\ (c \in txRecv \/ ~HasRoom(c))
  <2>1. UNCHANGED <<txSlot, txFiber, txOrders>>
    BY <1>3 DEF Dispatch
  <2>2. QED BY <1>1, <2>1, SameStates
<1>4. CASE IsCurrent(f) /\ c \notin txRecv /\ HasRoom(c)
  <2> DEFINE r == Moved(a, "Response", kind)
             o == Order(f, kind)
             q == txOrders[c]
  <2>1. /\ txOrders' = [txOrders EXCEPT ![c] = Append(@, o)]
        /\ txFiber' = To(f, "Response", kind)
        /\ txSlot' = IF kind \in Ends THEN SetState(c, "Finalizing", f) ELSE txSlot
    BY <1>4 DEF Dispatch
  <2>2. /\ Owner(c, f) /\ txSlot[c].state = "Held" /\ Backed(c, txSlot[c], a, q)
        /\ TxTypes /\ q \in Seq(TxOrders) /\ LaneFits(txSlot[c], q, txServer.block[c])
        /\ txSlot \in [TxConns -> TxSlots]
    <3>1. Owner(c, f)
      BY <1>4, SeenOwned DEF IsCurrent, OwnedStates
    <3>2. QED BY <1>1, <3>1, OwnerSees, OwnerPlace DEF TxInv, TxTypes, LanesFit
  <2>3. "Response" \in Places /\ kind \in Kinds
    BY <1>1 DEF Places, Active, Kinds
  <2>4. /\ r \in FiberRecs /\ r.at = "Response" /\ r.kind = kind /\ r.reply = "None"
        /\ r.conn = c /\ r.life = a.life /\ r.save = a.save
    BY <1>1, <2>3, MovedFields
  <2>5. txFiber' = Put(f, r)
    BY <2>1, FiberUpdates
  <2>6. o \in TxOrders /\ o.tx = f /\ o.kind = kind /\ o.failed = FALSE
    BY <2>3, OrderMade
  <2> HIDE DEF r, o
  <2>7. KindFits(r)
    BY <1>1, <2>4 DEF KindFits
  <2>8. a.life = txSlot[c].life /\ a.save # "Lost"
    BY <2>2 DEF Backed
  <2>9. /\ txSlot' \in [TxConns -> TxSlots] /\ \A d \in TxConns \ {c} : txSlot'[d] = txSlot[d]
        /\ txSlot'[c].tx = f /\ txSlot'[c].life = txSlot[c].life
        /\ txSlot'[c].state = IF kind \in Ends THEN "Finalizing" ELSE "Held"
    <3>1. CASE kind \in Ends
      <4>1. "Finalizing" \in TxStates
        BY DEF TxStates
      <4>2. txSlot' = SetState(c, "Finalizing", f)
        BY <2>1, <3>1
      <4>3. QED BY <1>1, <2>2, <3>1, <4>1, <4>2, SlotSet
    <3>2. CASE kind \notin Ends
      BY <2>1, <2>2, <3>2 DEF Owner
    <3>3. QED BY <3>1, <3>2
  <2>10. Backed(c, txSlot'[c], r, txOrders'[c])
    BY <2>4, <2>8, <2>9 DEF Backed, BacksAt, Finishing
  <2>11. LaneFits(txSlot'[c], Append(q, o), txServer.block[c])
    <3>1. CASE kind \in Ends
      <4>1. q = <<>> /\ txServer.block[c] # "Idle"
        BY <1>1, <2>2, <3>1 DEF Backed, LaneFits
      <4>2. Len(Append(q, o)) = 1 /\ Append(q, o)[1] = o
        BY <4>1, <2>6
      <4>3. QED BY <3>1, <4>1, <4>2, <2>6, <2>9 DEF LaneFits
    <3>2. CASE kind \notin Ends
      <4>1. txServer.block[c] # "Idle" /\ \A i \in 1..Len(q) : q[i].kind \in Inner
        BY <2>2 DEF LaneFits
      <4>2. \A i \in 1..Len(Append(q, o)) : Append(q, o)[i].kind \in Inner
        BY <1>1, <2>2, <2>6, <3>2, <4>1, Appended
      <4>3. QED BY <3>2, <4>1, <4>2, <2>9 DEF LaneFits
    <3>3. QED BY <3>1, <3>2
  <2>12. txSlot'[c].state \in OwnedStates
    BY <2>9 DEF OwnedStates
  <2>13. Publishes(f, c, r, o)
    BY <1>1, <2>1, <2>4, <2>5, <2>6, <2>7, <2>9, <2>10, <2>11, <2>12 DEF Publishes
  <2>14. \A d \in TxConns \ {c} : ~Owner(d, f)
    BY OwnerSees
  <2>15. QED BY <1>1, <2>4, <2>13, <2>14, PublishKeeps
<1>5. QED BY <1>2, <1>3, <1>4

-----------------------------------------------------------------------------
(* The answers of the server.                                              *)

\* Two records of a fiber that differ in the reply only.
Alike(a, r) == r.at = a.at /\ r.kind = a.kind /\ r.conn = a.conn /\ r.life = a.life /\ r.save = a.save

LEMMA BackedAlike ==
    ASSUME NEW c, NEW s, NEW a, NEW r, NEW q, Alike(a, r), Backed(c, s, a, q)
    PROVE  Backed(c, s, r, q)
  BY DEF Alike, Backed, BacksAt, Finishing

LEMMA EndsAlone ==
    ASSUME NEW s, NEW q \in Seq(TxOrders), NEW b, LaneFits(s, q, b),
           s.state \in {"Shared"} \cup OwnedStates, NEW i \in 1..Len(q), q[i].kind \in Ends
    PROVE  s.state = "Finalizing" /\ Len(q) = 1 /\ i = 1
<1>1. q[i].kind \notin Inner \cup {"Call", "Begin"}
  BY DEF Inner, Asks, Ends
<1>2. s.state = "Finalizing"
  BY <1>1 DEF LaneFits, OwnedStates
<1>3. Len(q) = 1
  BY <1>2 DEF LaneFits
<1>4. QED BY <1>2, <1>3

\* The front order of a serving lane, and what only it may change.
Serves(c) == txOrders[c] # <<>> /\ txSlot[c].state \in {"Shared"} \cup OwnedStates
Touched(h) == txFiber'[h] # txFiber[h] \/ ((h \in txServer'.committed) # (h \in txServer.committed))
Touches(c) ==
    /\ txFiber' \in [TxFibers -> FiberRecs]
    /\ \A h \in TxFibers : Alike(txFiber[h], txFiber'[h])
    /\ \A h \in TxFibers : txFiber'[h] # txFiber[h] => h = Front(c).tx /\ Live(Front(c))
    /\ \A h \in TxFibers : ((h \in txServer'.committed) # (h \in txServer.committed)) =>
          h = Front(c).tx /\ Front(c).kind \in Ends

LEMMA FrontTyped ==
    ASSUME TxInv, NEW c \in TxConns, Serves(c)
    PROVE  /\ txOrders[c] \in Seq(TxOrders) /\ 1 \in 1..Len(txOrders[c]) /\ Front(c) = txOrders[c][1]
           /\ Front(c) \in TxOrders /\ OrderFits(Front(c), c, txFiber, txServer.committed)
           /\ Len(txOrders[c]) \in Nat
           /\ LaneFits(txSlot[c], txOrders[c], txServer.block[c])
<1>1. txOrders[c] \in Seq(TxOrders) /\ txOrders[c] # <<>>
  BY LanesTyped DEF TxInv, Serves
<1>2. 1 \in 1..Len(txOrders[c]) /\ Front(c) = txOrders[c][1] /\ Len(txOrders[c]) \in Nat
  BY <1>1 DEF Front
<1>3. QED BY <1>1, <1>2, OrderTyped DEF TxInv, LanesFit

\* A step at the front of lane c leaves the other orders as good as they were.
LEMMA OthersStay ==
    ASSUME TxInv, NEW c \in TxConns, Serves(c), Touches(c),
           NEW d \in TxConns, NEW i \in 1..Len(txOrders[d]), d # c \/ i # 1
    PROVE  OrderFits(txOrders[d][i], d, txFiber', txServer'.committed)
<1> DEFINE o == txOrders[d][i]
<1>1. o \in TxOrders /\ OrderFits(o, d, txFiber, txServer.committed)
  BY OrderTyped
<1>2. /\ txOrders[c] \in Seq(TxOrders) /\ 1 \in 1..Len(txOrders[c]) /\ Front(c) = txOrders[c][1]
      /\ Front(c) \in TxOrders /\ OrderFits(Front(c), c, txFiber, txServer.committed)
      /\ LaneFits(txSlot[c], txOrders[c], txServer.block[c])
  BY FrontTyped
<1>3. d = c => o.kind \notin Ends
  BY <1>2, EndsAlone DEF Serves
<1>4. d = c /\ Live(o) /\ Live(Front(c)) => o.tx # Front(c).tx
  BY <1>2 DEF TxInv, OneAwaited
<1>5. d = c => Front(c).kind \notin Ends
  <2> SUFFICES ASSUME d = c, Front(c).kind \in Ends PROVE FALSE
    OBVIOUS
  <2>1. Len(txOrders[c]) = 1
    BY <1>2, EndsAlone DEF Serves
  <2>2. QED BY <2>1
<1> HIDE DEF o
<1>6. CASE o.tx = NoFiber
  BY <1>1, <1>6, TxAssumption DEF OrderFits, o
<1>7. CASE o.tx \in TxFibers /\ ~Touched(o.tx)
  BY <1>1, <1>7, OrderStays DEF Touched, o
<1>8. CASE o.tx \in TxFibers /\ Touched(o.tx)
  <2> DEFINE h == o.tx
  <2>1. h = Front(c).tx /\ (Live(Front(c)) \/ Front(c).kind \in Ends)
    BY <1>8 DEF Touches, Touched
  <2>2. txFiber[h].conn = c
    BY <1>2, <1>8, <2>1 DEF OrderFits, Awaited, Closes
  <2>3. Live(o) \/ o.kind \in Ends => d = c
    BY <1>1, <1>8, <2>2 DEF OrderFits, Awaited, Closes
  <2>4. ~Live(o) /\ o.kind \notin Ends
    BY <1>3, <1>4, <1>5, <2>1, <2>3
  <2>5. QED BY <1>8, <2>4, OrderIdle DEF o
<1>9. QED BY <1>1, <1>6, <1>7, <1>8 DEF TxOrders

LEMMA Popped ==
    ASSUME NEW q \in Seq(TxOrders), q # <<>>
    PROVE  /\ Tail(q) \in Seq(TxOrders) /\ Len(Tail(q)) = Len(q) - 1 /\ Len(q) \in Nat
           /\ \A i \in 1..Len(Tail(q)) : i + 1 \in 1..Len(q) /\ i + 1 # 1 /\ Tail(q)[i] = q[i + 1]
  OBVIOUS

\* Every order of lane d was in it before, one place further back in lane c.
Shifts(c, d) == \A i \in 1..Len(txOrders'[d]) : \E j \in 1..Len(txOrders[d]) :
    /\ d # c \/ j # 1
    /\ txOrders'[d][i] = txOrders[d][j]
    /\ j = IF d = c THEN i + 1 ELSE i

LEMMA OneAwaitedShifted ==
    ASSUME OneAwaited, NEW c \in TxConns, \A d \in TxConns : Shifts(c, d)
    PROVE  OneAwaited'
<1> SUFFICES ASSUME NEW d \in TxConns, NEW i \in 1..Len(txOrders'[d]), NEW j \in 1..Len(txOrders'[d]),
                    Live(txOrders'[d][i]), Live(txOrders'[d][j]),
                    txOrders'[d][i].tx = txOrders'[d][j].tx
             PROVE  i = j
  BY DEF OneAwaited
<1>1. PICK m \in 1..Len(txOrders[d]) :
        txOrders'[d][i] = txOrders[d][m] /\ m = IF d = c THEN i + 1 ELSE i
  BY DEF Shifts
<1>2. PICK n \in 1..Len(txOrders[d]) :
        txOrders'[d][j] = txOrders[d][n] /\ n = IF d = c THEN j + 1 ELSE j
  BY DEF Shifts
<1>3. m = n
  BY <1>1, <1>2 DEF OneAwaited
<1>4. QED BY <1>1, <1>2, <1>3

LEMMA PopKeeps ==
    ASSUME TxInv, NEW c \in TxConns, Serves(c), Touches(c), FibersFit',
           txOrders' = [txOrders EXCEPT ![c] = Tail(@)],
           NEW next \in TxStates, NEW tx \in TxFibers \cup {NoFiber}, txSlot' = SetState(c, next, tx),
           next \in OwnedStates =>
              /\ txSlot[c].state \in OwnedStates /\ tx = txSlot[c].tx
              /\ next = txSlot[c].state \/ (txSlot[c].state = "Reserved" /\ next = "Held"),
           LaneFits(txSlot'[c], Tail(txOrders[c]), txServer'.block[c]),
           txServer' \in ServerType,
           \A d \in TxConns \ {c} : txServer'.block[d] = txServer.block[d]
    PROVE  TxInv'
<1> DEFINE q == txOrders[c]
<1>0. /\ q \in Seq(TxOrders) /\ q # <<>> /\ TxTypes /\ txOrders \in [TxConns -> Seq(TxOrders)]
      /\ OwnersBack /\ LanesFit /\ OneAwaited
  BY FrontTyped DEF Serves, TxInv, TxTypes
<1>1. /\ txOrders' \in [TxConns -> Seq(TxOrders)] /\ txOrders'[c] = Tail(q)
      /\ \A d \in TxConns \ {c} : txOrders'[d] = txOrders[d]
  <2>1. Tail(q) \in Seq(TxOrders)
    BY <1>0, Popped
  <2>2. QED BY <1>0, <2>1
<1>2. /\ txSlot' \in [TxConns -> TxSlots]
      /\ txSlot'[c].state = next /\ txSlot'[c].tx = tx /\ txSlot'[c].life = txSlot[c].life
      /\ \A d \in TxConns \ {c} : txSlot'[d] = txSlot[d]
  BY <1>0, SlotSet
<1>3. TxTypes'
  BY <1>1, <1>2 DEF TxTypes, ServerType, Touches
<1>4. LanesFit'
  BY <1>0, <1>1, <1>2 DEF LanesFit
<1>5. OwnersBack'
  <2> SUFFICES ASSUME NEW d \in TxConns, txSlot'[d].state \in OwnedStates
               PROVE  /\ txSlot'[d].tx \in TxFibers
                      /\ Backed(d, txSlot'[d], txFiber'[txSlot'[d].tx], txOrders'[d])
    BY DEF OwnersBack
  <2>1. CASE d # c
    <3>1. txSlot'[d] = txSlot[d] /\ txOrders'[d] = txOrders[d]
      BY <1>1, <1>2, <2>1
    <3>2. txSlot[d].tx \in TxFibers /\ Backed(d, txSlot[d], txFiber[txSlot[d].tx], txOrders[d])
      BY <1>0, <3>1 DEF OwnersBack
    <3>3. Alike(txFiber[txSlot[d].tx], txFiber'[txSlot[d].tx])
      BY <3>2 DEF Touches
    <3>4. QED BY <3>1, <3>2, <3>3, BackedAlike
  <2>2. CASE d = c
    <3> DEFINE h == txSlot[c].tx
    <3>1. /\ txSlot[c].state \in OwnedStates /\ txSlot'[c].tx = h
          /\ txSlot'[c].state = txSlot[c].state \/ (txSlot[c].state = "Reserved" /\ txSlot'[c].state = "Held")
      BY <1>2, <2>2
    <3>2. h \in TxFibers /\ Backed(c, txSlot[c], txFiber[h], q)
      BY <1>0, <3>1 DEF OwnersBack
    <3>3. Alike(txFiber[h], txFiber'[h])
      BY <3>2 DEF Touches
    <3>4. Backed(c, txSlot[c], txFiber'[h], q)
      BY <3>2, <3>3, BackedAlike
    <3> HIDE DEF h
    <3>5. BacksAt(txSlot'[c], txFiber'[h])
      BY <3>1, <3>4 DEF Backed, BacksAt, Finishing
    <3>6. Backed(c, txSlot'[c], txFiber'[h], txOrders'[c])
      BY <1>0, <1>2, <3>4, <3>5 DEF Backed
    <3>7. QED BY <2>2, <3>1, <3>2, <3>6
  <2>3. QED BY <2>1, <2>2
<1>6. ASSUME NEW d \in TxConns
      PROVE  Shifts(c, d)
  <2>1. CASE d = c
    BY <1>0, <1>1, <2>1, Popped DEF Shifts
  <2>2. CASE d # c
    BY <1>1, <2>2 DEF Shifts
  <2>3. QED BY <2>1, <2>2
<1>7. OrdersFit'
  <2> SUFFICES ASSUME NEW d \in TxConns, NEW i \in 1..Len(txOrders'[d])
               PROVE  OrderFits(txOrders'[d][i], d, txFiber', txServer'.committed)
    BY DEF OrdersFit
  <2>1. PICK j \in 1..Len(txOrders[d]) :
          (d # c \/ j # 1) /\ txOrders'[d][i] = txOrders[d][j]
    BY <1>6 DEF Shifts
  <2>2. QED BY <2>1, OthersStay
<1>8. OneAwaited'
  BY <1>0, <1>6, OneAwaitedShifted
<1>9. QED BY <1>3, <1>4, <1>5, <1>7, <1>8 DEF TxInv

\* ReadyForQuery after the front order moves the slot so that the lane still fits.
LEMMA SettledLane ==
    ASSUME NEW s, NEW q \in Seq(TxOrders), q # <<>>, NEW b \in Blocks, LaneFits(s, q, b),
           s.state \in {"Shared"} \cup OwnedStates,
           NEW e \in Blocks,
           \/ e = b /\ q[1].failed
           \/ e = Ran(q[1].kind, b),
           NEW t, t.state = NextState(s.state, e)
    PROVE  LaneFits(t, Tail(q), e)
<1>0. /\ Len(q) \in Nat /\ Len(Tail(q)) = Len(q) - 1 /\ 1 \in 1..Len(q) /\ Len(q) >= 1
      /\ Tail(q) \in Seq(TxOrders)
  BY Popped
<1>1. \A i \in 1..Len(Tail(q)) : i + 1 \in 1..Len(q) /\ i + 1 # 1 /\ Tail(q)[i] = q[i + 1]
  BY Popped
<1>2. CASE s.state = "Shared"
  <2>1. b = "Idle" /\ \A i \in 1..Len(q) : q[i].kind = "Call"
    BY <1>2 DEF LaneFits
  <2>2. q[1].kind = "Call"
    BY <2>1, <1>0
  <2>3. e = "Idle" /\ t.state = "Shared"
    BY <1>2, <2>1, <2>2 DEF Ran, NextState, Ends
  <2>4. \A i \in 1..Len(Tail(q)) : Tail(q)[i].kind = "Call"
    BY <1>1, <2>1
  <2>5. QED BY <2>3, <2>4 DEF LaneFits
<1>3. CASE s.state = "Reserved"
  <2>1. b = "Idle" /\ \A i \in 1..Len(q) : q[i].kind = "Call" \/ (q[i].kind = "Begin" /\ i = Len(q))
    BY <1>3 DEF LaneFits
  <2>2. CASE e = "Idle"
    <3>1. t.state = "Reserved"
      BY <1>3, <2>2 DEF NextState
    <3>2. ASSUME NEW i \in 1..Len(Tail(q))
          PROVE  Tail(q)[i].kind = "Call" \/ (Tail(q)[i].kind = "Begin" /\ i = Len(Tail(q)))
      <4>1. i + 1 \in 1..Len(q) /\ Tail(q)[i] = q[i + 1]
        BY <1>1
      <4>2. q[i + 1].kind = "Call" \/ (q[i + 1].kind = "Begin" /\ i + 1 = Len(q))
        BY <4>1, <2>1
      <4>3. QED BY <4>1, <4>2, <1>0
    <3>3. QED BY <2>2, <3>1, <3>2 DEF LaneFits
  <2>3. CASE e # "Idle"
    <3>1. q[1].kind = "Begin"
      BY <2>1, <2>3, <1>0 DEF Ran, Ends
    <3>2. Len(q) = 1
      <4>1. q[1].kind # "Call"
        BY <3>1
      <4>2. QED BY <2>1, <4>1, <1>0
    <3>3. Len(Tail(q)) = 0 /\ t.state = "Held"
      <4>1. t.state = "Held"
        BY <1>3, <2>3 DEF NextState
      <4>2. QED BY <4>1, <1>0, <3>2
    <3>4. \A i \in 1..Len(Tail(q)) : Tail(q)[i].kind \in Inner
      <4>1. ASSUME NEW i \in 1..Len(Tail(q)) PROVE FALSE
        BY <1>0, <1>1, <3>2
      <4>2. QED BY <4>1
    <3>5. QED BY <2>3, <3>3, <3>4 DEF LaneFits
  <2>4. QED BY <2>2, <2>3
<1>4. CASE s.state = "Held"
  <2>1. b # "Idle" /\ \A i \in 1..Len(q) : q[i].kind \in Inner
    BY <1>4 DEF LaneFits
  <2>2. q[1].kind \in Inner
    BY <2>1, <1>0
  <2>3. e # "Idle" /\ t.state = "Held"
    BY <1>4, <2>1, <2>2 DEF Ran, NextState, Inner, Asks, Ends
  <2>4. \A i \in 1..Len(Tail(q)) : Tail(q)[i].kind \in Inner
    BY <1>1, <2>1
  <2>5. QED BY <2>3, <2>4 DEF LaneFits
<1>5. CASE s.state = "Finalizing"
  <2>1. Len(q) = 1 /\ q[1].kind \in Ends /\ (q[1].failed <=> b = "Idle")
    BY <1>5 DEF LaneFits
  <2>2. e = "Idle" /\ t.state = "Shared"
    BY <1>5, <2>1 DEF Ran, NextState, Ends
  <2>3. Len(Tail(q)) = 0
    BY <2>1, <1>0
  <2>4. ASSUME NEW i \in 1..Len(Tail(q)) PROVE Tail(q)[i].kind = "Call"
    <3>1. i \in 1..0
      BY <2>3
    <3>2. QED BY <3>1
  <2>5. QED BY <2>2, <2>4 DEF LaneFits
<1>6. QED BY <1>2, <1>3, <1>4, <1>5 DEF OwnedStates

LEMMA NextStates ==
    ASSUME NEW state \in {"Shared"} \cup OwnedStates, NEW e
    PROVE  /\ NextState(state, e) \in TxStates
           /\ NextState(state, e) = "Shared" \/ NextState(state, e) \in OwnedStates
           /\ NextState(state, e) \in OwnedStates =>
                /\ state \in OwnedStates
                /\ NextState(state, e) = state \/ (state = "Reserved" /\ NextState(state, e) = "Held")
  BY DEF NextState, OwnedStates, TxStates

\* What the server's step and the answer to the front order make of the invariant, once the
\* fibers are known to fit.
LEMMA SettleKeeps ==
    ASSUME TxInv, NEW c \in TxConns, Serves(c), Touches(c), FibersFit',
           Settle(c, txServer'.block[c]), txServer' \in ServerType,
           \A d \in TxConns \ {c} : txServer'.block[d] = txServer.block[d],
           \/ txServer'.block[c] = txServer.block[c] /\ Front(c).failed
           \/ txServer'.block[c] = Ran(Front(c).kind, txServer.block[c])
    PROVE  TxInv'
<1> DEFINE s == txSlot[c]
           e == txServer'.block[c]
           next == NextState(s.state, e)
           tx == IF next = "Shared" THEN NoFiber ELSE s.tx
           q == txOrders[c]
<1>1. txOrders' = [txOrders EXCEPT ![c] = Tail(@)] /\ txSlot' = SetState(c, next, tx)
  BY DEF Settle
<1>2. /\ q \in Seq(TxOrders) /\ q # <<>> /\ Front(c) = q[1] /\ TxTypes
      /\ LaneFits(s, q, txServer.block[c]) /\ s.state \in {"Shared"} \cup OwnedStates
      /\ txServer.block[c] \in Blocks /\ e \in Blocks /\ s.tx \in TxFibers \cup {NoFiber}
  BY FrontTyped DEF Serves, TxInv, TxTypes, TxSlots, ServerType, Blocks
<1>3. /\ next \in TxStates /\ tx \in TxFibers \cup {NoFiber}
      /\ next \in OwnedStates =>
            /\ s.state \in OwnedStates /\ tx = s.tx
            /\ next = s.state \/ (s.state = "Reserved" /\ next = "Held")
  <2>1. "Shared" \notin OwnedStates
    BY DEF OwnedStates
  <2>2. /\ next \in TxStates
        /\ next \in OwnedStates =>
             /\ s.state \in OwnedStates
             /\ next = s.state \/ (s.state = "Reserved" /\ next = "Held")
    BY <1>2, NextStates
  <2> HIDE DEF next
  <2>3. tx \in TxFibers \cup {NoFiber} /\ (next \in OwnedStates => tx = s.tx)
    BY <1>2, <2>1
  <2>4. QED BY <2>2, <2>3
<1>4. txSlot'[c].state = next
  BY <1>1, <1>2, <1>3, SlotSet
<1>5. LaneFits(txSlot'[c], Tail(q), e)
  BY <1>2, <1>4, SettledLane
<1> HIDE DEF next, tx
<1>6. QED BY <1>1, <1>3, <1>5, PopKeeps

LEMMA ServingServes ==
    ASSUME TxInv, NEW c \in TxConns, Serving(c)
    PROVE  Serves(c)
  BY DEF TxInv, TxTypes, TxSlots, TxStates, OwnedStates, Serving, Serves

LEMMA ReadyKeeps ==
    ASSUME TxInv, NEW c \in TxConns, ReadyForQuery(c)
    PROVE  TxInv'
<1>1. /\ Serves(c) /\ Front(c).failed /\ txServer' = txServer /\ txFiber' = txFiber
      /\ Settle(c, txServer'.block[c])
  BY ServingServes DEF ReadyForQuery, Block
<1>2. Touches(c)
  BY <1>1 DEF Touches, Alike, TxInv, TxTypes
<1>3. FibersFit'
  BY <1>1 DEF FibersFit, TxInv
<1>4. txServer' \in ServerType
  BY <1>1 DEF TxInv, TxTypes, ServerType
<1>5. QED BY <1>1, <1>2, <1>3, <1>4, SettleKeeps

Replied(r, reply) == [r EXCEPT !.reply = reply]

LEMMA RepliedFields ==
    ASSUME NEW r \in FiberRecs, NEW reply \in {"None", "Ok", "Error"}
    PROVE  /\ Replied(r, reply) \in FiberRecs /\ Replied(r, reply).reply = reply
           /\ Alike(r, Replied(r, reply))
  BY DEF FiberRecs, Replied, Alike

LEMMA AnsweredFacts ==
    ASSUME TxInv, NEW c \in TxConns, Serves(c), NEW reply \in {"None", "Ok", "Error"},
           ~Front(c).failed, Answered(c, reply)
    PROVE  /\ txFiber' \in [TxFibers -> FiberRecs]
           /\ \A h \in TxFibers : Alike(txFiber[h], txFiber'[h])
           /\ \A h \in TxFibers : txFiber'[h] # txFiber[h] => h = Front(c).tx /\ Live(Front(c))
           /\ Front(c).attached => Front(c).tx \in TxFibers /\ txFiber'[Front(c).tx].reply = reply
           /\ ~Front(c).attached => txFiber' = txFiber
<1> DEFINE o == Front(c)
<1>1. o \in TxOrders /\ OrderFits(o, c, txFiber, txServer.committed)
  BY FrontTyped
<1>2. txFiber \in [TxFibers -> FiberRecs]
  BY DEF TxInv, TxTypes
<1>3. CASE ~o.attached
  <2>1. txFiber' = txFiber
    BY <1>3 DEF Answered
  <2>2. QED BY <1>2, <1>3, <2>1 DEF Alike
<1>4. CASE o.attached
  <2>1. o.tx \in TxFibers
    BY <1>1, <1>4 DEF OrderFits, TxOrders
  <2>2. txFiber' = [txFiber EXCEPT ![o.tx].reply = reply]
    BY <1>4 DEF Answered
  <2>3. txFiber' = [txFiber EXCEPT ![o.tx] = Replied(txFiber[o.tx], reply)]
    BY <2>2 DEF Replied
  <2> HIDE DEF o
  <2>4. /\ txFiber'[o.tx] = Replied(txFiber[o.tx], reply) /\ DOMAIN txFiber' = TxFibers
        /\ \A h \in TxFibers \ {o.tx} : txFiber'[h] = txFiber[h]
        /\ txFiber' \in [TxFibers -> FiberRecs]
    BY <1>2, <2>1, <2>3, RepliedFields
  <2>5. Live(o)
    BY <1>4 DEF Live, o
  <2>6. QED BY <1>2, <1>4, <2>1, <2>4, <2>5, RepliedFields DEF o, Alike
<1>5. QED BY <1>3, <1>4

LEMMA SucceedKeeps ==
    ASSUME TxInv, NEW c \in TxConns, Succeed(c)
    PROVE  TxInv'
<1> DEFINE o == Front(c)
           kind == o.kind
           b == txServer.block[c]
           e == Ran(kind, b)
           g == o.tx
<1>1. /\ Serves(c) /\ ~o.failed /\ Runnable(kind, b) /\ ~RolledBack(kind, b)
      /\ txServer' = [txServer EXCEPT
           !.block[c] = e,
           !.committed = IF kind = "Commit" /\ b = "Open" THEN @ \cup {g} ELSE @]
      /\ Answered(c, "Ok") /\ Settle(c, e)
  BY ServingServes DEF Succeed, Block, Unanswered
<1>2. /\ o \in TxOrders /\ OrderFits(o, c, txFiber, txServer.committed)
      /\ LaneFits(txSlot[c], txOrders[c], b) /\ o = txOrders[c][1]
      /\ txOrders[c] \in Seq(TxOrders) /\ 1 \in 1..Len(txOrders[c])
  BY <1>1, FrontTyped
<1>3. txServer \in ServerType /\ b \in Blocks /\ FibersFit /\ txFiber \in [TxFibers -> FiberRecs]
  BY DEF TxInv, TxTypes, ServerType, Blocks
<1>4. kind \in Ends => g \in TxFibers
  BY <1>2 DEF OrderFits, TxOrders
<1>5. /\ txServer' \in ServerType /\ txServer'.block[c] = e
      /\ \A d \in TxConns \ {c} : txServer'.block[d] = txServer.block[d]
      /\ txServer'.committed = IF kind = "Commit" /\ b = "Open" THEN txServer.committed \cup {g}
                               ELSE txServer.committed
  <2>1. e \in Blocks
    BY DEF Ran, Blocks
  <2>2. kind = "Commit" => g \in TxFibers
    BY <1>4 DEF Ends
  <2> HIDE DEF e, kind, b, g
  <2>3. QED BY <1>1, <1>3, <2>1, <2>2 DEF ServerType, Blocks
<1>6. /\ txFiber' \in [TxFibers -> FiberRecs]
      /\ \A h \in TxFibers : Alike(txFiber[h], txFiber'[h])
      /\ \A h \in TxFibers : txFiber'[h] # txFiber[h] => h = g /\ Live(o)
      /\ o.attached => g \in TxFibers /\ txFiber'[g].reply = "Ok"
      /\ ~o.attached => txFiber' = txFiber
  BY <1>1, AnsweredFacts
<1>7. kind \in Ends => b # "Idle"
  <2> SUFFICES ASSUME kind \in Ends PROVE b # "Idle"
    OBVIOUS
  <2>1. txSlot[c].state = "Finalizing"
    BY <1>1, <1>2, EndsAlone DEF Serves
  <2>2. QED BY <1>1, <1>2, <2>1 DEF LaneFits
<1>8. kind = "Commit" => b = "Open"
  BY <1>1, <1>3, <1>7 DEF RolledBack, Blocks, Ends
<1>9. Touches(c)
  <2>1. \A h \in TxFibers : ((h \in txServer'.committed) # (h \in txServer.committed)) =>
          h = g /\ kind \in Ends
    BY <1>5 DEF Ends
  <2>2. QED BY <1>6, <2>1 DEF Touches
<1>10. FibersFit'
  <2> SUFFICES ASSUME NEW h \in TxFibers
               PROVE  KindFits(txFiber'[h]) /\ Told(txFiber'[h], h \in txServer'.committed)
    BY DEF FibersFit
  <2>1. KindFits(txFiber[h]) /\ Told(txFiber[h], h \in txServer.committed)
    BY <1>3 DEF FibersFit
  <2>2. CASE h # g
    BY <1>5, <1>6, <2>1, <2>2
  <2>3. CASE h = g
    <3>1. Awaited(o, c, txFiber[g]) /\ Closes(o, c, txFiber[g], g \in txServer.committed)
      BY <1>2, <2>3 DEF OrderFits
    <3> DEFINE a == txFiber[g]
               r == txFiber'[g]
    <3>2. Alike(a, r) /\ a \in FiberRecs
      BY <1>3, <1>6, <2>3
    <3>3. CASE o.attached
      <4>1. a.reply = "None" /\ a.at \in {"Begin", "Response"} /\ a.kind = kind
        BY <1>1, <3>1, <3>3 DEF Awaited, Live
      <4>2. KindFits(r)
        BY <2>1, <2>3, <3>2, <4>1 DEF KindFits, Alike
      <4>3. CASE kind \in Ends
        <5>1. Finishing(a) /\ a.save # "Lost" /\ g \notin txServer.committed
          BY <3>1, <4>3 DEF Closes
        <5>2. (g \in txServer'.committed) <=> kind = "Commit"
          BY <1>5, <1>8, <5>1
        <5>3. Told(r, g \in txServer'.committed)
          BY <3>2, <4>1, <4>3, <5>1, <5>2 DEF Told, Alike, Finishing
        <5>4. QED BY <2>3, <4>2, <5>3
      <4>4. CASE kind \notin Ends
        <5>1. txServer'.committed = txServer.committed
          BY <1>5, <4>4 DEF Ends
        <5>2. Told(r, g \in txServer'.committed)
          BY <2>1, <2>3, <3>2, <4>1, <4>4, <5>1 DEF Told, Alike, Finishing
        <5>3. QED BY <2>3, <4>2, <5>2
      <4>5. QED BY <4>3, <4>4
    <3>4. CASE ~o.attached
      <4>1. r = a
        BY <1>6, <3>4
      <4>2. CASE kind = "Commit"
        <5>1. a.kind = "Commit" /\ Finishing(a) /\ a.save # "Lost" /\ a.reply # "Ok"
          BY <3>1, <4>2 DEF Closes, Ends
        <5>2. QED BY <2>1, <2>3, <4>1, <5>1 DEF Told
      <4>3. CASE kind # "Commit"
        BY <1>5, <2>1, <2>3, <4>1, <4>3
      <4>4. QED BY <4>2, <4>3
    <3>5. QED BY <3>3, <3>4
  <2>4. QED BY <2>2, <2>3
<1>11. QED BY <1>1, <1>5, <1>9, <1>10, SettleKeeps

FailedOrder(o) == [o EXCEPT !.failed = TRUE]
FailedLane(q) == [q EXCEPT ![1] = FailedOrder(q[1])]

LEMMA FailedOrderFields ==
    ASSUME NEW o \in TxOrders
    PROVE  /\ FailedOrder(o) \in TxOrders /\ FailedOrder(o).failed = TRUE
           /\ FailedOrder(o).tx = o.tx /\ FailedOrder(o).kind = o.kind
           /\ FailedOrder(o).attached = o.attached
  BY DEF TxOrders, FailedOrder

LEMMA FailedLaneFields ==
    ASSUME NEW q \in Seq(TxOrders), q # <<>>
    PROVE  /\ FailedLane(q) \in Seq(TxOrders) /\ Len(FailedLane(q)) = Len(q)
           /\ FailedLane(q)[1] = FailedOrder(q[1])
           /\ \A i \in 1..Len(q) : i # 1 => FailedLane(q)[i] = q[i]
           /\ \A i \in 1..Len(q) : FailedLane(q)[i].tx = q[i].tx /\ FailedLane(q)[i].kind = q[i].kind
<1>1. 1 \in 1..Len(q) /\ Len(q) \in Nat /\ \A i \in 1..Len(q) : q[i] \in TxOrders
  OBVIOUS
<1>2. FailedOrder(q[1]) \in TxOrders
  BY <1>1, FailedOrderFields
<1> DEFINE v == FailedOrder(q[1])
           p == [q EXCEPT ![1] = v]
<1>3. v.tx = q[1].tx /\ v.kind = q[1].kind
  BY <1>1, FailedOrderFields
<1> HIDE DEF v
<1>4. /\ p \in Seq(TxOrders) /\ Len(p) = Len(q) /\ p[1] = v
      /\ \A i \in 1..Len(q) : i # 1 => p[i] = q[i]
  BY <1>1, <1>2 DEF v
<1> HIDE DEF p
<1>5. \A i \in 1..Len(q) : p[i].tx = q[i].tx /\ p[i].kind = q[i].kind
  BY <1>3, <1>4
<1>6. QED BY <1>4, <1>5 DEF p, v, FailedLane

LEMMA TxFailKeeps ==
    ASSUME TxInv, NEW c \in TxConns, TxFail(c)
    PROVE  TxInv'
<1> DEFINE o == Front(c)
           kind == o.kind
           b == txServer.block[c]
           e == Refused(kind, b)
           g == o.tx
           q == txOrders[c]
<1>1. /\ Serves(c) /\ ~o.failed /\ kind # "Rollback"
      /\ txServer' = [txServer EXCEPT !.block[c] = e]
      /\ txOrders' = [txOrders EXCEPT ![c][1].failed = TRUE]
      /\ Answered(c, "Error") /\ txSlot' = txSlot
  BY ServingServes DEF TxFail, Unanswered
<1>2. /\ o \in TxOrders /\ OrderFits(o, c, txFiber, txServer.committed)
      /\ LaneFits(txSlot[c], q, b) /\ o = q[1] /\ q # <<>>
      /\ q \in Seq(TxOrders) /\ 1 \in 1..Len(q)
  BY <1>1, FrontTyped DEF Serves
<1>3. /\ txServer \in ServerType /\ b \in Blocks /\ FibersFit /\ txFiber \in [TxFibers -> FiberRecs]
      /\ txOrders \in [TxConns -> Seq(TxOrders)] /\ LanesFit /\ OwnersBack /\ OneAwaited
      /\ txSlot \in [TxConns -> TxSlots]
  BY DEF TxInv, TxTypes, ServerType, Blocks
<1>4. /\ txServer' \in ServerType /\ txServer'.block[c] = e
      /\ \A d \in TxConns \ {c} : txServer'.block[d] = txServer.block[d]
      /\ txServer'.committed = txServer.committed
  <2>1. e \in Blocks
    BY DEF Refused, Blocks
  <2> HIDE DEF e, b
  <2>2. QED BY <1>1, <1>3, <2>1 DEF ServerType, Blocks
<1>5. /\ txOrders' \in [TxConns -> Seq(TxOrders)] /\ txOrders'[c] = FailedLane(q)
      /\ \A d \in TxConns \ {c} : txOrders'[d] = txOrders[d]
  <2>1. txOrders' = [txOrders EXCEPT ![c] = FailedLane(q)]
    BY <1>1 DEF FailedLane, FailedOrder
  <2>2. FailedLane(q) \in Seq(TxOrders)
    BY <1>2, FailedLaneFields
  <2>3. QED BY <1>3, <2>1, <2>2
<1>6. /\ txFiber' \in [TxFibers -> FiberRecs]
      /\ \A h \in TxFibers : Alike(txFiber[h], txFiber'[h])
      /\ \A h \in TxFibers : txFiber'[h] # txFiber[h] => h = g /\ Live(o)
      /\ o.attached => g \in TxFibers /\ txFiber'[g].reply = "Error"
      /\ ~o.attached => txFiber' = txFiber
  BY <1>1, AnsweredFacts
<1>7. Touches(c)
  BY <1>4, <1>6 DEF Touches
<1>8. TxTypes'
  BY <1>1, <1>3, <1>4, <1>5, <1>6 DEF TxTypes, ServerType
<1>9. FibersFit'
  <2> SUFFICES ASSUME NEW h \in TxFibers
               PROVE  KindFits(txFiber'[h]) /\ Told(txFiber'[h], h \in txServer'.committed)
    BY DEF FibersFit
  <2>1. KindFits(txFiber[h]) /\ Told(txFiber[h], h \in txServer.committed)
    BY <1>3 DEF FibersFit
  <2>2. CASE txFiber'[h] = txFiber[h]
    BY <1>4, <2>1, <2>2
  <2>3. CASE txFiber'[h] # txFiber[h]
    <3>1. h = g /\ Live(o)
      BY <1>6, <2>3
    <3>2. txFiber'[h].reply = "Error" /\ Alike(txFiber[h], txFiber'[h])
      BY <1>6, <3>1 DEF Live
    <3>3. txFiber[h].at \in {"Begin", "Response"}
      BY <1>2, <3>1 DEF OrderFits, Awaited
    <3>4. QED BY <1>4, <2>1, <3>2, <3>3 DEF KindFits, Told, Alike, Finishing
  <2>4. QED BY <2>2, <2>3
<1>10. OwnersBack'
  <2> SUFFICES ASSUME NEW d \in TxConns, txSlot[d].state \in OwnedStates
               PROVE  /\ txSlot[d].tx \in TxFibers
                      /\ Backed(d, txSlot[d], txFiber'[txSlot[d].tx], txOrders'[d])
    BY <1>1 DEF OwnersBack
  <2>1. txSlot[d].tx \in TxFibers /\ Backed(d, txSlot[d], txFiber[txSlot[d].tx], txOrders[d])
    BY <1>3 DEF OwnersBack
  <2>2. Backed(d, txSlot[d], txFiber'[txSlot[d].tx], txOrders[d])
    BY <1>6, <2>1, BackedAlike
  <2>3. txOrders[d] = <<>> => txOrders'[d] = <<>>
    BY <1>2, <1>5
  <2>4. QED BY <2>1, <2>2, <2>3 DEF Backed
<1>11. LanesFit'
  <2> SUFFICES ASSUME NEW d \in TxConns
               PROVE  LaneFits(txSlot[d], txOrders'[d], txServer'.block[d])
    BY <1>1 DEF LanesFit
  <2>1. CASE d # c
    BY <1>3, <1>4, <1>5, <2>1 DEF LanesFit
  <2>2. CASE d = c
    <3> DEFINE p == FailedLane(q)
               s == txSlot[c]
    <3>1. /\ Len(p) = Len(q) /\ p[1] = FailedOrder(o)
          /\ \A i \in 1..Len(q) : p[i].tx = q[i].tx /\ p[i].kind = q[i].kind
      BY <1>2, FailedLaneFields
    <3>2. p[1].failed = TRUE
      BY <1>2, <3>1, FailedOrderFields
    <3> HIDE DEF p
    <3>3. CASE s.state = "Shared" \/ s.state = "Reserved"
      <4>1. b = "Idle"
        BY <1>2, <3>3 DEF LaneFits
      <4>2. e = "Idle"
        BY <4>1 DEF Refused
      <4>3. LaneFits(s, p, e)
        BY <1>2, <3>1, <3>3, <4>2 DEF LaneFits
      <4>4. QED BY <1>4, <1>5, <2>2, <4>3 DEF p
    <3>4. CASE s.state = "Held"
      <4>1. b # "Idle" /\ \A i \in 1..Len(q) : q[i].kind \in Inner
        BY <1>2, <3>4 DEF LaneFits
      <4>2. kind \in Inner
        BY <1>2, <4>1
      <4>3. e # "Idle"
        BY <4>1, <4>2 DEF Refused, Inner, Asks, Ends
      <4>4. LaneFits(s, p, e)
        BY <3>1, <3>4, <4>1, <4>3 DEF LaneFits
      <4>5. QED BY <1>4, <1>5, <2>2, <4>4 DEF p
    <3>5. CASE s.state = "Finalizing"
      <4>1. Len(q) = 1 /\ q[1].kind \in Ends /\ q[1].tx = s.tx
        BY <1>2, <3>5 DEF LaneFits
      <4>2. e = "Idle"
        BY <1>2, <4>1 DEF Refused
      <4>3. p[1].tx = q[1].tx /\ p[1].kind = q[1].kind
        BY <1>2, <3>1
      <4>4. LaneFits(s, p, e)
        BY <3>1, <3>2, <3>5, <4>1, <4>2, <4>3 DEF LaneFits
      <4>5. QED BY <1>4, <1>5, <2>2, <4>4 DEF p
    <3>6. QED BY <1>1, <3>3, <3>4, <3>5 DEF Serves, OwnedStates
  <2>3. QED BY <2>1, <2>2
<1>12. ASSUME NEW d \in TxConns, NEW i \in 1..Len(txOrders'[d])
       PROVE  /\ i \in 1..Len(txOrders[d])
              /\ d # c \/ i # 1 => txOrders'[d][i] = txOrders[d][i]
              /\ d = c /\ i = 1 => txOrders'[d][i] = FailedOrder(o)
  <2>1. CASE d = c
    BY <1>2, <1>5, <2>1, FailedLaneFields
  <2>2. CASE d # c
    BY <1>5, <2>2
  <2>3. QED BY <2>1, <2>2
<1>13. ~Live(FailedOrder(o))
  BY <1>2, FailedOrderFields DEF Live
<1>14. OrdersFit'
  <2> SUFFICES ASSUME NEW d \in TxConns, NEW i \in 1..Len(txOrders'[d])
               PROVE  OrderFits(txOrders'[d][i], d, txFiber', txServer'.committed)
    BY DEF OrdersFit
  <2>1. CASE d # c \/ i # 1
    BY <1>1, <1>7, <1>12, <2>1, OthersStay
  <2>2. CASE d = c /\ i = 1
    <3> DEFINE v == FailedOrder(o)
    <3>1. /\ v.tx = g /\ v.kind = kind /\ v.attached = o.attached
      BY <1>2, FailedOrderFields
    <3> HIDE DEF v
    <3>2. g = NoFiber => ~v.attached /\ v.kind \notin Ends
      BY <1>2, <3>1 DEF OrderFits
    <3>3. ASSUME g \in TxFibers
          PROVE  Awaited(v, c, txFiber'[g]) /\ Closes(v, c, txFiber'[g], g \in txServer'.committed)
      <4>1. Awaited(v, c, txFiber'[g])
        BY <1>13 DEF Awaited, v
      <4>2. Closes(o, c, txFiber[g], g \in txServer.committed)
        BY <1>2, <3>3 DEF OrderFits
      <4>3. Alike(txFiber[g], txFiber'[g]) /\ (txFiber'[g].reply = txFiber[g].reply \/ txFiber'[g].reply = "Error")
        BY <1>6, <3>3
      <4>4. Closes(v, c, txFiber'[g], g \in txServer'.committed)
        BY <1>4, <3>1, <4>2, <4>3 DEF Closes, Alike, Finishing
      <4>5. QED BY <4>1, <4>4
    <3>4. OrderFits(v, c, txFiber', txServer'.committed)
      BY <3>1, <3>2, <3>3 DEF OrderFits
    <3>5. QED BY <1>12, <2>2, <3>4 DEF v
  <2>3. QED BY <2>1, <2>2
<1>15. OneAwaited'
  <2> SUFFICES ASSUME NEW d \in TxConns, NEW i \in 1..Len(txOrders'[d]), NEW j \in 1..Len(txOrders'[d]),
                      Live(txOrders'[d][i]), Live(txOrders'[d][j]),
                      txOrders'[d][i].tx = txOrders'[d][j].tx
               PROVE  i = j
    BY DEF OneAwaited
  <2>1. /\ i \in 1..Len(txOrders[d]) /\ txOrders'[d][i] = txOrders[d][i]
        /\ j \in 1..Len(txOrders[d]) /\ txOrders'[d][j] = txOrders[d][j]
    BY <1>12, <1>13
  <2>2. QED BY <1>3, <2>1 DEF OneAwaited
<1>16. QED BY <1>8, <1>9, <1>10, <1>11, <1>14, <1>15 DEF TxInv

LEMMA PlainKeeps ==
    ASSUME TxInv, NEW c \in TxConns, Plain(c)
    PROVE  TxInv'
<1> DEFINE q == txOrders[c]
           o == [Order(NoFiber, "Call") EXCEPT !.attached = FALSE]
<1>1. /\ txOrders' = [txOrders EXCEPT ![c] = Append(@, o)] /\ Served /\ txSlot' = txSlot
      /\ txFiber' = txFiber /\ txSlot[c].state = "Shared"
  BY DEF Plain, Pickable, Served
<1>2. /\ TxTypes /\ FibersFit /\ OwnersBack /\ LanesFit /\ OrdersFit /\ OneAwaited
      /\ txOrders \in [TxConns -> Seq(TxOrders)] /\ q \in Seq(TxOrders)
  BY DEF TxInv, TxTypes
<1>3. o \in TxOrders /\ o.tx = NoFiber /\ o.kind = "Call" /\ o.attached = FALSE
  BY DEF Order, TxOrders, Kinds, Inner, Asks
<1> HIDE DEF o
<1>4. /\ txServer' \in ServerType /\ txServer'.block = txServer.block
      /\ txServer'.committed = txServer.committed
  BY <1>1, <1>2, ServedKept
<1>5. /\ txOrders' \in [TxConns -> Seq(TxOrders)] /\ txOrders'[c] = Append(q, o)
      /\ \A d \in TxConns \ {c} : txOrders'[d] = txOrders[d]
  <2>1. Append(q, o) \in Seq(TxOrders)
    BY <1>2, <1>3, Appended
  <2>2. QED BY <1>1, <1>2, <2>1
<1>6. TxTypes' /\ FibersFit'
  BY <1>1, <1>2, <1>4, <1>5 DEF TxTypes, FibersFit, ServerType
<1>7. OwnersBack'
  <2> SUFFICES ASSUME NEW d \in TxConns, txSlot[d].state \in OwnedStates
               PROVE  /\ txSlot[d].tx \in TxFibers
                      /\ Backed(d, txSlot[d], txFiber[txSlot[d].tx], txOrders'[d])
    BY <1>1 DEF OwnersBack
  <2>1. d # c
    BY <1>1 DEF OwnedStates
  <2>2. QED BY <1>2, <1>5, <2>1 DEF OwnersBack
<1>8. LanesFit'
  <2> SUFFICES ASSUME NEW d \in TxConns
               PROVE  LaneFits(txSlot[d], txOrders'[d], txServer.block[d])
    BY <1>1, <1>4 DEF LanesFit
  <2>1. LaneFits(txSlot[d], txOrders[d], txServer.block[d])
    BY <1>2 DEF LanesFit
  <2>2. CASE d # c
    BY <1>5, <2>1, <2>2
  <2>3. CASE d = c
    <3>1. txServer.block[c] = "Idle" /\ \A i \in 1..Len(q) : q[i].kind = "Call"
      BY <1>1, <2>1, <2>3 DEF LaneFits
    <3>2. \A i \in 1..Len(Append(q, o)) : Append(q, o)[i].kind = "Call"
      BY <1>2, <1>3, <3>1, Appended
    <3>3. LaneFits(txSlot[c], Append(q, o), txServer.block[c])
      BY <1>1, <3>1, <3>2 DEF LaneFits
    <3>4. QED BY <1>5, <2>3, <3>3
  <2>4. QED BY <2>2, <2>3
<1>9. ASSUME NEW d \in TxConns, NEW i \in 1..Len(txOrders'[d])
      PROVE  \/ i \in 1..Len(txOrders[d]) /\ txOrders'[d][i] = txOrders[d][i]
             \/ txOrders'[d][i] = o
  <2>1. CASE d = c
    BY <2>1, <1>2, <1>3, <1>5, Appended
  <2>2. CASE d # c
    BY <2>2, <1>5
  <2>3. QED BY <2>1, <2>2
<1>10. OrdersFit'
  <2> SUFFICES ASSUME NEW d \in TxConns, NEW i \in 1..Len(txOrders'[d])
               PROVE  OrderFits(txOrders'[d][i], d, txFiber, txServer.committed)
    BY <1>1, <1>4 DEF OrdersFit
  <2>1. OrderFits(o, d, txFiber, txServer.committed)
    BY <1>3, TxAssumption DEF OrderFits, Ends
  <2>2. QED BY <1>2, <1>9, <2>1 DEF OrdersFit
<1>11. OneAwaited'
  <2> SUFFICES ASSUME NEW d \in TxConns, NEW i \in 1..Len(txOrders'[d]), NEW j \in 1..Len(txOrders'[d]),
                      Live(txOrders'[d][i]), Live(txOrders'[d][j]),
                      txOrders'[d][i].tx = txOrders'[d][j].tx
               PROVE  i = j
    BY DEF OneAwaited
  <2>0. ~Live(o)
    BY <1>3 DEF Live
  <2>1. /\ i \in 1..Len(txOrders[d]) /\ txOrders'[d][i] = txOrders[d][i]
        /\ j \in 1..Len(txOrders[d]) /\ txOrders'[d][j] = txOrders[d][j]
    BY <1>9, <2>0
  <2>2. QED BY <1>2, <2>1 DEF OneAwaited
<1>12. QED BY <1>6, <1>7, <1>8, <1>10, <1>11 DEF TxInv

-----------------------------------------------------------------------------
(* Connections that close, end and open, and the end of a turn.            *)

\* A slot changes hands, and nobody owns it then.
LEMMA SlotKeeps ==
    ASSUME TxInv, NEW c \in TxConns, txSlot' \in [TxConns -> TxSlots],
           \A d \in TxConns \ {c} : txSlot'[d] = txSlot[d],
           txSlot'[c].state \notin OwnedStates,
           LaneFits(txSlot'[c], txOrders[c], txServer.block[c]),
           txFiber' = txFiber, txOrders' = txOrders, Served
    PROVE  TxInv'
<1>1. /\ TxTypes /\ FibersFit /\ OwnersBack /\ LanesFit /\ OrdersFit /\ OneAwaited
  BY DEF TxInv
<1>2. /\ txServer' \in ServerType
      /\ txServer'.block = txServer.block
      /\ txServer'.committed = txServer.committed
  BY <1>1, ServedKept
<1>3. TxTypes' /\ FibersFit' /\ OneAwaited'
  BY <1>1, <1>2 DEF TxTypes, ServerType, FibersFit, OneAwaited
<1>4. OrdersFit'
  BY <1>1, <1>2 DEF OrdersFit, OrderFits
<1>5. OwnersBack'
  BY <1>1 DEF OwnersBack
<1>6. LanesFit'
  BY <1>1, <1>2 DEF LanesFit
<1>7. QED BY <1>3, <1>4, <1>5, <1>6 DEF TxInv

LEMMA DisconnectKeeps ==
    ASSUME TxInv, NEW c \in TxConns, TxDisconnect(c)
    PROVE  TxInv'
<1>1. /\ Closed(c) /\ Served /\ txFiber' = txFiber /\ txOrders' = txOrders /\ TxTypes
  BY DEF TxDisconnect, CloseConn, Closed, Served, TxInv
<1>2. /\ txSlot' \in [TxConns -> TxSlots]
      /\ txSlot'[c].state = "Closing"
      /\ \A d \in TxConns \ {c} : txSlot'[d] = txSlot[d]
  BY <1>1, SlotClosed
<1>3. LaneFits(txSlot'[c], txOrders[c], txServer.block[c])
  BY <1>2 DEF LaneFits
<1>4. QED BY <1>1, <1>2, <1>3, SlotKeeps DEF OwnedStates

LEMMA ReopenKeeps ==
    ASSUME TxInv, NEW c \in TxConns, Reopen(c)
    PROVE  TxInv'
<1> DEFINE n == txSlot[c].life + 1
           t == [state |-> "Shared", life |-> n, tx |-> NoFiber]
<1>1. /\ txSlot[c].state = "Vacant" /\ txSlot' = [txSlot EXCEPT ![c] = t]
      /\ Served /\ txFiber' = txFiber /\ txOrders' = txOrders
  BY DEF Reopen, Served
<1>2. txSlot \in [TxConns -> TxSlots] /\ txSlot[c].life \in Nat
      /\ LaneFits(txSlot[c], txOrders[c], txServer.block[c])
  BY DEF TxInv, TxTypes, TxSlots, LanesFit
<1>3. n \in Nat
  BY <1>2
<1>4. t \in TxSlots /\ t.state = "Shared"
  BY <1>3 DEF TxSlots, TxStates
<1> HIDE DEF t
<1>5. /\ txSlot' \in [TxConns -> TxSlots] /\ txSlot'[c] = t
      /\ \A d \in TxConns \ {c} : txSlot'[d] = txSlot[d]
  BY <1>1, <1>2, <1>4
<1>6. txOrders[c] = <<>> /\ txServer.block[c] = "Idle"
  BY <1>1, <1>2 DEF LaneFits
<1>7. LaneFits(t, txOrders[c], txServer.block[c])
  BY <1>4, <1>6 DEF LaneFits
<1>8. QED BY <1>1, <1>4, <1>5, <1>7, SlotKeeps DEF OwnedStates

\* What was published in the turn is on its way: the orders of every lane are sent.
LEMMA ParkKeeps ==
    ASSUME TxInv, Park
    PROVE  TxInv'
<1>1. /\ txOrders' = Sending /\ txSlot' = txSlot /\ txServer' = txServer /\ txFiber' = txFiber
  BY DEF Park
<1>2. /\ TxTypes /\ FibersFit /\ OwnersBack /\ LanesFit /\ OrdersFit /\ OneAwaited
  BY DEF TxInv
<1>3. ASSUME NEW c \in TxConns
      PROVE  Fades(txOrders'[c], txOrders[c]) /\ txOrders[c] \in Seq(TxOrders)
  BY <1>1, <1>2, SendingFades, LanesTyped
<1>4. ASSUME NEW c \in TxConns
      PROVE  txOrders'[c] \in Seq(TxOrders) /\ (txOrders[c] = <<>> => txOrders'[c] = <<>>)
  BY <1>3 DEF Fades
<1>5. ASSUME NEW c \in TxConns, NEW i \in 1..Len(txOrders'[c])
      PROVE  /\ i \in 1..Len(txOrders[c])
             /\ txOrders'[c][i].tx = txOrders[c][i].tx /\ txOrders'[c][i].kind = txOrders[c][i].kind
             /\ Live(txOrders'[c][i]) => Live(txOrders[c][i])
             /\ txOrders'[c][i].attached => txOrders[c][i].attached
  <2>1. /\ Len(txOrders'[c]) = Len(txOrders[c])
        /\ \A j \in 1..Len(txOrders[c]) :
             /\ txOrders'[c][j].tx = txOrders[c][j].tx /\ txOrders'[c][j].kind = txOrders[c][j].kind
             /\ txOrders'[c][j].failed = txOrders[c][j].failed
             /\ txOrders'[c][j].attached => txOrders[c][j].attached
    BY <1>3 DEF Fades
  <2>2. i \in 1..Len(txOrders[c])
    BY <2>1
  <2>3. QED BY <2>1, <2>2 DEF Live
<1>6. TxTypes'
  <2>1. txOrders' = [c \in TxConns |-> txOrders'[c]]
    BY <1>1 DEF Sending
  <2>2. txOrders' \in [TxConns -> Seq(TxOrders)]
    BY <1>4, <2>1
  <2>3. QED BY <1>1, <1>2, <2>2 DEF TxTypes
<1>7. FibersFit'
  BY <1>1, <1>2 DEF FibersFit
<1>8. OwnersBack'
  BY <1>1, <1>2, <1>4 DEF OwnersBack, Backed
<1>9. LanesFit'
  BY <1>1, <1>2, <1>3, FadesLane DEF LanesFit
<1>10. OrdersFit'
  <2> SUFFICES ASSUME NEW c \in TxConns, NEW i \in 1..Len(txOrders'[c])
               PROVE  OrderFits(txOrders'[c][i], c, txFiber, txServer.committed)
    BY <1>1 DEF OrdersFit
  <2>1. OrderFits(txOrders[c][i], c, txFiber, txServer.committed)
    BY <1>2, <1>5 DEF OrdersFit
  <2>2. QED BY <1>5, <2>1 DEF OrderFits, Awaited, Closes
<1>11. OneAwaited'
  <2> SUFFICES ASSUME NEW c \in TxConns, NEW i \in 1..Len(txOrders'[c]), NEW j \in 1..Len(txOrders'[c]),
                      Live(txOrders'[c][i]), Live(txOrders'[c][j]),
                      txOrders'[c][i].tx = txOrders'[c][j].tx
               PROVE  i = j
    BY DEF OneAwaited
  <2>1. /\ i \in 1..Len(txOrders[c]) /\ j \in 1..Len(txOrders[c])
        /\ Live(txOrders[c][i]) /\ Live(txOrders[c][j]) /\ txOrders[c][i].tx = txOrders[c][j].tx
    BY <1>5
  <2>2. QED BY <1>2, <2>1 DEF OneAwaited
<1>12. QED BY <1>6, <1>7, <1>8, <1>9, <1>10, <1>11 DEF TxInv

LEMMA OwedFacts ==
    ASSUME TxInv, NEW c \in TxConns, NEW f \in Owed(c)
    PROVE  /\ f \in TxFibers /\ txFiber[f].conn = c /\ txFiber[f].at \in {"Begin", "Response"}
<1>1. PICK i \in 1..Len(txOrders[c]) :
         f = txOrders[c][i].tx /\ txOrders[c][i].attached /\ ~txOrders[c][i].failed
  BY DEF Owed
<1>2. txOrders[c][i] \in TxOrders /\ OrderFits(txOrders[c][i], c, txFiber, txServer.committed)
  BY OrderTyped
<1>3. f \in TxFibers
  BY <1>1, <1>2 DEF OrderFits, TxOrders
<1>4. QED BY <1>1, <1>2, <1>3 DEF OrderFits, Awaited, Live

LEMMA SentFacts ==
    ASSUME TxInv, NEW c \in TxConns, NEW f \in Sent(c)
    PROVE  /\ f \in TxFibers /\ txFiber[f].conn = c /\ txFiber[f].kind = "Commit"
           /\ Finishing(txFiber[f]) /\ txFiber[f].reply # "Ok" /\ txFiber[f].save # "Lost"
<1>1. PICK i \in 1..Len(txOrders[c]) : f = txOrders[c][i].tx /\ txOrders[c][i].kind = "Commit"
  BY DEF Sent
<1>2. txOrders[c][i] \in TxOrders /\ OrderFits(txOrders[c][i], c, txFiber, txServer.committed)
  BY OrderTyped
<1>3. f \in TxFibers
  BY <1>1, <1>2 DEF OrderFits, TxOrders, Ends
<1>4. QED BY <1>1, <1>2, <1>3 DEF OrderFits, Closes, Ends

Errored(r) == [r EXCEPT !.reply = "Error"]

LEMMA ErroredFields ==
    ASSUME NEW r \in FiberRecs
    PROVE  Errored(r) \in FiberRecs /\ Errored(r).reply = "Error" /\ Alike(r, Errored(r))
  BY DEF Errored, FiberRecs, Alike

LEMMA RetireKeeps ==
    ASSUME TxInv, NEW c \in TxConns, Retire(c)
    PROVE  TxInv'
<1>1. /\ TxTypes /\ FibersFit /\ OwnersBack /\ LanesFit /\ OrdersFit /\ OneAwaited
      /\ txFiber \in [TxFibers -> FiberRecs] /\ txOrders \in [TxConns -> Seq(TxOrders)]
      /\ txServer \in ServerType
  BY DEF TxInv, TxTypes, ServerType
<1>2. PICK late \in SUBSET Sent(c) :
         txServer' = [txServer EXCEPT !.block[c] = "Idle", !.committed = @ \cup late]
  BY DEF Retire
<1>3. /\ txOrders' = [txOrders EXCEPT ![c] = <<>>]
      /\ txFiber' = [f \in TxFibers |-> IF f \in Owed(c) THEN Errored(txFiber[f]) ELSE txFiber[f]]
      /\ txSlot' = SetState(c, "Vacant", NoFiber)
  BY DEF Retire, Errored
<1>4. /\ txServer' \in ServerType /\ txServer'.block[c] = "Idle"
      /\ \A d \in TxConns \ {c} : txServer'.block[d] = txServer.block[d]
      /\ txServer'.committed = txServer.committed \cup late
  <2>1. late \subseteq TxFibers
    BY <1>2, SentFacts
  <2>2. QED BY <1>1, <1>2, <2>1 DEF ServerType
<1>5. /\ txSlot' \in [TxConns -> TxSlots] /\ txSlot'[c].state = "Vacant"
      /\ \A d \in TxConns \ {c} : txSlot'[d] = txSlot[d]
  <2>1. "Vacant" \in TxStates
    BY DEF TxStates
  <2>2. QED BY <1>1, <1>3, <2>1, SlotSet
<1>6. /\ txOrders' \in [TxConns -> Seq(TxOrders)] /\ txOrders'[c] = <<>>
      /\ \A d \in TxConns \ {c} : txOrders'[d] = txOrders[d]
  <2>1. <<>> \in Seq(TxOrders)
    OBVIOUS
  <2>2. QED BY <1>1, <1>3, <2>1
<1>7. ASSUME NEW f \in TxFibers
      PROVE  /\ txFiber'[f] \in FiberRecs /\ Alike(txFiber[f], txFiber'[f])
             /\ f \in Owed(c) => txFiber'[f].reply = "Error"
             /\ f \notin Owed(c) => txFiber'[f] = txFiber[f]
  <2>1. txFiber[f] \in FiberRecs
    BY <1>1
  <2>2. CASE f \in Owed(c)
    BY <1>3, <2>1, <2>2, ErroredFields
  <2>3. CASE f \notin Owed(c)
    BY <1>3, <2>1, <2>3 DEF Alike
  <2>4. QED BY <2>2, <2>3
<1>8. TxTypes'
  <2>1. txFiber' = [f \in TxFibers |-> txFiber'[f]]
    BY <1>3
  <2>2. txFiber' \in [TxFibers -> FiberRecs]
    BY <1>7, <2>1
  <2>3. QED BY <1>4, <1>5, <1>6, <2>2 DEF TxTypes, ServerType
<1>9. FibersFit'
  <2> SUFFICES ASSUME NEW f \in TxFibers
               PROVE  KindFits(txFiber'[f]) /\ Told(txFiber'[f], f \in txServer'.committed)
    BY DEF FibersFit
  <2> DEFINE r == txFiber'[f]
  <2>1. KindFits(txFiber[f]) /\ Told(txFiber[f], f \in txServer.committed)
    BY <1>1 DEF FibersFit
  <2>2. Alike(txFiber[f], r) /\ (r.reply = "Error" \/ r = txFiber[f])
    BY <1>7
  <2>3. KindFits(r)
    <3>1. CASE f \in Owed(c)
      <4>1. txFiber[f].at # "Waiting"
        BY <3>1, OwedFacts
      <4>2. QED BY <2>1, <2>2, <4>1 DEF KindFits, Alike
    <3>2. CASE f \notin Owed(c)
      BY <1>7, <2>1, <3>2
    <3>3. QED BY <3>1, <3>2
  <2>4. Told(r, f \in txServer'.committed)
    <3>1. CASE f \in late
      <4>1. /\ txFiber[f].kind = "Commit" /\ Finishing(txFiber[f])
            /\ txFiber[f].reply # "Ok" /\ txFiber[f].save # "Lost"
        BY <3>1, SentFacts
      <4>2. QED BY <2>2, <4>1 DEF Told, Alike, Finishing
    <3>2. CASE f \notin late
      <4>1. f \in txServer'.committed <=> f \in txServer.committed
        BY <1>4, <3>2
      <4>2. QED BY <2>1, <2>2, <4>1 DEF Told, Alike, Finishing
    <3>3. QED BY <3>1, <3>2
  <2>5. QED BY <2>3, <2>4
<1>10. OwnersBack'
  <2> SUFFICES ASSUME NEW d \in TxConns, txSlot'[d].state \in OwnedStates
               PROVE  /\ txSlot'[d].tx \in TxFibers
                      /\ Backed(d, txSlot'[d], txFiber'[txSlot'[d].tx], txOrders'[d])
    BY DEF OwnersBack
  <2>1. d # c
    BY <1>5 DEF OwnedStates
  <2>2. txSlot'[d] = txSlot[d] /\ txOrders'[d] = txOrders[d]
    BY <1>5, <1>6, <2>1
  <2>3. txSlot[d].tx \in TxFibers /\ Backed(d, txSlot[d], txFiber[txSlot[d].tx], txOrders[d])
    BY <1>1, <2>2 DEF OwnersBack
  <2>4. QED BY <1>7, <2>2, <2>3, BackedAlike
<1>11. LanesFit'
  <2> SUFFICES ASSUME NEW d \in TxConns
               PROVE  LaneFits(txSlot'[d], txOrders'[d], txServer'.block[d])
    BY DEF LanesFit
  <2>1. CASE d = c
    BY <1>4, <1>5, <1>6, <2>1 DEF LaneFits
  <2>2. CASE d # c
    BY <1>1, <1>4, <1>5, <1>6, <2>2 DEF LanesFit
  <2>3. QED BY <2>1, <2>2
<1>12. ASSUME NEW d \in TxConns, NEW i \in 1..Len(txOrders'[d])
       PROVE  d # c /\ i \in 1..Len(txOrders[d]) /\ txOrders'[d][i] = txOrders[d][i]
  <2>1. CASE d = c
    BY <1>6, <2>1
  <2>2. CASE d # c
    BY <1>6, <2>2
  <2>3. QED BY <2>1, <2>2
<1>13. OrdersFit'
  <2> SUFFICES ASSUME NEW d \in TxConns, NEW i \in 1..Len(txOrders'[d])
               PROVE  OrderFits(txOrders'[d][i], d, txFiber', txServer'.committed)
    BY DEF OrdersFit
  <2> DEFINE o == txOrders[d][i]
  <2>1. d # c /\ i \in 1..Len(txOrders[d]) /\ txOrders'[d][i] = o
    BY <1>12
  <2>2. o \in TxOrders /\ OrderFits(o, d, txFiber, txServer.committed)
    BY <2>1, OrderTyped
  <2> HIDE DEF o
  <2>3. CASE o.tx = NoFiber
    BY <2>1, <2>2, <2>3, TxAssumption DEF OrderFits
  <2>4. CASE o.tx \in TxFibers /\ ~Live(o) /\ o.kind \notin Ends
    BY <2>1, <2>4, OrderIdle
  <2>5. CASE o.tx \in TxFibers /\ (Live(o) \/ o.kind \in Ends)
    <3>1. txFiber[o.tx].conn = d
      BY <2>2, <2>5 DEF OrderFits, Awaited, Closes
    <3>2. o.tx \notin Owed(c) /\ o.tx \notin late
      BY <2>1, <3>1, OwedFacts, SentFacts
    <3>3. txFiber'[o.tx] = txFiber[o.tx]
      BY <1>7, <2>5, <3>2
    <3>4. o.tx \in txServer'.committed <=> o.tx \in txServer.committed
      BY <1>4, <3>2
    <3>5. QED BY <2>1, <2>2, <3>3, <3>4, OrderStays
  <2>6. QED BY <2>2, <2>3, <2>4, <2>5 DEF TxOrders
<1>14. OneAwaited'
  BY <1>1, <1>12 DEF OneAwaited
<1>15. QED BY <1>8, <1>9, <1>10, <1>11, <1>13, <1>14 DEF TxInv

LEMMA TxInitInv ==
    ASSUME TxInit
    PROVE  TxInv
<1> DEFINE home == CHOOSE c \in TxConns : TRUE
<1>1. home \in TxConns
  BY TxAssumption
<1> HIDE DEF home
<1>2. TxTypes
  BY <1>1 DEF TxInit, home, TxTypes, TxSlots, TxStates, TxOrders, FiberRecs, Places, Active, Kinds
<1>3. FibersFit
  BY DEF TxInit, FibersFit, KindFits, Told
<1>4. OwnersBack /\ LanesFit
  BY DEF TxInit, OwnersBack, OwnedStates, LanesFit, LaneFits
<1>5. OrdersFit /\ OneAwaited
  BY DEF TxInit, OrdersFit, OneAwaited
<1>6. QED BY <1>2, <1>3, <1>4, <1>5 DEF TxInv

LEMMA TxStep ==
    ASSUME TxInv, [TxNext]_txVars
    PROVE  TxInv'
<1>1. ASSUME NEW f \in TxFibers, TxPoll(f)
      PROVE  TxInv'
  <2>1. CASE BeginWait(f)
    BY <2>1, SameStates DEF BeginWait, Served
  <2>2. QED
    BY <1>1, <2>1, BeginAdmitKeeps, BeginFullKeeps, BeginBlockedKeeps, BeginReplyKeeps, DispatchKeeps,
       ReplyKeeps, PollHoldingKeeps, PollSettlingKeeps DEF TxPoll
<1>2. ASSUME NEW f \in TxFibers, User(f)
      PROVE  TxInv'
  BY <1>2, AskKeeps, StartFinishKeeps, DropAskKeeps, DropSavepointKeeps, DropTxKeeps DEF User
<1>3. ASSUME NEW f \in TxFibers, FlushNotified(f)
      PROVE  TxInv'
  BY <1>3, SameStates DEF FlushNotified, Served
<1>4. ASSUME NEW c \in TxConns, Server(c)
      PROVE  TxInv'
  BY <1>4, SucceedKeeps, TxFailKeeps, ReadyKeeps DEF Server
<1>5. ASSUME NEW c \in TxConns, Pause(c) \/ TxResume(c)
      PROVE  TxInv'
  BY <1>5, SameStates DEF Pause, TxResume, Served
<1>6. CASE TxNext
  BY <1>1, <1>2, <1>3, <1>4, <1>5, <1>6, ExpireKeeps, ParkKeeps, PlainKeeps, DisconnectKeeps, RetireKeeps,
     ReopenKeeps DEF TxNext
<1>7. CASE UNCHANGED txVars
  BY <1>7, SameStates DEF txVars, Served
<1>8. QED BY <1>6, <1>7

LEMMA TxInvSound ==
    ASSUME TxInv
    PROVE  TxSound
<1>1. FibersFit /\ OwnersBack
  BY DEF TxInv
<1>2. TxBacked
  <2> SUFFICES ASSUME NEW c \in TxConns, txSlot[c].state \in OwnedStates
               PROVE  /\ txFiber[txSlot[c].tx].at # "Done" /\ txFiber[txSlot[c].tx].conn = c
                      /\ txFiber[txSlot[c].tx].life = txSlot[c].life
    BY DEF TxBacked, OwnedStates
  <2>1. Backed(c, txSlot[c], txFiber[txSlot[c].tx], txOrders[c])
    BY <1>1 DEF OwnersBack
  <2>2. QED BY <2>1 DEF Backed, BacksAt, OwnedStates
<1>3. CommitTruth
  BY <1>1 DEF FibersFit, Told, CommitTruth, Finishing
<1>4. QED BY <1>2, <1>3 DEF TxSound

(* For any number of fibers and connections, any room in the lanes and any *)
(* order of polls, drops, timeouts, failures and answers, the slots, lanes *)
(* and fibers of api/tx stay in step with the transaction block of the     *)
(* server.                                                                 *)
THEOREM TxInvariant == TxSpec => []TxInv
<1>1. TxInit => TxInv
  BY TxInitInv
<1>2. TxInv /\ [TxNext]_txVars => TxInv'
  BY TxStep
<1>3. QED BY <1>1, <1>2, PTL DEF TxSpec

(* A connection that a transaction owns is backed by a live fiber, and a   *)
(* transaction that reports success was ended by the server as it says     *)
(* (Finish::poll, Guard and Savepoint drops, Control::deactivate).         *)
THEOREM TxSoundCorrect == TxSpec => []TxSound
<1>1. TxInv => TxSound
  BY TxInvSound
<1>2. QED BY <1>1, TxInvariant, PTL
=============================================================================
