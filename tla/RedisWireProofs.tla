-------------------------- MODULE RedisWireProofs --------------------------
(***************************************************************************)
(* Proofs about one Redis connection, for any number of commands, any plan *)
(* of the handshake, any frames out of turn and any cut of the bytes, and  *)
(* about the request frames that its commands travel in, for any fibers,   *)
(* weights, frames and word size.                                          *)
(*                                                                         *)
(* The bytes: a reply answers no command published after it began to       *)
(* arrive, because the frontier only admits staged bytes whose receipt was *)
(* taken later (Cuts); the handshake counts a step only for bytes stamped  *)
(* with it (Hand); and while the peer sends nothing unasked, all that is   *)
(* staged, read or under way is one chain of frames that answers what was  *)
(* asked, in order (Chain, Piped), so nothing is refused.                  *)
(***************************************************************************)
EXTENDS RedisWire, RedisFrames, FiniteSetTheorems, SequenceTheorems, WellFoundedInduction, TLAPS

(* A nonempty set of natural numbers has a least one. *)
LEMMA LeastNat ==
    ASSUME NEW T, T \subseteq Nat, T # {}
    PROVE  \E x \in T : \A y \in T : x <= y
<1> DEFINE R == OpToRel(<, Nat)
<1>1. \A x, y \in Nat : <<y, x>> \in R <=> y < x
  BY DEF OpToRel
<1>2. IsWellFoundedOn(R, Nat)
  BY NatLessThanWellFounded
<1> HIDE DEF R
<1>3. PICK x \in T : \A y \in T : ~ (<<y, x>> \in R)
  BY <1>2, WFMin
<1>4. \A y \in T : y \in Nat /\ x \in Nat /\ ~ (y < x)
  BY <1>1, <1>3, Zenon
<1>5. \A y \in T : x <= y
  BY <1>4
<1> QED
  BY <1>5


-----------------------------------------------------------------------------
(* One connection: the types of what it reads and keeps.                   *)

Stages == ({"Offline", "Unsolicited", "Ready"} \X {None}) \cup ({"Init", "Advance"} \X Steps)
Links == {"vacant", "initializing", "serving", "closing"}
Live == link \in {"initializing", "serving"}
Pieces == [kind : {"ok", "error", "value"}, starts : BOOLEAN, ends : BOOLEAN]
Cells == [piece : Pieces, at : Nat, step : Nat]
Receipts == [pieces : Seq(Cells), step : Nat, cutoff : Nat]
Asked == [step : Steps] \cup [command : Nat]

Kept ==
    /\ plan \subseteq Steps
    /\ stage \in Stages /\ link \in Links
    /\ frontier \in Nat \X Nat
    /\ lane \in Seq(Nat) /\ published \in 0 .. Commands
    /\ began \in [1 .. Commands -> Nat]
Read ==
    /\ sent \in Seq(Asked) /\ net \in Seq(Pieces)
    /\ inbox \in Seq(Receipts) /\ staged \in Seq(Cells)
    /\ strays \in Nat /\ eof \in BOOLEAN

LEMMA StageParts ==
    ASSUME NEW s \in Stages
    PROVE  /\ s[1] \in {"Init", "Advance"} => s = <<s[1], s[2]>> /\ s[2] \in Steps
           /\ s[1] = "Offline" <=> s = Offline
           /\ s[1] = "Ready" <=> s = Ready
           /\ s[1] = "Unsolicited" <=> s = Unsolicited
           /\ s[1] \in {"Offline", "Unsolicited", "Ready", "Init", "Advance"}
           /\ s[2] \in Nat
BY DEF Stages, Offline, Ready, Unsolicited, Steps, None

LEMMA StageValues ==
    /\ Offline \in Stages /\ Unsolicited \in Stages /\ Ready \in Stages
    /\ \A s \in Steps : <<"Init", s>> \in Stages /\ <<"Advance", s>> \in Stages
    /\ Offline[1] = "Offline" /\ Unsolicited[1] = "Unsolicited" /\ Ready[1] = "Ready"
BY DEF Stages, Offline, Ready, Unsolicited, Steps, None

(* Plan::first and Plan::next: the least configured step that is left.     *)
LEMMA FollowingStep ==
    ASSUME plan \subseteq Steps, NEW after \in Nat
    PROVE  \/ /\ Following(after) = None
              /\ \A s \in plan : s <= after
           \/ /\ Following(after) \in plan /\ Following(after) > after
              /\ \A s \in plan : s < Following(after) <=> s <= after
<1> DEFINE rest == {s \in plan : s > after}
<1>1. CASE rest = {}
  <2>1. Following(after) = None
    BY <1>1 DEF Following
  <2>2. \A s \in plan : s <= after
    BY <1>1 DEF Steps
  <2> QED
    BY <2>1, <2>2
<1>2. CASE rest # {}
  <2>1. \E s \in rest : \A t \in rest : s <= t
    <3>1. rest \subseteq {1, 2, 3}
      <4>1. Steps = {1, 2, 3}
        BY DEF Steps
      <4> QED
        BY <4>1
    <3>2. CASE 1 \in rest
      BY <3>1, <3>2
    <3>3. CASE 1 \notin rest /\ 2 \in rest
      BY <3>1, <3>3
    <3>4. CASE 1 \notin rest /\ 2 \notin rest
      BY <1>2, <3>1, <3>4
    <3> QED
      BY <3>2, <3>3, <3>4
  <2>2. Following(after) = CHOOSE s \in rest : \A t \in rest : s <= t
    BY <1>2 DEF Following
  <2>3. Following(after) \in rest /\ \A t \in rest : Following(after) <= t
    BY <2>1, <2>2
  <2> HIDE DEF Following
  <2>4. \A s \in plan : s \in Nat
    BY DEF Steps
  <2> QED
    BY <2>3, <2>4
<1> QED
  BY <1>1, <1>2

-----------------------------------------------------------------------------
(* What the ends of a route leave behind. *)

LEMMA FailEffect ==
    ASSUME link \in Links, NEW cause, NEW policy, Fail(cause, policy)
    PROVE  /\ link' = (IF Live THEN "closing" ELSE link)
           /\ retry' = (IF retry = "open" THEN policy ELSE retry)
           /\ failure' \in {failure, cause}
           /\ ~Live => failure' = failure \/ (failure' = cause /\ cause = "truncated")
BY DEF Fail, FailRoute, Refines, Live, Links

LEMMA ShortSeqs ==
    ASSUME NEW S, NEW x \in S, NEW y \in S
    PROVE  /\ <<x>> \in Seq(S) /\ Len(<<x>>) = 1 /\ <<x>>[1] = x
           /\ <<x, y>> \in Seq(S) /\ Len(<<x, y>>) = 2 /\ <<x, y>>[1] = x /\ <<x, y>>[2] = y
OBVIOUS

LEMMA FrameShape ==
    ASSUME NEW kind \in {"ok", "error", "value"}, NEW pieces \in Frame(kind)
    PROVE  /\ pieces \in Seq(Pieces)
           /\ \/ Len(pieces) = 1 /\ pieces[1].starts /\ pieces[1].ends
              \/ /\ Len(pieces) = 2 /\ pieces[1].starts /\ ~pieces[1].ends
                 /\ ~pieces[2].starts /\ pieces[2].ends
<1>1. \A s, e \in BOOLEAN : Piece(kind, s, e) \in Pieces
  BY DEF Piece, Pieces
<1>2. \A s, e \in BOOLEAN : Piece(kind, s, e).starts = s /\ Piece(kind, s, e).ends = e
  BY DEF Piece
<1>3. CASE pieces = <<Piece(kind, TRUE, TRUE)>>
  <2>1. Piece(kind, TRUE, TRUE) \in Pieces
    BY <1>1
  <2>2. pieces \in Seq(Pieces) /\ Len(pieces) = 1 /\ pieces[1] = Piece(kind, TRUE, TRUE)
    BY <1>3, <2>1, ShortSeqs
  <2> QED
    BY <1>2, <2>2
<1>4. CASE pieces = <<Piece(kind, TRUE, FALSE), Piece(kind, FALSE, TRUE)>>
  <2>1. Piece(kind, TRUE, FALSE) \in Pieces /\ Piece(kind, FALSE, TRUE) \in Pieces
    BY <1>1
  <2>2. /\ pieces \in Seq(Pieces) /\ Len(pieces) = 2
        /\ pieces[1] = Piece(kind, TRUE, FALSE) /\ pieces[2] = Piece(kind, FALSE, TRUE)
    BY <1>4, <2>1, ShortSeqs
  <2> QED
    BY <1>2, <2>2
<1> QED
  BY <1>3, <1>4 DEF Frame

(* The first whole frame that is staged. *)
LEMMA BoundaryFirst ==
    ASSUME staged \in Seq(Cells), FrameStaged
    PROVE  /\ Boundary \in 1 .. Len(staged) /\ staged[Boundary].piece.ends
           /\ \A j \in 1 .. Boundary - 1 : ~staged[j].piece.ends
<1> DEFINE T == {i \in 1 .. Len(staged) : staged[i].piece.ends}
<1>1. T \subseteq Nat /\ T # {}
  BY DEF FrameStaged
<1>2. \E x \in T : \A y \in T : x <= y
  BY <1>1, LeastNat
<1>3. \E i \in 1 .. Len(staged) :
          staged[i].piece.ends /\ \A j \in 1 .. i - 1 : ~staged[j].piece.ends
  <2>1. PICK x \in T : \A y \in T : x <= y
    BY <1>2
  <2>2. x \in 1 .. Len(staged) /\ staged[x].piece.ends
    BY <2>1
  <2>3. ASSUME NEW j \in 1 .. x - 1 PROVE ~staged[j].piece.ends
    <3>1. j \in 1 .. Len(staged) /\ ~ (x <= j)
      BY <2>2
    <3> QED
      BY <2>1, <3>1
  <2> QED
    BY <2>2, <2>3
<1> QED
  BY <1>3 DEF Boundary

(* What arrives, is staged and is decoded. *)
LEMMA ReceiveEffect ==
    ASSUME Kept, Read, NEW n \in 1 .. 3, Receive(n)
    PROVE  \E r \in Receipts :
              /\ inbox' = Append(inbox, r)
              /\ Len(r.pieces) = n /\ n <= Len(net)
              /\ \A i \in 1 .. n : /\ r.pieces[i].piece = net[i]
                                   /\ r.pieces[i].at = published
                                   /\ r.pieces[i].step = Awaited
              /\ r.step = Awaited
              /\ r.cutoff = IF lane = <<>> THEN None ELSE Last(lane)
              /\ net' \in Seq(Pieces) /\ Len(net') = Len(net) - n
              /\ \A i \in 1 .. Len(net) - n : net'[i] = net[n + i]
<1> DEFINE cells == [i \in 1 .. n |-> [piece |-> net[i], at |-> published, step |-> Awaited]]
           cut == IF lane = <<>> THEN None ELSE Last(lane)
           r == [pieces |-> cells, step |-> Awaited, cutoff |-> cut]
<1>1. net \in Seq(Pieces) /\ n \in Nat /\ n <= Len(net) /\ Len(net) \in Nat
  BY DEF Read, Receive
<1>2. Awaited \in Nat
  BY StageParts DEF Awaited, Kept, None
<1>3. published \in Nat
  BY DEF Kept
<1>4. \A i \in 1 .. n : [piece |-> net[i], at |-> published, step |-> Awaited] \in Cells
  <2>1. \A i \in 1 .. n : net[i] \in Pieces
    BY <1>1
  <2> QED
    BY <1>2, <1>3, <2>1 DEF Cells
<1>5. cells \in Seq(Cells) /\ Len(cells) = n
  <2>1. cells \in [1 .. n -> Cells]
    BY <1>4
  <2> HIDE DEF cells
  <2> QED
    BY <1>1, <2>1
<1>6. cut \in Nat
  BY DEF Kept, None, Last
<1> HIDE DEF cut
<1>7. r \in Receipts /\ r.pieces = cells /\ r.step = Awaited /\ r.cutoff = cut
  BY <1>2, <1>5, <1>6 DEF Receipts
<1>8. inbox' = Append(inbox, r)
  BY DEF Receive, cut
<1>9. /\ net' \in Seq(Pieces) /\ Len(net') = Len(net) - n
      /\ \A i \in 1 .. Len(net) - n : net'[i] = net[n + i]
  <2>1. net' = SubSeq(net, n + 1, Len(net))
    BY DEF Receive
  <2>2. \A i \in n + 1 .. Len(net) : net[i] \in Pieces
    BY <1>1
  <2>3. n + 1 \in Int /\ Len(net) \in Int
    BY <1>1
  <2>4. /\ SubSeq(net, n + 1, Len(net)) \in Seq(Pieces)
        /\ Len(SubSeq(net, n + 1, Len(net))) =
              IF n + 1 <= Len(net) THEN Len(net) - (n + 1) + 1 ELSE 0
        /\ \A i \in 1 .. Len(net) - (n + 1) + 1 :
              SubSeq(net, n + 1, Len(net))[i] = net[(n + 1) + i - 1]
    BY <2>2, <2>3, SubSeqProperties
  <2>5. Len(net) - (n + 1) + 1 = Len(net) - n /\ \A i \in Nat : (n + 1) + i - 1 = n + i
    BY <1>1
  <2>6. Len(net) - n \in Nat
    BY <1>1
  <2>7. Len(net') = Len(net) - n
    BY <1>1, <2>1, <2>4
  <2>8. ASSUME NEW i \in 1 .. Len(net) - n PROVE net'[i] = net[n + i]
    <3>1. i \in Nat /\ i \in 1 .. Len(net) - (n + 1) + 1
      BY <2>5, <2>6
    <3> QED
      BY <2>1, <2>4, <2>5, <3>1
  <2> QED
    BY <2>1, <2>4, <2>7, <2>8
<1>10. \A i \in 1 .. n : /\ cells[i].piece = net[i]
                         /\ cells[i].at = published
                         /\ cells[i].step = Awaited
  OBVIOUS
<1>11. cut = IF lane = <<>> THEN None ELSE Last(lane)
  BY DEF cut
<1> HIDE DEF cells, r
<1> QED
  BY <1>1, <1>5, <1>7, <1>8, <1>9, <1>10, <1>11

LEMMA ReceivedEffect ==
    ASSUME Read, Received
    PROVE  /\ Head(inbox) \in Receipts /\ inbox # <<>>
           /\ staged' \in Seq(Cells)
           /\ Len(staged') = Len(staged) + Len(Head(inbox).pieces)
           /\ \A i \in 1 .. Len(staged) : staged'[i] = staged[i]
           /\ \A i \in 1 .. Len(Head(inbox).pieces) :
                 staged'[Len(staged) + i] = Head(inbox).pieces[i]
           /\ inbox' \in Seq(Receipts) /\ Len(inbox') = Len(inbox) - 1
           /\ \A i \in 1 .. Len(inbox) - 1 : inbox'[i] = inbox[i + 1]
<1>1. /\ inbox # <<>> /\ staged' = staged \o Head(inbox).pieces /\ inbox' = Tail(inbox)
  BY DEF Received
<1>2. /\ inbox \in Seq(Receipts) /\ staged \in Seq(Cells)
  BY DEF Read
<1>3. /\ Head(inbox) \in Receipts
      /\ inbox' \in Seq(Receipts) /\ Len(inbox') = Len(inbox) - 1
      /\ \A i \in 1 .. Len(inbox) - 1 : inbox'[i] = inbox[i + 1]
  BY <1>1, <1>2, HeadTailProperties
<1>4. Head(inbox).pieces \in Seq(Cells)
  BY <1>3 DEF Receipts
<1> QED
  BY <1>1, <1>2, <1>3, <1>4, ConcatProperties

LEMMA DeliverEffect ==
    ASSUME Read, DeliverFrame
    PROVE  /\ Boundary \in 1 .. Len(staged) /\ staged[Boundary].piece.ends
           /\ \A j \in 1 .. Boundary - 1 : ~staged[j].piece.ends
           /\ staged' \in Seq(Cells) /\ Len(staged') = Len(staged) - Boundary
           /\ \A i \in 1 .. Len(staged) - Boundary : staged'[i] = staged[Boundary + i]
<1>1. staged \in Seq(Cells) /\ FrameStaged /\ staged' = SubSeq(staged, Boundary + 1, Len(staged))
  BY DEF Read, DeliverFrame
<1>2. /\ Boundary \in 1 .. Len(staged) /\ staged[Boundary].piece.ends
      /\ \A j \in 1 .. Boundary - 1 : ~staged[j].piece.ends
  BY <1>1, BoundaryFirst
<1> DEFINE e == Boundary
           n == Len(staged)
<1>3. e \in 1 .. n /\ n \in Nat
  BY <1>1, <1>2
<1>4. \A i \in e + 1 .. n : staged[i] \in Cells
  BY <1>1, <1>3
<1>5. /\ SubSeq(staged, e + 1, n) \in Seq(Cells)
      /\ Len(SubSeq(staged, e + 1, n)) = IF e + 1 <= n THEN n - (e + 1) + 1 ELSE 0
      /\ \A i \in 1 .. n - (e + 1) + 1 : SubSeq(staged, e + 1, n)[i] = staged[(e + 1) + i - 1]
  <2>1. e + 1 \in Int /\ n \in Int
    BY <1>3
  <2> HIDE DEF e, n
  <2> QED
    BY <1>4, <2>1, SubSeqProperties
<1>6. n - (e + 1) + 1 = n - e /\ \A i \in Nat : (e + 1) + i - 1 = e + i
  BY <1>3
<1>7. /\ Len(SubSeq(staged, e + 1, n)) = n - e
      /\ \A i \in 1 .. n - e : SubSeq(staged, e + 1, n)[i] = staged[e + i]
  <2> HIDE DEF e, n
  <2> QED
    BY <1>3, <1>5, <1>6
<1> QED
  BY <1>1, <1>2, <1>5, <1>7

-----------------------------------------------------------------------------
(* Types *)

LEMMA WireTypesInitial == Commands \in Nat /\ WireInit => Kept /\ Read
<1> SUFFICES ASSUME Commands \in Nat, WireInit PROVE Kept /\ Read
  OBVIOUS
<1> USE DEF WireInit
<1>1. Kept
  BY StageValues DEF Kept, Links, None, Unanswered
<1>2. Read
  <2>1. \A S : <<>> \in Seq(S)
    OBVIOUS
  <2> QED
    BY <2>1 DEF Read
<1> QED
  BY <1>1, <1>2

LEMMA ReadyTypes ==
    ASSUME Kept, BecomeReady
    PROVE  stage' \in Stages /\ link' \in Links /\ frontier' \in Nat \X Nat /\ sent' = sent
<1>1. CASE link = "initializing"
  BY <1>1, StageValues DEF BecomeReady, Kept, Links, None
<1>2. CASE link # "initializing"
  BY <1>2, FailEffect DEF BecomeReady, Kept, Links
<1> QED
  BY <1>1, <1>2

LEMMA BeginTypes ==
    ASSUME Kept, Read, NEW s \in Steps, Begin(s)
    PROVE  stage' \in Stages /\ link' \in Links /\ sent' \in Seq(Asked)
<1>1. stage' \in Stages
  BY StageValues DEF Begin
<1>2. [step |-> s] \in Asked
  BY DEF Asked
<1>3. link' \in Links
  BY FailEffect DEF Begin, Kept, Links
<1>4. sent' \in Seq(Asked)
  BY <1>2 DEF Begin, Read
<1> QED
  BY <1>1, <1>3, <1>4

LEMMA WireTypesStep ==
    ASSUME Commands \in Nat, Kept, Read, [WireNext]_wireVars
    PROVE  Kept' /\ Read'
<1> DEFINE Ks == <<plan, published, lane, began>>
<1>1. ASSUME Register PROVE Kept' /\ Read'
  BY <1>1 DEF Register, Kept, Read, Links, input, past
<1>2. ASSUME Connect PROVE Kept' /\ Read'
  <2>1. UNCHANGED <<plan, published, lane, began, net, eof, strays, inbox, staged>>
    BY <1>2 DEF Connect, input, fixed, past
  <2>2. CASE Following(None) = None /\ BecomeReady
    BY <2>1, <2>2, ReadyTypes DEF Kept, Read
  <2>3. CASE Following(None) # None /\ Begin(Following(None)) /\ UNCHANGED frontier
    <3>1. Following(None) \in Steps
      BY <2>3, FollowingStep DEF Kept, None
    <3> QED
      BY <2>1, <2>3, <3>1, BeginTypes DEF Kept, Read
  <2> QED
    BY <1>2, <2>2, <2>3 DEF Connect
<1>3. ASSUME Answer PROVE Kept' /\ Read'
  <2>1. /\ UNCHANGED <<plan, stage, link, frontier, lane, published, began,
                       inbox, staged, strays, eof>>
        /\ sent # <<>> /\ sent' = Tail(sent)
    BY <1>3 DEF Answer, conn, input, fixed, past
  <2>2. \E kind \in {"ok", "error", "value"} : \E pieces \in Frame(kind) : net' = net \o pieces
    BY <1>3 DEF Answer
  <2>3. net' \in Seq(Pieces)
    BY <2>2, FrameShape, ConcatProperties DEF Read
  <2>4. sent' \in Seq(Asked)
    BY <2>1 DEF Read
  <2> QED
    BY <2>1, <2>3, <2>4 DEF Kept, Read
<1>4. ASSUME Stray PROVE Kept' /\ Read'
  <2>1. /\ UNCHANGED <<plan, stage, link, frontier, lane, published, began,
                       inbox, staged, sent, eof>>
        /\ strays' = strays + 1
    BY <1>4 DEF Stray, conn, input, fixed, past
  <2>2. PICK pieces \in Frame("ok") : net' = net \o pieces
    BY <1>4 DEF Stray
  <2>3. net' \in Seq(Pieces)
    BY <2>2, FrameShape, ConcatProperties DEF Read
  <2> QED
    BY <2>1, <2>3 DEF Kept, Read
<1>5. ASSUME PeerCloses PROVE Kept' /\ Read'
  <2>1. /\ UNCHANGED <<plan, stage, link, frontier, lane, published, began,
                       inbox, staged, sent, strays>>
        /\ eof' = TRUE
    BY <1>5 DEF PeerCloses, conn, input, fixed, past
  <2>2. PICK keep \in {0, 1} : keep <= Len(net) /\ net' = SubSeq(net, 1, Len(net) - keep)
    BY <1>5 DEF PeerCloses
  <2>3. net' \in Seq(Pieces)
    <3>1. net \in Seq(Pieces) /\ Len(net) - keep \in Int
      BY DEF Read
    <3>2. \A i \in 1 .. Len(net) - keep : net[i] \in Pieces
      BY <3>1
    <3> QED
      BY <2>2, <3>1, <3>2, SubSeqProperties
  <2> QED
    BY <2>1, <2>3 DEF Kept, Read
<1>6. ASSUME Publish PROVE Kept' /\ Read'
  <2>1. /\ UNCHANGED <<plan, stage, link, frontier, began, inbox, staged, net, eof, strays>>
        /\ published < Commands /\ published' = published + 1
        /\ lane' = Append(lane, published') /\ sent' = Append(sent, [command |-> published'])
    BY <1>6 DEF Publish, conn, input, fixed, past
  <2>2. published' \in 0 .. Commands /\ published' \in Nat
    BY <2>1 DEF Kept
  <2>3. [command |-> published'] \in Asked
    BY <2>2 DEF Asked
  <2>4. lane' \in Seq(Nat) /\ sent' \in Seq(Asked)
    BY <2>1, <2>2, <2>3 DEF Kept, Read
  <2> QED
    BY <2>1, <2>2, <2>4 DEF Kept, Read
<1>7. ASSUME NEW n \in 1 .. 3, Receive(n) PROVE Kept' /\ Read'
  <2>1. UNCHANGED <<plan, stage, link, frontier, lane, published, began, staged, sent, eof, strays>>
    BY <1>7 DEF Receive, conn, fixed, past
  <2>2. PICK r \in Receipts : net' \in Seq(Pieces) /\ inbox' = Append(inbox, r)
    BY <1>7, ReceiveEffect
  <2>3. inbox' \in Seq(Receipts)
    BY <2>2 DEF Read
  <2> QED
    BY <2>1, <2>2, <2>3 DEF Kept, Read
<1>8. ASSUME Received PROVE Kept' /\ Read'
  <2>1. UNCHANGED <<plan, link, lane, published, began, sent, net, eof, strays>>
    BY <1>8 DEF Received, peer, fixed, past
  <2>2. staged' \in Seq(Cells) /\ inbox' \in Seq(Receipts) /\ Head(inbox) \in Receipts
    BY <1>8, ReceivedEffect
  <2>3. stage' \in Stages
    BY <1>8, StageValues DEF Received, Kept
  <2>4. frontier' \in Nat \X Nat
    <3>1. Cutoff(Head(inbox)) \in Nat
      BY <2>2 DEF Cutoff, Receipts
    <3>2. \A c \in Nat, b \in BOOLEAN : AdvancedFrontier(c, b) \in Nat \X Nat
      BY DEF AdvancedFrontier, Kept
    <3> DEFINE c == IF Cutoff(Head(inbox)) \in Range(lane) THEN Cutoff(Head(inbox)) ELSE None
    <3>3. c \in Nat
      BY <3>1 DEF None
    <3>4. frontier' = IF link = "serving" THEN AdvancedFrontier(c, staged # <<>>) ELSE frontier
      BY <1>8 DEF Received
    <3> HIDE DEF c
    <3> QED
      BY <3>2, <3>3, <3>4 DEF Kept
  <2> QED
    BY <2>1, <2>2, <2>3, <2>4 DEF Kept, Read
<1>9. ASSUME DeliverFrame PROVE Kept' /\ Read'
  <2>1. UNCHANGED <<plan, published, sent, net, eof, strays, inbox>>
    BY <1>9 DEF DeliverFrame, peer, fixed
  <2>2. /\ staged' \in Seq(Cells) /\ Boundary \in 1 .. Len(staged)
    BY <1>9, DeliverEffect
  <2>3. 1 \in 1 .. Len(staged) /\ staged[1] \in Cells
    BY <2>2 DEF Read
  <2>4. CASE /\ stage[1] = "Init" /\ StepReply(staged[Boundary].piece.kind, staged[1].step)
             /\ UNCHANGED <<lane, frontier, began>>
    <3>1. stage' \in Stages
      BY <2>4, StageParts, StageValues DEF StepReply, Kept
    <3>2. link' \in Links
      BY <2>4, FailEffect DEF StepReply, Kept, Links
    <3> QED
      BY <2>1, <2>2, <2>4, <3>1, <3>2 DEF Kept, Read
  <2>5. CASE CommandReply(staged[1].at) /\ UNCHANGED <<stage, done>>
    <3>1. CASE Fail("front", ReplyPolicy("front")) /\ UNCHANGED <<lane, frontier, began>>
      <4>1. link' \in Links
        BY <3>1, FailEffect DEF Kept, Links
      <4> QED
        BY <2>1, <2>2, <2>5, <3>1, <4>1 DEF Kept, Read
    <3>2. CASE /\ lane # <<>> /\ lane' = Tail(lane) /\ UNCHANGED link
               /\ frontier' \in {frontier, AnsweredFrontier}
               /\ began' \in {began, [began EXCEPT ![Head(lane)] = staged[1].at]}
      <4>1. lane' \in Seq(Nat)
        BY <3>2 DEF Kept
      <4>2. AnsweredFrontier \in Nat \X Nat
        BY DEF AnsweredFrontier, Kept, None
      <4>3. began' \in [1 .. Commands -> Nat]
        BY <2>3, <3>2 DEF Kept, Cells
      <4> QED
        BY <2>1, <2>2, <2>5, <3>2, <4>1, <4>2, <4>3 DEF Kept, Read
    <3> QED
      BY <2>5, <3>1, <3>2 DEF CommandReply
  <2>6. CASE /\ Fail("unexpected", ReplyPolicy("unexpected"))
             /\ UNCHANGED <<lane, frontier, began, stage, done>>
    <3>1. link' \in Links
      BY <2>6, FailEffect DEF Kept, Links
    <3> QED
      BY <2>1, <2>2, <2>6, <3>1 DEF Kept, Read
  <2> QED
    BY <1>9, <2>4, <2>5, <2>6 DEF DeliverFrame
<1>10. ASSUME Flush PROVE Kept' /\ Read'
  <2>1. UNCHANGED <<plan, published, lane, began, net, eof, strays, inbox, staged>>
    BY <1>10 DEF Flush, input, fixed, past
  <2>2. CASE /\ stage[1] = "Advance" /\ Advance(staged # <<>>)
    <3>1. CASE UNCHANGED <<stage, link, frontier, sent>>
      BY <2>1, <3>1 DEF Kept, Read
    <3>2. CASE /\ Fail("unexpected", StartPolicy("unexpected"))
               /\ UNCHANGED <<stage, frontier, sent>>
      <4>1. link' \in Links
        BY <3>2, FailEffect DEF Kept, Links
      <4> QED
        BY <2>1, <3>2, <4>1 DEF Kept, Read
    <3>3. CASE BecomeReady
      BY <2>1, <3>3, ReadyTypes DEF Kept, Read
    <3>4. CASE Following(stage[2]) # None /\ Begin(Following(stage[2])) /\ UNCHANGED frontier
      <4>1. Following(stage[2]) \in Steps
        BY <3>4, FollowingStep, StageParts DEF Kept
      <4> QED
        BY <2>1, <3>4, <4>1, BeginTypes DEF Kept, Read
    <3> QED
      BY <2>2, <3>1, <3>2, <3>3, <3>4 DEF Advance
  <2>3. CASE /\ stage[1] # "Advance" /\ UNCHANGED <<stage, frontier, sent>>
             /\ \/ Fail("unexpected", ReplyPolicy("unexpected"))
                \/ UNCHANGED <<link, failure, retry>>
    <3>1. link' \in Links
      BY <2>3, FailEffect DEF Kept, Links
    <3> QED
      BY <2>1, <2>3, <3>1 DEF Kept, Read
  <2> QED
    BY <1>10, <2>2, <2>3 DEF Flush
<1>11. ASSUME LinkFails \/ DrainFails \/ TimesOut PROVE Kept' /\ Read'
  <2>1. /\ \E cause : Fail(cause, "reconnect")
        /\ UNCHANGED <<plan, stage, frontier, lane, published, began, sent, net, eof, strays,
                       inbox, staged>>
    BY <1>11 DEF LinkFails, DrainFails, TimesOut, peer, input, fixed, past
  <2>2. link' \in Links
    BY <2>1, FailEffect DEF Kept, Links
  <2> QED
    BY <2>1, <2>2 DEF Kept, Read
<1>12. ASSUME EndOfInput PROVE Kept' /\ Read'
  BY <1>12 DEF EndOfInput, peer, input, fixed, past, Kept, Read, Links
<1>13. ASSUME Finish PROVE Kept' /\ Read'
  <2>1. link' \in Links
    BY <1>13 DEF Finish, FailRoute, Kept, Links
  <2> QED
    BY <1>13, <2>1 DEF Finish, peer, fixed, past, Kept, Read
<1>14. ASSUME Disconnect PROVE Kept' /\ Read'
  BY <1>14, StageValues DEF Disconnect, fixed, Kept, Read, Links, None
<1>15. ASSUME UNCHANGED wireVars PROVE Kept' /\ Read'
  BY <1>15 DEF wireVars, conn, peer, input, fixed, past, Kept, Read
<1> QED
  BY <1>1, <1>2, <1>3, <1>4, <1>5, <1>6, <1>7, <1>8, <1>9, <1>10, <1>11, <1>12, <1>13, <1>14,
     <1>15 DEF WireNext

-----------------------------------------------------------------------------
(* The route, the step of the handshake and the policy of the close.       *)

Policy ==
    /\ Live => retry = "open"
    /\ link = "closing" => retry # "open"
    /\ link = "serving" => stage = Ready
    /\ link = "initializing" => stage # Ready
    /\ link = "vacant" => stage = Offline

LEMMA Policies ==
    /\ \A cause : StartPolicy(cause) \in {"permanent", "reconnect"}
    /\ \A cause : ReplyPolicy(cause) \in {"permanent", "reconnect"}
    /\ stage = Ready => \A cause : ReplyPolicy(cause) = "reconnect"
BY DEF StartPolicy, ReplyPolicy

(* A failure keeps the policy, and closes a live route.                    *)
LEMMA FailPolicy ==
    ASSUME Kept, Policy, NEW cause, NEW policy \in {"permanent", "reconnect"},
           Fail(cause, policy), stage' = stage \/ (stage' \in Stages /\ link = "initializing")
    PROVE  Policy' /\ (link = "serving" /\ link' = "closing" => retry' = policy)
<1>1. /\ link' = (IF Live THEN "closing" ELSE link)
      /\ retry' = (IF retry = "open" THEN policy ELSE retry)
  BY FailEffect DEF Kept
<1> QED
  BY <1>1 DEF Policy, Live, Kept, Links

LEMMA PolicyStep ==
    ASSUME Kept, Read, Policy, [WireNext]_wireVars
    PROVE  Policy' /\ (link = "serving" /\ link' = "closing" => retry' = "reconnect")
<1> DEFINE Goal == Policy' /\ (link = "serving" /\ link' = "closing" => retry' = "reconnect")
<1>0. ASSUME UNCHANGED <<stage, link, retry>> PROVE Goal
  BY <1>0 DEF Policy, Live
<1>1. ASSUME Register PROVE Goal
  BY <1>1 DEF Register, Policy, Live, Offline, Ready, Kept, Links
<1>2. ASSUME NEW s \in Steps, Begin(s), link = "initializing" PROVE Goal
  <2>1. stage' = <<"Init", s>> /\ stage' \in Stages /\ stage' # Ready
    BY <1>2, StageValues DEF Begin, Ready
  <2>2. CASE UNCHANGED <<link, failure, retry>>
    BY <1>2, <2>1, <2>2 DEF Policy, Live
  <2>3. CASE Fail("request", StartPolicy("request"))
    BY <1>2, <2>1, <2>3, FailPolicy, Policies
  <2> QED
    BY <1>2, <2>2, <2>3 DEF Begin
<1>3. ASSUME BecomeReady, link = "initializing" PROVE Goal
  BY <1>3 DEF BecomeReady, Policy, Live
<1>4. ASSUME NEW cause, NEW policy \in {"permanent", "reconnect"}, Fail(cause, policy),
             UNCHANGED stage, link # "serving" \/ policy = "reconnect"
      PROVE  Goal
  BY <1>4, FailPolicy
<1>5. ASSUME Connect PROVE Goal
  <2>1. link = "initializing"
    BY <1>5 DEF Connect
  <2>2. Following(None) # None => Following(None) \in Steps
    BY FollowingStep DEF Kept, None
  <2> QED
    BY <1>2, <1>3, <1>5, <2>1, <2>2 DEF Connect
<1>6. ASSUME \/ Answer
             \/ Stray
             \/ PeerCloses
             \/ Publish
             \/ \E n \in 1 .. 3 : Receive(n)
             \/ UNCHANGED wireVars
      PROVE  Goal
  <2>1. UNCHANGED <<stage, link, retry>>
    BY <1>6 DEF Answer, Stray, PeerCloses, Publish, Receive, wireVars, conn
  <2> QED
    BY <1>0, <2>1
<1>7. ASSUME Received PROVE Goal
  <2>1. UNCHANGED <<link, retry>> /\ link # "vacant"
    BY <1>7 DEF Received
  <2>2. stage' = stage \/ (stage' = Unsolicited /\ stage[1] \in {"Init", "Advance"})
    BY <1>7 DEF Received, IsUnsolicited
  <2>3. Unsolicited # Ready /\ Ready[1] = "Ready"
    BY DEF Unsolicited, Ready
  <2>4. link # "serving" \/ stage' = stage
    BY <2>2, <2>3 DEF Policy
  <2> QED
    BY <2>1, <2>2, <2>3, <2>4 DEF Policy, Live
<1>8. ASSUME DeliverFrame PROVE Goal
  <2>1. link # "vacant"
    BY <1>8 DEF DeliverFrame
  <2>2. CASE stage[1] = "Init" /\ StepReply(staged[Boundary].piece.kind, staged[1].step)
    <3>1. link # "serving"
      BY <2>2 DEF Policy, Ready
    <3>2. CASE stage' = <<"Advance", stage[2]>> /\ UNCHANGED <<link, failure, retry>>
      <4>1. stage' # Ready
        BY <3>2 DEF Ready
      <4> QED
        BY <2>1, <3>1, <3>2, <4>1 DEF Policy, Live
    <3>3. CASE Fail("handshake", StartPolicy("handshake")) /\ UNCHANGED stage
      BY <1>4, <3>1, <3>3, Policies
    <3> QED
      BY <2>2, <3>2, <3>3 DEF StepReply
  <2>3. CASE stage = Ready /\ CommandReply(staged[1].at) /\ UNCHANGED stage
    <3>1. CASE Fail("front", ReplyPolicy("front"))
      BY <1>4, <2>3, <3>1, Policies
    <3>2. CASE UNCHANGED <<link, failure, retry>>
      BY <1>0, <2>3, <3>2
    <3> QED
      BY <2>3, <3>1, <3>2 DEF CommandReply
  <2>4. CASE stage # Ready /\ Fail("unexpected", ReplyPolicy("unexpected")) /\ UNCHANGED stage
    <3>1. link # "serving"
      BY <2>4 DEF Policy
    <3> QED
      BY <1>4, <2>4, <3>1, Policies
  <2>5. Ready[1] = "Ready"
    BY DEF Ready
  <2> QED
    BY <1>8, <2>2, <2>3, <2>4, <2>5 DEF DeliverFrame
<1>9. ASSUME Flush PROVE Goal
  <2>1. link # "vacant"
    BY <1>9 DEF Flush
  <2>2. CASE stage[1] = "Advance" /\ Advance(staged # <<>>)
    <3>1. link # "serving"
      BY <2>2 DEF Policy, Ready
    <3>2. CASE UNCHANGED <<stage, link, retry>>
      BY <1>0, <3>2
    <3>3. CASE Fail("unexpected", StartPolicy("unexpected")) /\ UNCHANGED stage
      BY <1>4, <3>1, <3>3, Policies
    <3>4. CASE retry = "open" /\ ~UNCHANGED <<stage, link, failure, retry, frontier, sent>>
      <4>1. link = "initializing"
        BY <2>1, <3>1, <3>4 DEF Policy, Kept, Links
      <4>2. Following(stage[2]) # None => Following(stage[2]) \in Steps
        BY FollowingStep, StageParts DEF Kept
      <4>3. \/ Fail("unexpected", StartPolicy("unexpected")) /\ UNCHANGED stage
            \/ BecomeReady
            \/ Following(stage[2]) # None /\ Begin(Following(stage[2]))
        BY <2>2, <3>4 DEF Advance
      <4> QED
        BY <1>2, <1>3, <3>3, <4>1, <4>2, <4>3
    <3>5. retry = "open" \/ UNCHANGED <<stage, link, retry>>
      BY <2>2 DEF Advance
    <3> QED
      BY <3>2, <3>4, <3>5
  <2>3. CASE /\ stage[1] # "Advance" /\ UNCHANGED stage
             /\ \/ Fail("unexpected", ReplyPolicy("unexpected"))
                \/ UNCHANGED <<link, failure, retry>>
    <3>1. CASE UNCHANGED <<link, failure, retry>>
      BY <1>0, <2>3, <3>1
    <3>2. CASE Fail("unexpected", ReplyPolicy("unexpected"))
      <4>1. link = "serving" => ReplyPolicy("unexpected") = "reconnect"
        BY Policies DEF Policy
      <4> QED
        BY <1>4, <2>3, <3>2, <4>1, Policies
    <3> QED
      BY <2>3, <3>1, <3>2
  <2> QED
    BY <1>9, <2>2, <2>3 DEF Flush
<1>10. ASSUME LinkFails \/ DrainFails \/ TimesOut PROVE Goal
  <2>1. (\E cause : Fail(cause, "reconnect")) /\ UNCHANGED stage
    BY <1>10 DEF LinkFails, DrainFails, TimesOut
  <2> QED
    BY <1>4, <2>1
<1>11. ASSUME EndOfInput PROVE Goal
  <2>1. /\ link \in {"initializing", "serving"} /\ link' = "closing" /\ UNCHANGED stage
        /\ retry' = IF retry = "open" THEN "reconnect" ELSE retry
    BY <1>11 DEF EndOfInput
  <2> QED
    BY <2>1 DEF Policy, Live
<1>12. ASSUME Finish PROVE Goal
  <2>1. UNCHANGED <<stage, link, retry>>
    BY <1>12 DEF Finish, FailRoute
  <2> QED
    BY <1>0, <2>1
<1>13. ASSUME Disconnect PROVE Goal
  BY <1>13 DEF Disconnect, Policy, Live
<1> QED
  BY <1>1, <1>5, <1>6, <1>7, <1>8, <1>9, <1>10, <1>11, <1>12, <1>13 DEF WireNext

-----------------------------------------------------------------------------
(* The handshake: what is staged while a step is awaited began to arrive   *)
(* after the step was sent.                                                *)

Hand ==
    /\ stage = Offline => staged = <<>> /\ inbox = <<>> /\ done = {}
    /\ Live /\ stage[1] = "Init" =>
          /\ stage[2] \in plan /\ done = {t \in plan : t < stage[2]}
          /\ staged # <<>> => staged[1].step = stage[2]
    /\ Live /\ stage[1] = "Advance" =>
          stage[2] \in plan /\ done = {t \in plan : t <= stage[2]}
    /\ link = "serving" => done = plan

(* Pieces carry the step that was awaited when they arrived.               *)
Stamped ==
    \A j \in 1 .. Len(inbox) :
        /\ Len(inbox[j].pieces) > 0
        /\ \A i \in 1 .. Len(inbox[j].pieces) :
              /\ inbox[j].pieces[i].step = inbox[j].step
              /\ inbox[j].pieces[i].at >= inbox[j].cutoff

LEMMA HandSame ==
    ASSUME Hand, UNCHANGED <<plan, stage, done, staged>>, inbox' = inbox \/ stage # Offline,
           link' \in {link, "closing"}
    PROVE  Hand'
BY DEF Hand, Live

LEMMA HandBegin ==
    ASSUME Kept, Hand, UNCHANGED <<plan, done, staged, inbox>>, staged = <<>>,
           NEW after \in Nat, done = {t \in plan : t <= after},
           Following(after) # None, Begin(Following(after)), link = "initializing"
    PROVE  Hand'
<1> DEFINE s == Following(after)
<1>1. s \in plan /\ \A t \in plan : t < s <=> t <= after
  BY FollowingStep DEF Kept
<1>2. stage' = <<"Init", s>> /\ link' \in Links /\ link' # "serving"
  BY FailEffect DEF Begin, Live, Kept, Links
<1> HIDE DEF s
<1>3. done = {t \in plan : t < s}
  BY <1>1
<1>4. stage' # Offline /\ stage'[1] = "Init" /\ stage'[2] = s
  BY <1>2 DEF Offline
<1> QED
  BY <1>1, <1>2, <1>3, <1>4 DEF Hand

LEMMA HandReady ==
    ASSUME Kept, Hand, UNCHANGED <<plan, done, staged, inbox>>, staged = <<>>,
           NEW after \in Nat, done = {t \in plan : t <= after},
           Following(after) = None, BecomeReady, link = "initializing"
    PROVE  Hand'
<1>1. \A t \in plan : t <= after
  <2>1. Following(after) \notin plan
    BY DEF Kept, Steps, None
  <2> QED
    BY <2>1, FollowingStep DEF Kept
<1>2. done = plan
  BY <1>1
<1>3. stage' = Ready /\ link' = "serving"
  BY DEF BecomeReady
<1>4. Ready # Offline /\ Ready[1] = "Ready"
  BY DEF Offline, Ready
<1> QED
  BY <1>2, <1>3, <1>4 DEF Hand

LEMMA HandStep ==
    ASSUME Kept, Read, Policy, Stamped, Hand, [WireNext]_wireVars
    PROVE  Hand'
<1>1. ASSUME Register PROVE Hand'
  <2>1. /\ link = "vacant" /\ UNCHANGED <<plan, stage, done, staged, inbox>>
        /\ link' = "initializing"
    BY <1>1 DEF Register, input, past
  <2>2. stage = Offline /\ stage[1] = "Offline"
    BY <2>1 DEF Policy, Offline
  <2> QED
    BY <2>1, <2>2 DEF Hand
<1>2. ASSUME Connect PROVE Hand'
  <2>1. /\ link = "initializing" /\ stage = Offline
        /\ UNCHANGED <<plan, done, staged, inbox>>
    BY <1>2 DEF Connect, input, fixed, past
  <2>2. staged = <<>> /\ done = {} /\ None \in Nat /\ \A t \in plan : ~ (t <= None)
    BY <2>1 DEF Hand, None, Kept, Steps
  <2>3. done = {t \in plan : t <= None}
    BY <2>2
  <2> QED
    BY <1>2, <2>1, <2>2, <2>3, HandBegin, HandReady DEF Connect
<1>3. ASSUME Answer \/ Stray \/ PeerCloses \/ Publish \/ UNCHANGED wireVars PROVE Hand'
  <2>1. UNCHANGED <<plan, stage, done, staged, inbox, link>>
    BY <1>3 DEF Answer, Stray, PeerCloses, Publish, wireVars, conn, peer, input, fixed, past
  <2> QED
    BY <2>1, HandSame
<1>4. ASSUME NEW n \in 1 .. 3, Receive(n) PROVE Hand'
  <2>1. UNCHANGED <<plan, stage, done, staged, link>> /\ stage # Offline
    BY <1>4 DEF Receive, conn, fixed, past
  <2> QED
    BY <2>1, HandSame
<1>5. ASSUME Received PROVE Hand'
  <2> DEFINE r == Head(inbox)
  <2>1. /\ UNCHANGED <<plan, done, link>> /\ inbox # <<>>
        /\ stage' = IF IsUnsolicited(r, staged # <<>>) THEN Unsolicited ELSE stage
    BY <1>5 DEF Received, fixed, past
  <2>2. /\ r \in Receipts
        /\ Len(staged') = Len(staged) + Len(r.pieces)
        /\ \A i \in 1 .. Len(staged) : staged'[i] = staged[i]
        /\ \A i \in 1 .. Len(r.pieces) : staged'[Len(staged) + i] = r.pieces[i]
    BY <1>5, ReceivedEffect
  <2>3. stage # Offline
    BY <2>1 DEF Hand
  <2>4. CASE stage' = Unsolicited
    <3>1. stage'[1] = "Unsolicited" /\ stage' # Offline
      BY <2>4 DEF Unsolicited, Offline
    <3> QED
      BY <2>1, <3>1 DEF Hand
  <2>5. CASE stage' = stage /\ ~IsUnsolicited(r, staged # <<>>)
    <3>1. stage[1] = "Init" /\ Live => staged'[1].step = stage[2]
      <4>1. CASE staged = <<>>
        <5>1. stage[1] = "Init" => r.step = stage[2]
          BY <2>5, <4>1 DEF IsUnsolicited
        <5>2. /\ r = inbox[1] /\ 1 \in 1 .. Len(inbox) /\ Len(r.pieces) > 0
          BY <2>1 DEF Stamped, Read
        <5>3. r.pieces \in Seq(Cells) /\ 1 \in 1 .. Len(r.pieces)
          BY <2>2, <5>2 DEF Receipts
        <5>4. r.pieces[1].step = r.step
          BY <5>2, <5>3 DEF Stamped
        <5>5. Len(staged) = 0
          BY <4>1
        <5>6. staged'[1] = r.pieces[1]
          BY <2>2, <5>3, <5>5
        <5> QED
          BY <5>1, <5>4, <5>6
      <4>2. CASE staged # <<>>
        <5>1. 1 \in 1 .. Len(staged)
          BY <4>2 DEF Read
        <5> QED
          BY <2>2, <4>2, <5>1 DEF Hand
      <4> QED
        BY <4>1, <4>2
    <3> QED
      BY <2>1, <2>3, <2>5, <3>1 DEF Hand, Live
  <2> QED
    BY <2>1, <2>4, <2>5
<1>6. ASSUME DeliverFrame PROVE Hand'
  <2>1. /\ UNCHANGED <<plan, inbox>> /\ link # "vacant"
    BY <1>6 DEF DeliverFrame, fixed
  <2>2. staged # <<>>
    BY <1>6, DeliverEffect DEF Read
  <2>3. stage # Offline
    BY <2>2 DEF Hand
  <2>4. CASE stage[1] = "Init" /\ StepReply(staged[Boundary].piece.kind, staged[1].step)
    <3>1. CASE /\ stage' = <<"Advance", stage[2]>> /\ UNCHANGED <<link, failure, retry>>
               /\ done' = done \cup (IF staged[1].step = stage[2] THEN {stage[2]} ELSE {})
      <4>1. stage' # Offline /\ stage'[1] = "Advance" /\ stage'[2] = stage[2]
        BY <3>1 DEF Offline
      <4>2. CASE Live
        <5>1. /\ stage[2] \in plan /\ done = {t \in plan : t < stage[2]}
              /\ staged[1].step = stage[2]
          BY <2>2, <2>4, <4>2 DEF Hand
        <5>2. done' = {t \in plan : t < stage[2]} \cup {stage[2]}
          BY <3>1, <5>1
        <5>3. \A t \in plan : t \in Nat
          BY DEF Kept, Steps
        <5>4. done' = {t \in plan : t <= stage[2]}
          BY <5>1, <5>2, <5>3
        <5>5. link # "serving"
          BY <2>4 DEF Policy, Ready
        <5> QED
          BY <2>1, <3>1, <4>1, <5>1, <5>4, <5>5 DEF Hand
      <4>3. CASE ~Live
        BY <3>1, <4>1, <4>3 DEF Hand, Live
      <4> QED
        BY <4>2, <4>3
    <3>2. CASE Fail("handshake", StartPolicy("handshake")) /\ UNCHANGED <<stage, done>>
      <4>1. link' = "closing"
        BY <2>1, <3>2, FailEffect DEF Kept, Links, Live
      <4> QED
        BY <2>3, <3>2, <4>1 DEF Hand, Live
    <3> QED
      BY <2>4, <3>1, <3>2 DEF StepReply
  <2>5. CASE stage = Ready /\ UNCHANGED <<stage, done>>
    <3>1. stage' # Offline /\ stage'[1] = "Ready"
      BY <2>5 DEF Ready, Offline
    <3>2. link' \in {link, "closing"}
      BY <1>6, <2>1, <2>5, FailEffect DEF DeliverFrame, CommandReply, Kept, Links, Ready
    <3> QED
      BY <2>1, <2>5, <3>1, <3>2 DEF Hand
  <2>6. CASE /\ Fail("unexpected", ReplyPolicy("unexpected")) /\ UNCHANGED <<stage, done>>
    <3>1. link' = "closing"
      BY <2>1, <2>6, FailEffect DEF Kept, Links, Live
    <3> QED
      BY <2>3, <2>6, <3>1 DEF Hand, Live
  <2> QED
    BY <1>6, <2>4, <2>5, <2>6 DEF DeliverFrame
<1>7. ASSUME Flush PROVE Hand'
  <2>1. /\ UNCHANGED <<plan, done, inbox, staged>> /\ link # "vacant"
    BY <1>7 DEF Flush, input, fixed, past
  <2>2. ASSUME NEW cause, NEW policy, Fail(cause, policy), UNCHANGED stage PROVE Hand'
    <3>1. link' \in {link, "closing"}
      BY <2>2, FailEffect DEF Kept
    <3> QED
      BY <2>1, <2>2, <3>1, HandSame
  <2>3. CASE UNCHANGED <<stage, link>>
    BY <2>1, <2>3, HandSame
  <2>4. CASE /\ stage[1] = "Advance" /\ retry = "open" /\ staged = <<>>
             /\ \/ Following(stage[2]) = None /\ BecomeReady
                \/ Following(stage[2]) # None /\ Begin(Following(stage[2]))
    <3>1. link = "initializing"
      <4>1. Ready[1] = "Ready"
        BY DEF Ready
      <4> QED
        BY <2>1, <2>4, <4>1 DEF Policy, Kept, Links
    <3>2. stage[2] \in Nat /\ done = {t \in plan : t <= stage[2]}
      BY <2>4, <3>1, StageParts DEF Hand, Live, Kept
    <3> QED
      BY <2>1, <2>4, <3>1, <3>2, HandBegin, HandReady
  <2>5. \/ \E cause, policy : Fail(cause, policy) /\ UNCHANGED stage
        \/ UNCHANGED <<stage, link>>
        \/ /\ stage[1] = "Advance" /\ retry = "open" /\ staged = <<>>
           /\ \/ Following(stage[2]) = None /\ BecomeReady
              \/ Following(stage[2]) # None /\ Begin(Following(stage[2]))
    <3>1. CASE stage[1] = "Advance"
      <4>1. Advance(staged # <<>>)
        BY <1>7, <3>1 DEF Flush
      <4> QED
        BY <3>1, <4>1 DEF Advance
    <3>2. CASE stage[1] # "Advance"
      BY <1>7, <3>2 DEF Flush
    <3> QED
      BY <3>1, <3>2
  <2> QED
    BY <2>2, <2>3, <2>4, <2>5
<1>8. ASSUME LinkFails \/ DrainFails \/ TimesOut \/ EndOfInput PROVE Hand'
  <2>1. UNCHANGED <<plan, stage, done, staged, inbox>>
    BY <1>8 DEF LinkFails, DrainFails, TimesOut, EndOfInput, input, fixed, past
  <2>2. link' \in {link, "closing"}
    BY <1>8, FailEffect DEF LinkFails, DrainFails, TimesOut, EndOfInput, Kept
  <2> QED
    BY <2>1, <2>2, HandSame
<1>9. ASSUME Finish PROVE Hand'
  BY <1>9 DEF Finish, FailRoute, Hand, Live, peer, fixed, past
<1>10. ASSUME Disconnect PROVE Hand'
  <2>1. Offline[1] = "Offline"
    BY DEF Offline
  <2> QED
    BY <1>10, <2>1 DEF Disconnect, Hand, Live
<1> QED
  BY <1>1, <1>2, <1>3, <1>4, <1>5, <1>6, <1>7, <1>8, <1>9, <1>10 DEF WireNext

-----------------------------------------------------------------------------
(* The lane holds the newest commands, in the order they were published.   *)

Lined ==
    /\ Len(lane) <= published
    /\ \A i \in 1 .. Len(lane) : lane[i] = published - Len(lane) + i
    /\ link \in {"vacant", "initializing"} => lane = <<>>

(* What a step does to the lane and to the route. *)
LEMMA LaneMoves ==
    ASSUME Kept, Policy, [WireNext]_wireVars
    PROVE  /\ \/ UNCHANGED <<lane, published>>
              \/ /\ link = "serving" /\ link' = link
                 /\ published' = published + 1 /\ lane' = Append(lane, published + 1)
              \/ lane # <<>> /\ lane' = Tail(lane) /\ UNCHANGED published
              \/ lane' = <<>> /\ UNCHANGED published
           /\ link' = "vacant" => link = "vacant" \/ lane' = <<>>
           /\ link' = "initializing" => link \in {"initializing", "vacant"}
<1> DEFINE Goal ==
           /\ \/ UNCHANGED <<lane, published>>
              \/ /\ link = "serving" /\ link' = link
                 /\ published' = published + 1 /\ lane' = Append(lane, published + 1)
              \/ lane # <<>> /\ lane' = Tail(lane) /\ UNCHANGED published
              \/ lane' = <<>> /\ UNCHANGED published
           /\ link' = "vacant" => link = "vacant" \/ lane' = <<>>
           /\ link' = "initializing" => link \in {"initializing", "vacant"}
<1>1. ASSUME Register \/ EndOfInput \/ Disconnect PROVE Goal
  BY <1>1 DEF Register, EndOfInput, Disconnect
<1>2. ASSUME NEW cause, NEW policy, Fail(cause, policy), UNCHANGED <<lane, published>> PROVE Goal
  BY <1>2, FailEffect DEF Kept, Links
<1>3. ASSUME UNCHANGED <<lane, published, link>> PROVE Goal
  BY <1>3
<1>4. ASSUME link' = "serving", UNCHANGED <<lane, published>> PROVE Goal
  BY <1>4
<1>5. ASSUME Publish PROVE Goal
  BY <1>5 DEF Publish, conn
<1>6. ASSUME Answer \/ Stray \/ PeerCloses \/ Received \/ UNCHANGED wireVars PROVE Goal
  <2>1. UNCHANGED <<lane, published, link>>
    BY <1>6 DEF Answer, Stray, PeerCloses, Received, wireVars, conn
  <2> QED
    BY <1>3, <2>1
<1>7. ASSUME NEW n \in 1 .. 3, Receive(n) PROVE Goal
  BY <1>3, <1>7 DEF Receive, conn
<1>8. ASSUME Connect PROVE Goal
  BY <1>2, <1>3, <1>4, <1>8 DEF Connect, BecomeReady, Begin
<1>9. ASSUME DeliverFrame PROVE Goal
  <2>1. UNCHANGED published
    BY <1>9 DEF DeliverFrame
  <2>2. CASE UNCHANGED lane /\ StepReply(staged[Boundary].piece.kind, staged[1].step)
    BY <1>2, <1>3, <2>1, <2>2 DEF StepReply
  <2>3. CASE CommandReply(staged[1].at)
    <3>1. CASE lane # <<>> /\ lane' = Tail(lane) /\ UNCHANGED link
      BY <2>1, <3>1
    <3>2. CASE UNCHANGED lane /\ Fail("front", ReplyPolicy("front"))
      BY <1>2, <2>1, <3>2
    <3> QED
      BY <2>3, <3>1, <3>2 DEF CommandReply
  <2>4. CASE UNCHANGED lane /\ Fail("unexpected", ReplyPolicy("unexpected"))
    BY <1>2, <2>1, <2>4
  <2> QED
    BY <1>9, <2>2, <2>3, <2>4 DEF DeliverFrame
<1>10. ASSUME Flush PROVE Goal
  <2>1. UNCHANGED <<lane, published>>
    BY <1>10 DEF Flush
  <2>2. CASE stage[1] = "Advance" /\ Advance(staged # <<>>)
    BY <1>2, <1>3, <1>4, <2>1, <2>2 DEF Advance, BecomeReady, Begin
  <2>3. CASE stage[1] # "Advance"
    BY <1>2, <1>3, <1>10, <2>1, <2>3 DEF Flush
  <2> QED
    BY <1>10, <2>2, <2>3 DEF Flush
<1>11. ASSUME LinkFails \/ DrainFails \/ TimesOut PROVE Goal
  <2>1. (\E cause : Fail(cause, "reconnect")) /\ UNCHANGED <<lane, published>>
    BY <1>11 DEF LinkFails, DrainFails, TimesOut
  <2> QED
    BY <1>2, <2>1
<1>12. ASSUME Finish PROVE Goal
  BY <1>3, <1>12 DEF Finish, FailRoute
<1> QED
  BY <1>1, <1>5, <1>6, <1>7, <1>8, <1>9, <1>10, <1>11, <1>12 DEF WireNext

LEMMA LinedStep ==
    ASSUME Kept, Policy, Lined, [WireNext]_wireVars
    PROVE  Lined'
<1>1. lane \in Seq(Nat) /\ published \in Nat
  BY DEF Kept
<1>2. /\ link' = "vacant" => link = "vacant" \/ lane' = <<>>
      /\ link' = "initializing" => link \in {"initializing", "vacant"}
  BY LaneMoves
<1>3. CASE UNCHANGED <<lane, published>>
  BY <1>2, <1>3 DEF Lined
<1>4. CASE /\ link = "serving" /\ link' = link
           /\ published' = published + 1 /\ lane' = Append(lane, published + 1)
  <2>1. Len(lane') = Len(lane) + 1 /\ Len(lane) \in Nat
    BY <1>1, <1>4
  <2>2. ASSUME NEW i \in 1 .. Len(lane) + 1 PROVE lane'[i] = (published + 1) - (Len(lane) + 1) + i
    <3>1. CASE i = Len(lane) + 1
      BY <1>1, <1>4, <2>1, <3>1
    <3>2. CASE i # Len(lane) + 1
      <4>1. i \in 1 .. Len(lane)
        BY <2>1, <3>2
      <4>2. lane'[i] = lane[i] /\ lane[i] = published - Len(lane) + i
        BY <1>1, <1>4, <4>1 DEF Lined
      <4> QED
        BY <1>1, <2>1, <4>2
    <3> QED
      BY <3>1, <3>2
  <2> QED
    BY <1>1, <1>4, <2>1, <2>2 DEF Lined
<1>5. CASE lane # <<>> /\ lane' = Tail(lane) /\ UNCHANGED published
  <2>1. /\ Len(lane') = Len(lane) - 1 /\ Len(lane) \in Nat \ {0}
        /\ \A i \in 1 .. Len(lane) - 1 : lane'[i] = lane[i + 1]
    BY <1>1, <1>5
  <2>2. ASSUME NEW i \in 1 .. Len(lane) - 1 PROVE lane'[i] = published - (Len(lane) - 1) + i
    <3>1. i + 1 \in 1 .. Len(lane)
      BY <2>1
    <3>2. lane'[i] = lane[i + 1] /\ lane[i + 1] = published - Len(lane) + (i + 1)
      BY <2>1, <3>1 DEF Lined
    <3> QED
      BY <1>1, <2>1, <3>2
  <2>3. link' \in {"vacant", "initializing"} => lane' = <<>>
    BY <1>2, <1>5 DEF Lined
  <2>4. Len(lane') <= published'
    BY <1>1, <1>5, <2>1 DEF Lined
  <2> QED
    BY <1>5, <2>1, <2>2, <2>3, <2>4 DEF Lined
<1>6. CASE lane' = <<>> /\ UNCHANGED published
  <2>1. Len(lane') = 0
    BY <1>6
  <2> QED
    BY <1>1, <1>6, <2>1 DEF Lined
<1> QED
  BY LaneMoves, <1>3, <1>4, <1>5, <1>6

-----------------------------------------------------------------------------
(* What arrives is stamped.                                                *)

LEMMA StampedStep ==
    ASSUME Kept, Read, Lined, Stamped, [WireNext]_wireVars
    PROVE  Stamped'
<1>1. ASSUME NEW n \in 1 .. 3, Receive(n) PROVE Stamped'
  <2>1. PICK r \in Receipts :
              /\ inbox' = Append(inbox, r)
              /\ Len(r.pieces) = n
              /\ \A i \in 1 .. n : /\ r.pieces[i].at = published
                                   /\ r.pieces[i].step = Awaited
              /\ r.step = Awaited
              /\ r.cutoff = IF lane = <<>> THEN None ELSE Last(lane)
    BY <1>1, ReceiveEffect
  <2>2. published >= r.cutoff
    <3>1. CASE lane = <<>>
      BY <2>1, <3>1 DEF Kept, None
    <3>2. CASE lane # <<>>
      <4>1. Len(lane) \in 1 .. Len(lane) /\ Last(lane) = lane[Len(lane)]
        BY <3>2 DEF Kept, Last
      <4>2. Last(lane) = published
        BY <4>1 DEF Lined, Kept
      <4> QED
        BY <2>1, <3>2, <4>2 DEF Kept
    <3> QED
      BY <3>1, <3>2
  <2>3. /\ Len(inbox') = Len(inbox) + 1 /\ Len(inbox) \in Nat
        /\ \A j \in 1 .. Len(inbox) : inbox'[j] = inbox[j]
        /\ inbox'[Len(inbox) + 1] = r
    BY <2>1 DEF Read
  <2>4. ASSUME NEW j \in 1 .. Len(inbox')
        PROVE  /\ Len(inbox'[j].pieces) > 0
               /\ \A i \in 1 .. Len(inbox'[j].pieces) :
                     /\ inbox'[j].pieces[i].step = inbox'[j].step
                     /\ inbox'[j].pieces[i].at >= inbox'[j].cutoff
    <3>1. CASE j \in 1 .. Len(inbox)
      BY <2>3, <3>1 DEF Stamped
    <3>2. CASE j = Len(inbox) + 1
      BY <2>1, <2>2, <2>3, <3>2
    <3> QED
      BY <2>3, <3>1, <3>2
  <2> QED
    BY <2>4 DEF Stamped
<1>2. ASSUME Received PROVE Stamped'
  <2>1. /\ Len(inbox') = Len(inbox) - 1 /\ Len(inbox) \in Nat
        /\ \A i \in 1 .. Len(inbox) - 1 : inbox'[i] = inbox[i + 1]
    BY <1>2, ReceivedEffect DEF Read
  <2>2. \A j \in 1 .. Len(inbox') : j + 1 \in 1 .. Len(inbox) /\ inbox'[j] = inbox[j + 1]
    BY <2>1
  <2> QED
    BY <2>2 DEF Stamped
<1>3. ASSUME Disconnect PROVE Stamped'
  BY <1>3 DEF Disconnect, Stamped
<1>4. ASSUME UNCHANGED inbox PROVE Stamped'
  BY <1>4 DEF Stamped
<1>5. \/ \E n \in 1 .. 3 : Receive(n)
      \/ Received
      \/ Disconnect
      \/ UNCHANGED inbox
  BY DEF WireNext, Register, Connect, Answer, Stray, PeerCloses, Publish, DeliverFrame, Flush, LinkFails,
         DrainFails, TimesOut, EndOfInput, Finish, wireVars, input
<1> QED
  BY <1>1, <1>2, <1>3, <1>4, <1>5

-----------------------------------------------------------------------------
(* The frontier: the first staged bytes arrived when its first cutoff was  *)
(* published, and what follows a whole frame when its last one was.        *)

Cuts ==
    link = "serving" =>
        /\ \A k \in 1 .. 2 : frontier[k] # None =>
               /\ frontier[k] > published - Len(lane) /\ frontier[k] <= published
        /\ staged # <<>> => staged[1].at >= frontier[1]
        /\ \A i, j \in 1 .. Len(staged) :
               j < i /\ staged[j].piece.ends => staged[i].at >= frontier[2]

LEMMA InLane ==
    ASSUME Kept, Lined, NEW c \in Nat
    PROVE  c \in Range(lane) <=> c > published - Len(lane) /\ c <= published
<1> DEFINE d == published - Len(lane)
<1>1. /\ lane \in Seq(Nat) /\ published \in Nat /\ Len(lane) \in Nat /\ d \in Nat
      /\ \A i \in 1 .. Len(lane) : lane[i] = d + i
  BY DEF Kept, Lined
<1>2. Range(lane) = {lane[i] : i \in 1 .. Len(lane)}
  BY <1>1 DEF Range
<1>3. ASSUME c > d, c <= published PROVE c \in Range(lane)
  <2>1. c - d \in 1 .. Len(lane) /\ d + (c - d) = c
    BY <1>1, <1>3
  <2> HIDE DEF d
  <2> QED
    BY <1>1, <1>2, <2>1
<1>4. ASSUME NEW i \in 1 .. Len(lane) PROVE lane[i] > d /\ lane[i] <= published
  BY <1>1
<1> QED
  BY <1>2, <1>3, <1>4

LEMMA CutsSame ==
    ASSUME Cuts, UNCHANGED <<frontier, staged, lane, published>>, link' \in {link, "closing"}
    PROVE  Cuts'
BY DEF Cuts

LEMMA CutsReady ==
    ASSUME Kept, BecomeReady, link = "initializing", UNCHANGED staged, staged = <<>>
    PROVE  Cuts'
<1>1. frontier' = <<None, None>> /\ staged' = <<>> /\ Len(staged') = 0
  BY DEF BecomeReady
<1> QED
  BY <1>1 DEF Cuts

LEMMA CutsAway == ASSUME link' # "serving" PROVE Cuts'
BY DEF Cuts

LEMMA ReceiptParts ==
    ASSUME NEW r \in Receipts
    PROVE  r.pieces \in Seq(Cells) /\ Len(r.pieces) \in Nat /\ r.cutoff \in Nat /\ r.step \in Nat
<1>1. r.pieces \in Seq(Cells) /\ r.cutoff \in Nat /\ r.step \in Nat
  BY DEF Receipts
<1>2. Len(r.pieces) \in Nat
  BY <1>1
<1> QED
  BY <1>1, <1>2

LEMMA CellAt ==
    ASSUME NEW cells \in Seq(Cells), NEW i \in 1 .. Len(cells)
    PROVE  cells[i].at \in Nat
<1>1. cells[i] \in Cells
  OBVIOUS
<1> QED
  BY <1>1 DEF Cells

LEMMA CutsReceived ==
    ASSUME Kept, Read, Lined, Stamped, Cuts, Received
    PROVE  Cuts'
<1> DEFINE r == Head(inbox)
           n == Len(staged)
           known == Cutoff(r) \in Range(lane)
           cut == IF known THEN Cutoff(r) ELSE None
           prefix == staged # <<>>
<1>1. /\ UNCHANGED <<link, lane, published>> /\ inbox # <<>> /\ ~FrameStaged
      /\ frontier' = IF link = "serving" THEN AdvancedFrontier(cut, prefix) ELSE frontier
  BY DEF Received
<1>2. /\ r \in Receipts
      /\ staged' \in Seq(Cells)
      /\ Len(staged') = n + Len(r.pieces)
      /\ \A i \in 1 .. n : staged'[i] = staged[i]
      /\ \A i \in 1 .. Len(r.pieces) : staged'[n + i] = r.pieces[i]
  BY ReceivedEffect
<1>3. /\ r = inbox[1] /\ 1 \in 1 .. Len(inbox)
      /\ r.cutoff \in Nat /\ r.pieces \in Seq(Cells) /\ n \in Nat /\ staged \in Seq(Cells)
  <2>1. inbox \in Seq(Receipts) /\ staged \in Seq(Cells)
    BY DEF Read
  <2>2. r = inbox[1] /\ 1 \in 1 .. Len(inbox)
    BY <1>1, <2>1
  <2>3. r.cutoff \in Nat /\ r.pieces \in Seq(Cells)
    BY <1>2 DEF Receipts
  <2> QED
    BY <2>1, <2>2, <2>3
<1>4. Len(r.pieces) > 0 /\ \A i \in 1 .. Len(r.pieces) : r.pieces[i].at >= r.cutoff
  BY <1>3 DEF Stamped
<1>5. \A i \in 1 .. Len(r.pieces) : r.pieces[i].at \in Nat
  BY <1>3, CellAt
<1>6. cut \in Nat /\ cut \in {None, r.cutoff}
  BY <1>3 DEF Cutoff, None
<1>7. \A i \in 1 .. Len(r.pieces) : r.pieces[i].at >= cut
  BY <1>3, <1>4, <1>5, <1>6 DEF None
<1>8. cut # None => cut > published - Len(lane) /\ cut <= published
  BY <1>3, InLane DEF Cutoff
<1> HIDE DEF cut, known
<1> SUFFICES ASSUME link = "serving" PROVE Cuts'
  BY <1>1 DEF Cuts
<1>9. frontier' = <<IF prefix THEN frontier[1] ELSE cut, cut>>
  BY <1>1 DEF AdvancedFrontier
<1>10. \A k \in 1 .. 2 : frontier'[k] # None =>
               /\ frontier'[k] > published' - Len(lane') /\ frontier'[k] <= published'
  BY <1>1, <1>8, <1>9 DEF Cuts
<1>11. staged'[1].at >= frontier'[1]
  <2>1. CASE prefix
    <3>1. 1 \in 1 .. n
      BY <1>3, <2>1
    <3> QED
      BY <1>2, <1>9, <2>1, <3>1 DEF Cuts
  <2>2. CASE ~prefix
    <3>1. n = 0 /\ 1 \in 1 .. Len(r.pieces)
      BY <1>3, <1>4, <2>2
    <3>2. staged'[1] = r.pieces[1]
      BY <1>2, <3>1
    <3> QED
      BY <1>7, <1>9, <2>2, <3>1, <3>2
  <2> QED
    BY <2>1, <2>2
<1>12. ASSUME NEW i \in 1 .. Len(staged'), NEW j \in 1 .. Len(staged'),
              j < i, staged'[j].piece.ends
       PROVE  staged'[i].at >= frontier'[2]
  <2>1. j \notin 1 .. n
    BY <1>1, <1>2, <1>12 DEF FrameStaged
  <2>2. i - n \in 1 .. Len(r.pieces) /\ n + (i - n) = i
    BY <1>2, <1>3, <1>12, <2>1
  <2>3. staged'[i] = r.pieces[i - n]
    BY <1>2, <2>2
  <2> QED
    BY <1>7, <1>9, <2>2, <2>3
<1> QED
  BY <1>10, <1>11, <1>12 DEF Cuts

LEMMA CutsDeliver ==
    ASSUME Kept, Read, Policy, Lined, Cuts, DeliverFrame
    PROVE  Cuts'
<1> DEFINE n == Len(staged)
           e == Boundary
<1>1. /\ e \in 1 .. n /\ staged[e].piece.ends
      /\ staged' \in Seq(Cells) /\ Len(staged') = n - e
      /\ \A i \in 1 .. n - e : staged'[i] = staged[e + i]
  BY DeliverEffect
<1>2. /\ n \in Nat /\ published \in Nat /\ UNCHANGED published /\ lane \in Seq(Nat)
      /\ link # "vacant"
  BY DEF Read, Kept, DeliverFrame
<1> SUFFICES ASSUME link' = "serving" PROVE Cuts'
  BY CutsAway
<1>3. ASSUME NEW cause, NEW policy, Fail(cause, policy) PROVE FALSE
  BY <1>2, <1>3, FailEffect DEF Kept, Links, Live
<1>4. CASE stage[1] = "Init" /\ StepReply(staged[Boundary].piece.kind, staged[1].step)
  <2>1. link = "serving"
    BY <1>3, <1>4 DEF StepReply
  <2> QED
    BY <1>4, <2>1 DEF Policy, Ready
<1>5. CASE CommandReply(staged[1].at)
  <2>1. /\ lane # <<>> /\ lane' = Tail(lane) /\ UNCHANGED link
        /\ link = "serving" => frontier' = AnsweredFrontier
    BY <1>3, <1>5 DEF CommandReply
  <2> DEFINE last == IF Head(lane) = frontier[2] THEN None ELSE frontier[2]
  <2>2. frontier' = <<last, last>>
    BY <2>1 DEF AnsweredFrontier
  <2>3. /\ Len(lane') = Len(lane) - 1 /\ Len(lane) \in Nat \ {0} /\ Head(lane) = lane[1]
        /\ 1 \in 1 .. Len(lane)
    BY <1>2, <2>1
  <2>4. Head(lane) = published - Len(lane) + 1
    BY <2>3 DEF Lined
  <2>5. frontier[2] \in Nat
    BY DEF Kept
  <2>6. last # None => last > published - (Len(lane) - 1) /\ last <= published
    <3> SUFFICES ASSUME last # None PROVE last > published - (Len(lane) - 1) /\ last <= published
      OBVIOUS
    <3>1. last = frontier[2] /\ frontier[2] # Head(lane) /\ frontier[2] # None
      OBVIOUS
    <3>2. frontier[2] > published - Len(lane) /\ frontier[2] <= published
      BY <2>1, <3>1 DEF Cuts
    <3> QED
      BY <1>2, <2>3, <2>4, <2>5, <3>1, <3>2
  <2>7. \A i \in 1 .. n - e : staged'[i].at >= last
    <3> TAKE i \in 1 .. n - e
    <3>1. e + i \in 1 .. n /\ e < e + i /\ e \in 1 .. n
      BY <1>1, <1>2
    <3>2. staged[e + i].at >= frontier[2]
      BY <1>1, <2>1, <3>1 DEF Cuts
    <3>3. staged[e + i].at \in Nat
      BY <3>1, CellAt DEF Read
    <3>4. staged[e + i].at >= last
      BY <2>5, <3>2, <3>3 DEF None
    <3> QED
      BY <1>1, <3>4
  <2> HIDE DEF last
  <2>8. staged' # <<>> => 1 \in 1 .. n - e
    BY <1>1, <1>2
  <2> QED
    BY <1>1, <1>2, <2>2, <2>3, <2>6, <2>7, <2>8 DEF Cuts
<1> QED
  BY <1>3, <1>4, <1>5 DEF DeliverFrame

LEMMA CutsStep ==
    ASSUME Kept, Read, Policy, Hand, Lined, Stamped, Cuts, [WireNext]_wireVars
    PROVE  Cuts'
<1>1. ASSUME Register \/ Finish \/ Disconnect \/ EndOfInput PROVE Cuts'
  <2>1. link' # "serving"
    BY <1>1 DEF Register, Finish, FailRoute, Disconnect, EndOfInput
  <2> QED
    BY <2>1, CutsAway
<1>2. ASSUME Connect PROVE Cuts'
  <2>1. link = "initializing" /\ stage = Offline /\ UNCHANGED staged
    BY <1>2 DEF Connect, input
  <2>2. staged = <<>>
    BY <2>1 DEF Hand
  <2>3. ASSUME NEW s, Begin(s) PROVE link' # "serving"
    BY <2>1, <2>3, FailEffect DEF Begin, Live, Kept, Links
  <2> QED
    BY <1>2, <2>1, <2>2, <2>3, CutsReady, CutsAway DEF Connect
<1>3. ASSUME Answer \/ Stray \/ PeerCloses \/ (\E n \in 1 .. 3 : Receive(n)) \/ UNCHANGED wireVars
      PROVE  Cuts'
  <2>1. UNCHANGED <<frontier, staged, lane, published, link>>
    BY <1>3 DEF Answer, Stray, PeerCloses, Receive, wireVars, conn, input
  <2> QED
    BY <2>1, CutsSame
<1>4. ASSUME Publish PROVE Cuts'
  <2>1. /\ UNCHANGED <<frontier, staged, link>> /\ lane \in Seq(Nat) /\ published \in Nat
        /\ published' = published + 1 /\ Len(lane') = Len(lane) + 1
    BY <1>4 DEF Publish, conn, input, Kept
  <2>2. frontier[1] \in Nat /\ frontier[2] \in Nat
    BY DEF Kept
  <2>3. published' - Len(lane') = published - Len(lane)
    BY <2>1
  <2>4. \A k \in 1 .. 2 : frontier[k] <= published => frontier[k] <= published'
    BY <2>1, <2>2
  <2> QED
    BY <2>1, <2>3, <2>4 DEF Cuts
<1>5. ASSUME Flush PROVE Cuts'
  <2>1. UNCHANGED <<lane, published, staged>> /\ link # "vacant"
    BY <1>5 DEF Flush, input
  <2>2. ASSUME NEW cause, NEW policy, Fail(cause, policy) PROVE Cuts'
    <3>1. link' = "closing"
      BY <2>1, <2>2, FailEffect DEF Live, Kept, Links
    <3> QED
      BY <3>1, CutsAway
  <2>3. CASE stage[1] = "Advance" /\ Advance(staged # <<>>)
    <3>1. link # "serving"
      BY <2>3 DEF Policy, Ready
    <3>2. CASE UNCHANGED link
      BY <3>1, <3>2, CutsAway
    <3>3. CASE retry = "open" /\ staged = <<>> /\ BecomeReady
      <4>1. link = "initializing"
        BY <2>1, <3>1, <3>3 DEF Policy, Kept, Links
      <4> QED
        BY <2>1, <3>3, <4>1, CutsReady
    <3>4. ASSUME NEW s, Begin(s) PROVE Cuts'
      BY <2>2, <3>2, <3>4 DEF Begin
    <3> QED
      BY <2>2, <2>3, <3>2, <3>3, <3>4 DEF Advance
  <2>4. CASE stage[1] # "Advance" /\ UNCHANGED <<link, frontier>>
    BY <2>1, <2>4, CutsSame
  <2> QED
    BY <1>5, <2>2, <2>3, <2>4 DEF Flush
<1>6. ASSUME LinkFails \/ DrainFails \/ TimesOut PROVE Cuts'
  <2>1. UNCHANGED <<frontier, staged, lane, published>> /\ \E cause : Fail(cause, "reconnect")
    BY <1>6 DEF LinkFails, DrainFails, TimesOut, input
  <2>2. link' \in {link, "closing"}
    BY <2>1, FailEffect DEF Kept
  <2> QED
    BY <2>1, <2>2, CutsSame
<1> QED
  BY <1>1, <1>2, <1>3, <1>4, <1>5, <1>6, CutsReceived, CutsDeliver DEF WireNext

(* Replies began to arrive after their commands were published.            *)
LEMMA EarlyStep ==
    ASSUME Kept, Read, Lined, Cuts, NoEarlyReply, [WireNext]_wireVars
    PROVE  NoEarlyReply'
<1>1. CASE UNCHANGED began
  BY <1>1 DEF NoEarlyReply
<1>2. CASE DeliverFrame /\ CommandReply(staged[1].at) /\ ~UNCHANGED began
  <2>1. /\ link = "serving" /\ frontier[1] # None /\ lane # <<>>
        /\ began' = [began EXCEPT ![Head(lane)] = staged[1].at]
    BY <1>2 DEF CommandReply, Unawaited
  <2>2. /\ 1 \in 1 .. Len(lane) /\ Head(lane) = lane[1] /\ lane \in Seq(Nat)
        /\ published \in Nat
    BY <2>1 DEF Kept
  <2>3. Head(lane) = published - Len(lane) + 1
    BY <2>2 DEF Lined
  <2>4. staged # <<>> /\ staged[1] \in Cells
    BY <1>2, DeliverEffect DEF Read
  <2>5. staged[1].at >= frontier[1] /\ frontier[1] > published - Len(lane)
    BY <2>1, <2>4 DEF Cuts
  <2>6. staged[1].at \in Nat /\ frontier[1] \in Nat
    BY <2>4 DEF Cells, Kept
  <2>7. staged[1].at >= Head(lane)
    BY <2>2, <2>3, <2>5, <2>6
  <2> QED
    BY <2>1, <2>7 DEF NoEarlyReply, Kept
<1>3. UNCHANGED began \/ (DeliverFrame /\ CommandReply(staged[1].at) /\ ~UNCHANGED began)
  BY DEF WireNext, Register, Connect, Answer, Stray, PeerCloses, Publish, Receive, Received, DeliverFrame,
         Flush, LinkFails, DrainFails, TimesOut, EndOfInput, Finish, Disconnect, wireVars, past
<1> QED
  BY <1>1, <1>2, <1>3

-----------------------------------------------------------------------------
(* A peer that answers in order.  All pieces that are staged, read or      *)
(* under way, as one sequence T of length m, are frames that follow each   *)
(* other; the receipts cut it into reads.  own numbers the request each    *)
(* piece answers: while the connection serves, by its command.             *)

First ==
    IF stage = Ready THEN published - Len(lane) + 1 ELSE IF stage[1] = "Init" THEN 1 ELSE 2
Final == IF stage = Ready THEN published ELSE 1

Laid(m, T, cut, st, ib, nt) ==
    /\ cut[0] = Len(st) /\ cut[Len(ib)] + Len(nt) = m
    /\ \A i, j \in 0 .. Len(ib) : i <= j => cut[i] <= cut[j]
    /\ \A i \in 1 .. Len(st) : st[i].piece = T[i]
    /\ \A j \in 1 .. Len(ib) :
          /\ Len(ib[j].pieces) > 0 /\ cut[j] = cut[j - 1] + Len(ib[j].pieces)
          /\ \A i \in 1 .. Len(ib[j].pieces) : ib[j].pieces[i].piece = T[cut[j - 1] + i]
    /\ \A i \in 1 .. Len(nt) : nt[i] = T[cut[Len(ib)] + i]
Framed(m, T) ==
    \A i \in 1 .. m : /\ T[i].starts <=> (i = 1 \/ T[i - 1].ends)
                      /\ T[i].starts \/ T[i].ends
Whole(m, T) == m = 0 \/ T[m].ends
Opens(p) == IF p.starts THEN 1 ELSE 0
Owns(m, T, own, first) ==
    /\ m > 0 => own[1] = first
    /\ \A i \in 2 .. m : own[i] = own[i - 1] + Opens(T[i])
    /\ \A i, j \in 1 .. m : i <= j => own[i] <= own[j]
Reach(m, own, first) == IF m = 0 THEN first - 1 ELSE own[m]
Covered(own, cut, st, ib, sg, fr, pub) ==
    /\ sg = Ready =>
          /\ \A j \in 1 .. Len(ib) : ib[j].cutoff >= own[cut[j]] /\ ib[j].cutoff <= pub
          /\ st # <<>> => fr[1] # None /\ fr[2] >= own[Len(st)]
    /\ sg[1] = "Init" => \A j \in 1 .. Len(ib) : ib[j].step = sg[2]

Chain(m, T, own, cut, st, ib, nt, first) ==
    /\ m \in Nat /\ T \in [1 .. m -> Pieces] /\ own \in [1 .. m -> Nat]
    /\ st \in Seq(Cells) /\ ib \in Seq(Receipts) /\ nt \in Seq(Pieces)
    /\ cut \in [0 .. Len(ib) -> 0 .. m] /\ first \in Nat \ {0}
    /\ Laid(m, T, cut, st, ib, nt) /\ Framed(m, T) /\ Owns(m, T, own, first)
Pipe(m, T, own, cut) ==
    /\ Chain(m, T, own, cut, staged, inbox, net, First)
    /\ ~eof => Whole(m, T)
    /\ Reach(m, own, First) + Len(sent) <= Final
    /\ Covered(own, cut, staged, inbox, stage, frontier, published)
Piped == \E m, T, own, cut : Pipe(m, T, own, cut)

Orderly == strays = 0 /\ link # "closing" => stage # Unsolicited /\ Piped

LEMMA PipeNext ==
    ASSUME NEW m, NEW T, NEW own, NEW cut,
           Chain(m, T, own, cut, staged', inbox', net', First'),
           ~eof' => Whole(m, T),
           Reach(m, own, First') + Len(sent') <= Final',
           Covered(own, cut, staged', inbox', stage', frontier', published')
    PROVE  Piped'
BY DEF Piped, Pipe

LEMMA FirstTypes ==
    ASSUME Kept, Lined
    PROVE  First \in Nat \ {0} /\ Final \in Nat /\ published \in Nat /\ Len(lane) \in Nat
BY DEF First, Final, Kept, Lined

(* Nothing is under way. *)
LEMMA ChainEmpty ==
    ASSUME NEW first \in Nat \ {0}
    PROVE  \E T, own, cut :
              /\ Chain(0, T, own, cut, <<>>, <<>>, <<>>, first)
              /\ Whole(0, T) /\ Reach(0, own, first) = first - 1
              /\ \A sg, fr, pub : Covered(own, cut, <<>>, <<>>, sg, fr, pub)
<1> DEFINE T == [i \in 1 .. 0 |-> [kind |-> "ok", starts |-> TRUE, ends |-> TRUE]]
           own == [i \in 1 .. 0 |-> 0]
           cut == [j \in 0 .. 0 |-> 0]
<1>1. Len(<<>>) = 0
  OBVIOUS
<1>2. 0 \in Nat /\ T \in [1 .. 0 -> Pieces] /\ own \in [1 .. 0 -> Nat]
      /\ cut \in [0 .. Len(<<>>) -> 0 .. 0]
  BY <1>1 DEF Pieces
<1>3. cut[0] = 0
  OBVIOUS
<1> HIDE DEF T, own, cut
<1>4. Laid(0, T, cut, <<>>, <<>>, <<>>)
  BY <1>1, <1>2, <1>3 DEF Laid
<1>5. Framed(0, T) /\ Whole(0, T) /\ Owns(0, T, own, first) /\ Reach(0, own, first) = first - 1
  BY DEF Framed, Whole, Owns, Reach
<1>6. \A sg, fr, pub : Covered(own, cut, <<>>, <<>>, sg, fr, pub)
  BY <1>1 DEF Covered
<1>7. \A S : <<>> \in Seq(S)
  OBVIOUS
<1>8. Chain(0, T, own, cut, <<>>, <<>>, <<>>, first)
  BY <1>2, <1>4, <1>5, <1>7 DEF Chain
<1> QED
  BY <1>5, <1>6, <1>8

LEMMA PipedStart ==
    ASSUME staged = <<>>, inbox = <<>>, net = <<>>, First \in Nat \ {0},
           First - 1 + Len(sent) <= Final
    PROVE  Piped
BY ChainEmpty DEF Piped, Pipe

LEMMA PipedEmpty ==
    ASSUME staged' = <<>>, inbox' = <<>>, net' = <<>>, First' \in Nat \ {0},
           First' - 1 + Len(sent') <= Final'
    PROVE  Piped'
BY ChainEmpty, PipeNext

LEMMA PipedNone ==
    ASSUME Kept, Read, Piped, stage[1] \in {"Offline", "Advance"}
    PROVE  staged = <<>> /\ inbox = <<>> /\ net = <<>> /\ sent = <<>>
<1>1. First = 2 /\ Final = 1
  <2>1. stage # Ready
    BY DEF Ready
  <2> QED
    BY <2>1 DEF First, Final
<1>2. PICK m, T, own, cut : Pipe(m, T, own, cut)
  BY DEF Piped
<1>3. /\ m \in Nat /\ own \in [1 .. m -> Nat] /\ cut \in [0 .. Len(inbox) -> 0 .. m]
      /\ Laid(m, T, cut, staged, inbox, net)
      /\ Owns(m, T, own, 2)
      /\ Reach(m, own, 2) + Len(sent) <= 1
  BY <1>1, <1>2 DEF Pipe, Chain
<1>4. Len(sent) \in Nat /\ Len(staged) \in Nat /\ Len(net) \in Nat /\ Len(inbox) \in Nat
  BY DEF Read
<1>5. m = 0
  <2> SUFFICES ASSUME m # 0 PROVE FALSE
    OBVIOUS
  <2>1. 1 \in 1 .. m /\ m \in 1 .. m
    BY <1>3
  <2>2. own[m] >= own[1] /\ own[1] = 2 /\ own[m] \in Nat
    BY <1>3, <2>1 DEF Owns
  <2> QED
    BY <1>3, <1>4, <2>2 DEF Reach
<1>6. Len(sent) = 0
  BY <1>3, <1>4, <1>5 DEF Reach
<1>7. /\ cut[0] = Len(staged) /\ cut[Len(inbox)] + Len(net) = 0
      /\ 0 \in 0 .. Len(inbox) /\ Len(inbox) \in 0 .. Len(inbox)
      /\ \A j \in 0 .. Len(inbox) : cut[j] = 0
  BY <1>3, <1>4, <1>5 DEF Laid
<1>8. Len(staged) = 0 /\ Len(net) = 0
  <2>1. cut[0] = 0 /\ cut[Len(inbox)] = 0
    BY <1>7
  <2> QED
    BY <1>4, <1>7, <2>1
<1>9. Len(inbox) = 0
  <2> SUFFICES ASSUME Len(inbox) # 0 PROVE FALSE
    OBVIOUS
  <2>1. 1 \in 1 .. Len(inbox) /\ 1 \in 0 .. Len(inbox) /\ 1 - 1 = 0
    BY <1>4
  <2>2. /\ Len(inbox[1].pieces) > 0
        /\ cut[1] = cut[0] + Len(inbox[1].pieces)
    BY <1>3, <2>1 DEF Laid
  <2>3. Len(inbox[1].pieces) \in Nat
    BY <2>1 DEF Read, Receipts
  <2> QED
    BY <1>7, <2>1, <2>2, <2>3
<1> QED
  BY <1>6, <1>8, <1>9 DEF Read

(* One more piece is under way. *)
Grows(m, own, T2, own2, first, p) ==
    /\ Whole(m + 1, T2) <=> p.ends
    /\ Reach(m + 1, own2, first) = Reach(m, own, first) + Opens(p)
    /\ \A i \in 1 .. m : own2[i] = own[i]

LEMMA PipeGrows ==
    ASSUME NEW m, NEW T, NEW own, NEW cut, NEW st, NEW ib, NEW nt, NEW first, NEW p \in Pieces,
           Chain(m, T, own, cut, st, ib, nt, first),
           p.starts <=> Whole(m, T), p.starts \/ p.ends
    PROVE  \E T2, own2 :
              /\ Chain(m + 1, T2, own2, cut, st, ib, Append(nt, p), first)
              /\ Grows(m, own, T2, own2, first, p)
<1>8. /\ m \in Nat /\ T \in [1 .. m -> Pieces] /\ own \in [1 .. m -> Nat]
      /\ st \in Seq(Cells) /\ ib \in Seq(Receipts) /\ nt \in Seq(Pieces)
      /\ cut \in [0 .. Len(ib) -> 0 .. m] /\ first \in Nat \ {0}
      /\ Laid(m, T, cut, st, ib, nt) /\ Framed(m, T) /\ Owns(m, T, own, first)
  BY DEF Chain
<1> USE <1>8 DEF Opens
<1> DEFINE w == Reach(m, own, first) + (IF p.starts THEN 1 ELSE 0)
           T2 == [i \in 1 .. m + 1 |-> IF i = m + 1 THEN p ELSE T[i]]
           own2 == [i \in 1 .. m + 1 |-> IF i = m + 1 THEN w ELSE own[i]]
<1>1. /\ \A i \in 1 .. m + 1 : i \in 1 .. m \/ i = m + 1
      /\ \A i \in 1 .. m : i # m + 1 /\ i \in 1 .. m + 1
      /\ m + 1 \in 1 .. m + 1
  OBVIOUS
<1>2. w \in Nat
  BY <1>1 DEF Reach
<1>3. /\ T2 \in [1 .. m + 1 -> Pieces] /\ own2 \in [1 .. m + 1 -> Nat]
      /\ T2[m + 1] = p /\ own2[m + 1] = w
      /\ \A i \in 1 .. m : T2[i] = T[i] /\ own2[i] = own[i]
  <2> HIDE DEF w
  <2> QED
    BY <1>1, <1>2
<1>4. w = Reach(m, own, first) + Opens(p)
  OBVIOUS
<1> HIDE DEF T2, own2, w
<1>5. Framed(m + 1, T2)
  <2>1. ASSUME NEW i \in 1 .. m + 1
        PROVE  /\ T2[i].starts <=> (i = 1 \/ T2[i - 1].ends)
               /\ T2[i].starts \/ T2[i].ends
    <3>1. CASE i = m + 1
      <4>1. i - 1 = m /\ (m = 0 <=> i = 1)
        BY <3>1
      <4>2. m # 0 => T2[m] = T[m]
        BY <1>3
      <4> QED
        BY <1>3, <3>1, <4>1, <4>2 DEF Whole
    <3>2. CASE i # m + 1
      <4>1. i \in 1 .. m /\ (i # 1 => i - 1 \in 1 .. m)
        BY <3>2
      <4> QED
        BY <1>3, <4>1 DEF Framed
    <3> QED
      BY <3>1, <3>2
  <2> QED
    BY <2>1 DEF Framed
<1>6. Owns(m + 1, T2, own2, first)
  <2>1. own2[1] = first
    <3>1. CASE m = 0
      BY <1>3, <1>4, <3>1 DEF Whole, Reach
    <3>2. CASE m # 0
      BY <1>3, <3>2 DEF Owns
    <3> QED
      BY <3>1, <3>2
  <2>2. ASSUME NEW i \in 2 .. m + 1
        PROVE  own2[i] = own2[i - 1] + Opens(T2[i])
    <3>1. CASE i = m + 1
      <4>1. m # 0 /\ i - 1 = m /\ m \in 1 .. m
        BY <3>1
      <4> QED
        BY <1>3, <1>4, <3>1, <4>1 DEF Reach
    <3>2. CASE i # m + 1
      <4>1. i \in 2 .. m /\ i \in 1 .. m /\ i - 1 \in 1 .. m
        BY <3>2
      <4> QED
        BY <1>3, <4>1 DEF Owns
    <3> QED
      BY <3>1, <3>2
  <2>3. ASSUME NEW i \in 1 .. m + 1, NEW j \in 1 .. m + 1, i <= j PROVE own2[i] <= own2[j]
    <3>1. CASE j = m + 1 /\ i # m + 1
      <4>1. i \in 1 .. m /\ m \in 1 .. m /\ i <= m /\ m # 0
        BY <3>1
      <4>2. own[i] <= own[m] /\ own[i] \in Nat /\ own[m] \in Nat
        BY <4>1 DEF Owns
      <4>3. own[m] <= w
        BY <1>4, <4>1, <4>2 DEF Reach
      <4> QED
        BY <1>2, <1>3, <3>1, <4>1, <4>2, <4>3
    <3>2. CASE j = m + 1 /\ i = m + 1
      BY <1>2, <1>3, <3>2
    <3>3. CASE j # m + 1
      <4>1. i \in 1 .. m /\ j \in 1 .. m
        BY <2>3, <3>3
      <4> QED
        BY <1>3, <2>3, <4>1 DEF Owns
    <3> QED
      BY <3>1, <3>2, <3>3
  <2> QED
    BY <2>1, <2>2, <2>3 DEF Owns
<1>7. Laid(m + 1, T2, cut, st, ib, Append(nt, p))
  <2>1. /\ Len(ib) \in Nat /\ Len(nt) \in Nat /\ Len(st) \in Nat
        /\ \A j \in 0 .. Len(ib) : cut[j] \in 0 .. m
    <3>1. Len(ib) \in Nat /\ Len(nt) \in Nat /\ Len(st) \in Nat
      OBVIOUS
    <3>2. \A j \in 0 .. Len(ib) : cut[j] \in 0 .. m
      OBVIOUS
    <3> QED
      BY <3>1, <3>2
  <2>2. /\ Len(Append(nt, p)) = Len(nt) + 1 /\ Append(nt, p)[Len(nt) + 1] = p
        /\ \A i \in 1 .. Len(nt) : Append(nt, p)[i] = nt[i]
    OBVIOUS
  <2>3. /\ cut[0] = Len(st) /\ cut[Len(ib)] + Len(nt) = m
        /\ Len(ib) \in 0 .. Len(ib) /\ 0 \in 0 .. Len(ib)
    BY <2>1 DEF Laid
  <2> DEFINE last == cut[Len(ib)]
             n == Len(nt)
  <2>9. last \in Nat /\ last + n = m /\ n \in Nat
    <3>1. last \in 0 .. m
      BY <2>1, <2>3
    <3> QED
      BY <2>1, <2>3, <3>1
  <2>4. last + (n + 1) = m + 1
    <3> HIDE DEF last, n
    <3> QED
      BY <2>9
  <2>5. \A i \in 1 .. Len(st) : st[i].piece = T2[i]
    <3> TAKE i \in 1 .. Len(st)
    <3>1. i \in 1 .. m
      BY <2>1, <2>3
    <3> QED
      BY <1>3, <3>1 DEF Laid
  <2>6. ASSUME NEW j \in 1 .. Len(ib)
        PROVE  /\ Len(ib[j].pieces) > 0 /\ cut[j] = cut[j - 1] + Len(ib[j].pieces)
               /\ \A i \in 1 .. Len(ib[j].pieces) : ib[j].pieces[i].piece = T2[cut[j - 1] + i]
    <3>1. /\ Len(ib[j].pieces) > 0 /\ cut[j] = cut[j - 1] + Len(ib[j].pieces)
          /\ \A i \in 1 .. Len(ib[j].pieces) : ib[j].pieces[i].piece = T[cut[j - 1] + i]
      BY DEF Laid
    <3>2. j \in 0 .. Len(ib) /\ j - 1 \in 0 .. Len(ib)
      BY <2>1
    <3>5. Len(ib[j].pieces) \in Nat
      <4>1. ib[j] \in Receipts
        OBVIOUS
      <4> QED
        BY <4>1, ReceiptParts
    <3>3. cut[j] \in 0 .. m /\ cut[j - 1] \in 0 .. m
      BY <2>1, <3>2
    <3>4. \A i \in 1 .. Len(ib[j].pieces) : cut[j - 1] + i \in 1 .. m
      <4> DEFINE k == Len(ib[j].pieces)
                 a == cut[j - 1]
                 b == cut[j]
      <4>1. k \in Nat /\ a \in 0 .. m /\ b \in 0 .. m /\ b = a + k
        BY <3>1, <3>3, <3>5
      <4> HIDE DEF k, a, b
      <4>2. \A i \in 1 .. k : a + i \in 1 .. m
        BY <4>1
      <4> QED
        BY <4>2 DEF k, a
    <3> QED
      BY <1>3, <3>1, <3>4
  <2>7. ASSUME NEW i \in 1 .. Len(nt) + 1 PROVE Append(nt, p)[i] = T2[cut[Len(ib)] + i]
    <3>1. CASE i = Len(nt) + 1
      BY <1>3, <2>2, <2>4, <3>1
    <3>2. CASE i # Len(nt) + 1
      <4>1. i \in 1 .. Len(nt) /\ cut[Len(ib)] + i \in 1 .. m
        <5> HIDE DEF last, n
        <5>1. i \in 1 .. n /\ last + i \in 1 .. m
          <6>1. i \in 1 .. n + 1 /\ i # n + 1
            BY <3>2 DEF n
          <6> QED
            BY <2>9, <6>1
        <5> QED
          BY <5>1 DEF last, n
      <4> QED
        BY <1>3, <2>2, <4>1 DEF Laid
    <3> QED
      BY <3>1, <3>2
  <2>8. \A i, j \in 0 .. Len(ib) : i <= j => cut[i] <= cut[j]
    BY DEF Laid
  <2> QED
    BY <2>2, <2>3, <2>4, <2>5, <2>6, <2>7, <2>8 DEF Laid
<1>9. Chain(m + 1, T2, own2, cut, st, ib, Append(nt, p), first)
  <2>1. cut \in [0 .. Len(ib) -> 0 .. m + 1] /\ m + 1 \in Nat
    <3>1. 0 .. m \subseteq 0 .. m + 1
      OBVIOUS
    <3> QED
      BY <3>1
  <2>2. Append(nt, p) \in Seq(Pieces)
    OBVIOUS
  <2> QED
    BY <1>3, <1>5, <1>6, <1>7, <2>1, <2>2 DEF Chain
<1>10. Whole(m + 1, T2) <=> p.ends
  BY <1>3 DEF Whole
<1>11. Reach(m + 1, own2, first) = w
  BY <1>3 DEF Reach
<1>12. w = Reach(m, own, first) + Opens(p)
  BY <1>4
<1> HIDE DEF Opens
<1>13. Grows(m, own, T2, own2, first, p)
  BY <1>3, <1>10, <1>11, <1>12 DEF Grows
<1> QED
  BY <1>9, <1>13

LEMMA CutRange ==
    ASSUME NEW m, NEW T, NEW own, NEW cut, NEW st, NEW ib, NEW nt, NEW first,
           Chain(m, T, own, cut, st, ib, nt, first)
    PROVE  /\ \A j \in 1 .. Len(ib) : /\ cut[j] \in 1 .. m /\ cut[j - 1] \in 0 .. m
                                      /\ Len(ib[j].pieces) \in Nat \ {0}
                                      /\ cut[j] = cut[j - 1] + Len(ib[j].pieces)
           /\ st # <<>> => Len(st) \in 1 .. m
           /\ Len(st) \in 0 .. m /\ Len(st) = cut[0]
           /\ cut[Len(ib)] \in 0 .. m /\ Len(nt) = m - cut[Len(ib)]
           /\ Len(ib) \in Nat
<1>8. /\ m \in Nat /\ st \in Seq(Cells) /\ ib \in Seq(Receipts) /\ nt \in Seq(Pieces)
      /\ cut \in [0 .. Len(ib) -> 0 .. m] /\ Laid(m, T, cut, st, ib, nt)
  BY DEF Chain
<1> USE <1>8
<1>1. Len(ib) \in Nat /\ Len(nt) \in Nat /\ Len(st) \in Nat /\ (st # <<>> => Len(st) # 0)
  OBVIOUS
<1>2. \A j \in 0 .. Len(ib) : cut[j] \in 0 .. m
  OBVIOUS
<1>3. 0 \in 0 .. Len(ib) /\ Len(ib) \in 0 .. Len(ib)
  BY <1>1
<1>4. cut[0] = Len(st) /\ cut[Len(ib)] + Len(nt) = m
  BY DEF Laid
<1>5. cut[0] \in 0 .. m /\ cut[Len(ib)] \in 0 .. m
  BY <1>2, <1>3
<1>6. Len(nt) = m - cut[Len(ib)]
  <2> DEFINE a == cut[Len(ib)]
             b == Len(nt)
  <2>1. a \in 0 .. m /\ b \in Nat /\ a + b = m
    BY <1>1, <1>4, <1>5
  <2> HIDE DEF a, b
  <2>2. b = m - a
    BY <2>1
  <2> QED
    BY <2>2 DEF a, b
<1>7. ASSUME NEW j \in 1 .. Len(ib)
      PROVE  /\ cut[j] \in 1 .. m /\ cut[j - 1] \in 0 .. m
             /\ Len(ib[j].pieces) \in Nat \ {0}
             /\ cut[j] = cut[j - 1] + Len(ib[j].pieces)
  <2>1. j \in 0 .. Len(ib) /\ j - 1 \in 0 .. Len(ib)
    BY <1>1
  <2>2. Len(ib[j].pieces) > 0 /\ cut[j] = cut[j - 1] + Len(ib[j].pieces)
    BY DEF Laid
  <2>3. Len(ib[j].pieces) \in Nat
    <3>1. ib[j] \in Receipts
      OBVIOUS
    <3> QED
      BY <3>1, ReceiptParts
  <2>4. cut[j] \in 0 .. m /\ cut[j - 1] \in 0 .. m
    BY <1>2, <2>1
  <2> DEFINE k == Len(ib[j].pieces)
             a == cut[j - 1]
             b == cut[j]
  <2>5. k \in Nat /\ k > 0 /\ a \in 0 .. m /\ b \in 0 .. m /\ b = a + k
    BY <2>2, <2>3, <2>4
  <2> HIDE DEF k, a, b
  <2>6. b \in 1 .. m /\ k \in Nat \ {0}
    BY <2>5
  <2> QED
    BY <2>2, <2>4, <2>6 DEF k, a, b
<1> QED
  BY <1>1, <1>4, <1>5, <1>6, <1>7

LEMMA CoverSame ==
    ASSUME NEW m, NEW T, NEW own, NEW cut, NEW st, NEW ib, NEW nt, NEW first,
           Chain(m, T, own, cut, st, ib, nt, first), NEW own2, \A i \in 1 .. m : own2[i] = own[i],
           NEW sg, NEW fr, NEW pub
    PROVE  Covered(own, cut, st, ib, sg, fr, pub) <=> Covered(own2, cut, st, ib, sg, fr, pub)
<1>1. /\ \A j \in 1 .. Len(ib) : cut[j] \in 1 .. m
      /\ st # <<>> => Len(st) \in 1 .. m
  BY CutRange
<1>2. /\ \A j \in 1 .. Len(ib) : own2[cut[j]] = own[cut[j]]
      /\ st # <<>> => own2[Len(st)] = own[Len(st)]
  BY <1>1
<1> QED
  BY <1>2 DEF Covered

LEMMA ReachNat ==
    ASSUME NEW m, NEW T, NEW own, NEW cut, NEW st, NEW ib, NEW nt, NEW first,
           Chain(m, T, own, cut, st, ib, nt, first)
    PROVE  Reach(m, own, first) \in Nat /\ m \in Nat /\ first \in Nat \ {0}
<1>1. m \in Nat /\ own \in [1 .. m -> Nat] /\ first \in Nat \ {0}
  BY DEF Chain
<1>2. m # 0 => m \in 1 .. m
  BY <1>1
<1> QED
  BY <1>1, <1>2 DEF Reach

LEMMA Concats ==
    ASSUME NEW S, NEW s \in Seq(S), NEW x \in Seq(S)
    PROVE  /\ Len(x) = 1 => s \o x = Append(s, x[1])
           /\ Len(x) = 2 => s \o x = Append(Append(s, x[1]), x[2])
<1>1. CASE Len(x) = 1
  <2>1. x[1] \in S
    BY <1>1
  <2>2. s \o x \in Seq(S) /\ Append(s, x[1]) \in Seq(S)
    BY <2>1
  <2>3. Len(s \o x) = Len(s) + 1 /\ Len(Append(s, x[1])) = Len(s) + 1 /\ Len(s) \in Nat
    <3>1. Len(s \o x) = Len(s) + Len(x)
      BY ConcatProperties
    <3>2. Len(Append(s, x[1])) = Len(s) + 1 /\ Len(s) \in Nat
      BY <2>1
    <3> QED
      BY <1>1, <3>1, <3>2
  <2>4. ASSUME NEW i \in 1 .. Len(s) + 1 PROVE (s \o x)[i] = Append(s, x[1])[i]
    <3>1. CASE i = Len(s) + 1
      BY <1>1, <2>1, <2>3, <3>1
    <3>2. CASE i # Len(s) + 1
      <4>1. i \in 1 .. Len(s)
        BY <2>3, <3>2
      <4> QED
        BY <4>1
    <3> QED
      BY <3>1, <3>2
  <2>5. s \o x = Append(s, x[1])
    BY <2>2, <2>3, <2>4, SeqEqual
  <2> QED
    BY <1>1, <2>5
<1>2. CASE Len(x) = 2
  <2>1. x[1] \in S /\ x[2] \in S
    BY <1>2
  <2> DEFINE half == Append(s, x[1])
  <2>2. /\ half \in Seq(S) /\ Len(half) = Len(s) + 1 /\ half[Len(s) + 1] = x[1]
        /\ \A i \in 1 .. Len(s) : half[i] = s[i]
    BY <2>1
  <2> HIDE DEF half
  <2>3. s \o x \in Seq(S) /\ Append(half, x[2]) \in Seq(S)
    BY <2>1, <2>2
  <2>4. /\ Len(s \o x) = Len(s) + 2 /\ Len(Append(half, x[2])) = Len(s) + 2 /\ Len(s) \in Nat
    <3>1. Len(s \o x) = Len(s) + Len(x)
      BY ConcatProperties
    <3>2. Len(Append(half, x[2])) = (Len(s) + 1) + 1 /\ Len(s) \in Nat
      BY <2>1, <2>2
    <3> QED
      BY <1>2, <3>1, <3>2
  <2>5. ASSUME NEW i \in 1 .. Len(s) + 2 PROVE (s \o x)[i] = Append(half, x[2])[i]
    <3>1. CASE i = Len(s) + 2
      BY <1>2, <2>1, <2>2, <2>4, <3>1
    <3>2. CASE i = Len(s) + 1
      BY <1>2, <2>1, <2>2, <2>4, <3>2
    <3>3. CASE i # Len(s) + 1 /\ i # Len(s) + 2
      <4>1. i \in 1 .. Len(s)
        BY <2>4, <3>3
      <4> QED
        BY <2>2, <4>1
    <3> QED
      BY <3>1, <3>2, <3>3
  <2>6. s \o x = Append(half, x[2])
    BY <2>3, <2>4, <2>5, SeqEqual
  <2> QED
    BY <1>2, <2>6 DEF half
<1> QED
  BY <1>1, <1>2

LEMMA PipedAnswer ==
    ASSUME Kept, Read, Lined, Piped, Answer
    PROVE  Piped'
<1>1. /\ UNCHANGED <<stage, link, frontier, lane, published, inbox, staged, eof>>
      /\ sent # <<>> /\ sent' = Tail(sent) /\ ~eof
  BY DEF Answer, conn, input
<1>2. \E kind \in {"ok", "error", "value"} : \E pieces \in Frame(kind) : net' = net \o pieces
  BY DEF Answer
<1>3. PICK pieces \in Seq(Pieces) :
         /\ net' = net \o pieces
         /\ \/ Len(pieces) = 1 /\ pieces[1].starts /\ pieces[1].ends
            \/ /\ Len(pieces) = 2 /\ pieces[1].starts /\ ~pieces[1].ends
               /\ ~pieces[2].starts /\ pieces[2].ends
  BY <1>2, FrameShape
<1>4. PICK m, T, own, cut : Pipe(m, T, own, cut)
  BY DEF Piped
<1>5. /\ Chain(m, T, own, cut, staged, inbox, net, First) /\ Whole(m, T)
      /\ Reach(m, own, First) + Len(sent) <= Final
      /\ Covered(own, cut, staged, inbox, stage, frontier, published)
  BY <1>1, <1>4 DEF Pipe
<1>6. /\ sent \in Seq(Asked) /\ net \in Seq(Pieces) /\ Final \in Nat
  BY FirstTypes DEF Read
<1>7. Len(sent) \in Nat \ {0} /\ Len(sent') = Len(sent) - 1
  BY <1>1, <1>6
<1>8. First' = First /\ Final' = Final
  BY <1>1 DEF First, Final
<1>9. /\ pieces[1] \in Pieces /\ pieces[1].starts
      /\ (pieces[1].starts <=> Whole(m, T)) /\ (pieces[1].starts \/ pieces[1].ends)
  BY <1>3, <1>5
<1>10. PICK T1, own1 :
              /\ Chain(m + 1, T1, own1, cut, staged, inbox, Append(net, pieces[1]), First)
              /\ Whole(m + 1, T1) <=> pieces[1].ends
              /\ Reach(m + 1, own1, First) = Reach(m, own, First) + Opens(pieces[1])
              /\ \A i \in 1 .. m : own1[i] = own[i]
  <2>1. Chain(m, T, own, cut, staged, inbox, net, First)
    BY <1>5
  <2> HIDE DEF Chain
  <2> DEFINE p == pieces[1]
  <2>2. p \in Pieces /\ (p.starts <=> Whole(m, T)) /\ (p.starts \/ p.ends)
    BY <1>9
  <2> HIDE DEF p
  <2>3. \E T1, own1 :
              /\ Chain(m + 1, T1, own1, cut, staged, inbox, Append(net, p), First)
              /\ Grows(m, own, T1, own1, First, p)
    BY <2>1, <2>2, PipeGrows
  <2> QED
    BY <2>3 DEF p, Grows
<1>11. Reach(m, own, First) \in Nat
  BY <1>5, ReachNat
<1>12. Reach(m + 1, own1, First) + Len(sent') <= Final
  <2> DEFINE a == Reach(m, own, First)
             b == Len(sent)
             c == Final
  <2>1. a \in Nat /\ b \in Nat \ {0} /\ c \in Nat /\ a + b <= c
    BY <1>5, <1>6, <1>7, <1>11
  <2> HIDE DEF a, b, c
  <2>2. (a + 1) + (b - 1) <= c
    BY <2>1
  <2> QED
    BY <1>7, <1>9, <1>10, <2>2 DEF a, b, c, Opens
<1>13. Covered(own1, cut, staged, inbox, stage, frontier, published)
  BY <1>5, <1>10, CoverSame
<1>14. CASE Len(pieces) = 1 /\ pieces[1].ends
  <2>1. net' = Append(net, pieces[1])
    BY <1>3, <1>6, <1>14, Concats
  <2>2. /\ Chain(m + 1, T1, own1, cut, staged', inbox', net', First')
        /\ Whole(m + 1, T1) /\ Reach(m + 1, own1, First') + Len(sent') <= Final'
        /\ Covered(own1, cut, staged', inbox', stage', frontier', published')
    BY <1>1, <1>8, <1>10, <1>12, <1>13, <1>14, <2>1
  <2> QED
    BY <2>2, PipeNext
<1>15. CASE Len(pieces) = 2 /\ ~pieces[1].ends /\ ~pieces[2].starts /\ pieces[2].ends
  <2> DEFINE half == Append(net, pieces[1])
  <2>1. net' = Append(half, pieces[2]) /\ pieces[2] \in Pieces
    <3>1. 2 \in 1 .. Len(pieces)
      BY <1>15
    <3>2. pieces[2] \in Pieces
      BY <3>1
    <3> QED
      BY <1>3, <1>6, <1>15, <3>2, Concats
  <2>2. Chain(m + 1, T1, own1, cut, staged, inbox, half, First)
    BY <1>10
  <2> HIDE DEF half
  <2>3. (pieces[2].starts <=> Whole(m + 1, T1)) /\ (pieces[2].starts \/ pieces[2].ends)
    BY <1>10, <1>15
  <2>4. PICK T2, own2 :
              /\ Chain((m + 1) + 1, T2, own2, cut, staged, inbox, Append(half, pieces[2]), First)
              /\ Whole((m + 1) + 1, T2) <=> pieces[2].ends
              /\ Reach((m + 1) + 1, own2, First)
                    = Reach(m + 1, own1, First) + Opens(pieces[2])
              /\ \A i \in 1 .. m + 1 : own2[i] = own1[i]
    <3> DEFINE p == pieces[2]
    <3>1. p \in Pieces /\ (p.starts <=> Whole(m + 1, T1)) /\ (p.starts \/ p.ends)
      BY <2>1, <2>3
    <3> HIDE DEF p
    <3>2. \E T2, own2 :
              /\ Chain((m + 1) + 1, T2, own2, cut, staged, inbox, Append(half, p), First)
              /\ Grows(m + 1, own1, T2, own2, First, p)
      BY <2>2, <3>1, PipeGrows
    <3> QED
      BY <3>2 DEF p, Grows
  <2>5. Covered(own2, cut, staged, inbox, stage, frontier, published)
    BY <1>13, <2>2, <2>4, CoverSame
  <2>6. Reach((m + 1) + 1, own2, First) + Len(sent') <= Final
    <3>1. Reach(m + 1, own1, First) \in Nat
      BY <2>2, ReachNat
    <3>2. Reach((m + 1) + 1, own2, First) = Reach(m + 1, own1, First)
      BY <1>15, <2>4, <3>1 DEF Opens
    <3> QED
      BY <1>12, <3>2
  <2>7. /\ Chain((m + 1) + 1, T2, own2, cut, staged', inbox', net', First')
        /\ Whole((m + 1) + 1, T2) /\ Reach((m + 1) + 1, own2, First') + Len(sent') <= Final'
        /\ Covered(own2, cut, staged', inbox', stage', frontier', published')
    BY <1>1, <1>8, <1>15, <2>1, <2>4, <2>5, <2>6
  <2> QED
    BY <2>7, PipeNext
<1> QED
  BY <1>3, <1>14, <1>15

LEMMA PipedPublish ==
    ASSUME Kept, Read, Policy, Lined, Piped, Publish
    PROVE  Piped'
<1>1. /\ UNCHANGED <<stage, frontier, inbox, staged, net, eof>>
      /\ link = "serving" /\ published' = published + 1
      /\ lane' = Append(lane, published') /\ sent' = Append(sent, [command |-> published'])
  BY DEF Publish, conn, input
<1>2. stage = Ready /\ lane \in Seq(Nat) /\ sent \in Seq(Asked) /\ published \in Nat
  BY <1>1 DEF Policy, Kept, Read
<1>3. Len(lane') = Len(lane) + 1 /\ Len(sent') = Len(sent) + 1
      /\ Len(lane) \in Nat /\ Len(sent) \in Nat
  BY <1>1, <1>2
<1>4. First' = First /\ Final' = Final + 1 /\ Final = published
  BY <1>1, <1>2, <1>3 DEF First, Final
<1>5. PICK m, T, own, cut : Pipe(m, T, own, cut)
  BY DEF Piped
<1>6. /\ Chain(m, T, own, cut, staged, inbox, net, First)
      /\ ~eof => Whole(m, T)
      /\ Reach(m, own, First) + Len(sent) <= Final
      /\ Covered(own, cut, staged, inbox, stage, frontier, published)
  BY <1>5 DEF Pipe
<1>7. Reach(m, own, First) + Len(sent') <= Final'
  <2>1. Reach(m, own, First) \in Nat
    BY <1>6, ReachNat
  <2> QED
    BY <1>2, <1>3, <1>4, <1>6, <2>1
<1>8. Covered(own, cut, staged, inbox, stage, frontier, published')
  <2>1. inbox \in Seq(Receipts)
    BY DEF Read
  <2>2. \A j \in 1 .. Len(inbox) : inbox[j].cutoff \in Nat
    <3> TAKE j \in 1 .. Len(inbox)
    <3>1. inbox[j] \in Receipts
      BY <2>1
    <3> QED
      BY <3>1 DEF Receipts
  <2>3. \A j \in 1 .. Len(inbox) : inbox[j].cutoff <= published => inbox[j].cutoff <= published'
    BY <1>1, <1>2, <2>2
  <2> QED
    BY <1>6, <2>3 DEF Covered
<1>9. /\ Chain(m, T, own, cut, staged', inbox', net', First')
      /\ ~eof' => Whole(m, T)
      /\ Reach(m, own, First') + Len(sent') <= Final'
      /\ Covered(own, cut, staged', inbox', stage', frontier', published')
  BY <1>1, <1>4, <1>6, <1>7, <1>8
<1> QED
  BY <1>9, PipeNext

LEMMA PipedPeerCloses ==
    ASSUME Kept, Read, Lined, Piped, PeerCloses
    PROVE  Piped'
<1>1. /\ UNCHANGED <<stage, frontier, lane, published, inbox, staged, sent>> /\ eof'
  BY DEF PeerCloses, conn, input
<1>2. PICK keep \in {0, 1} : keep <= Len(net) /\ net' = SubSeq(net, 1, Len(net) - keep)
  BY DEF PeerCloses
<1>3. First' = First /\ Final' = Final /\ Final \in Nat /\ Len(sent) \in Nat
  BY <1>1, FirstTypes DEF First, Final, Read
<1>4. PICK m, T, own, cut : Pipe(m, T, own, cut)
  BY DEF Piped
<1>5. /\ Chain(m, T, own, cut, staged, inbox, net, First)
      /\ Reach(m, own, First) + Len(sent) <= Final
      /\ Covered(own, cut, staged, inbox, stage, frontier, published)
  BY <1>4 DEF Pipe
<1>6. /\ m \in Nat /\ T \in [1 .. m -> Pieces] /\ own \in [1 .. m -> Nat]
      /\ staged \in Seq(Cells) /\ inbox \in Seq(Receipts) /\ net \in Seq(Pieces)
      /\ cut \in [0 .. Len(inbox) -> 0 .. m] /\ First \in Nat \ {0}
      /\ Laid(m, T, cut, staged, inbox, net) /\ Framed(m, T) /\ Owns(m, T, own, First)
  BY <1>5 DEF Chain
<1> DEFINE k == Len(net) - keep
           n == m - keep
           T2 == [i \in 1 .. n |-> T[i]]
           own2 == [i \in 1 .. n |-> own[i]]
<1>7. /\ net' \in Seq(Pieces) /\ Len(net') = k /\ \A i \in 1 .. k : net'[i] = net[i]
      /\ k \in Nat /\ k <= Len(net) /\ Len(net) \in Nat /\ k = Len(net) - keep
  <2>1. Len(net) \in Nat /\ k \in Nat /\ k <= Len(net)
    BY <1>2, <1>6
  <2>2. \A i \in 1 .. k : net[i] \in Pieces
    BY <1>6, <2>1
  <2>3. /\ SubSeq(net, 1, k) \in Seq(Pieces)
        /\ Len(SubSeq(net, 1, k)) = IF 1 <= k THEN k - 1 + 1 ELSE 0
        /\ \A i \in 1 .. k - 1 + 1 : SubSeq(net, 1, k)[i] = net[1 + i - 1]
    <3> HIDE DEF k
    <3> QED
      BY <2>1, <2>2, SubSeqProperties
  <2>4. k - 1 + 1 = k /\ (\A i \in 1 .. k : 1 + i - 1 = i) /\ (1 <= k \/ k = 0)
    BY <2>1
  <2> HIDE DEF k
  <2>5. Len(SubSeq(net, 1, k)) = k /\ \A i \in 1 .. k : SubSeq(net, 1, k)[i] = net[i]
    BY <2>3, <2>4
  <2> QED
    BY <1>2, <2>1, <2>3, <2>5 DEF k
<1>8. /\ Len(inbox) \in Nat /\ cut[Len(inbox)] \in 0 .. m /\ Len(net) = m - cut[Len(inbox)]
  BY <1>5, CutRange
<1>9. n \in Nat /\ n <= m /\ cut[Len(inbox)] <= n /\ n - cut[Len(inbox)] = k /\ n = m - keep
  <2> DEFINE c == cut[Len(inbox)]
             l == Len(net)
  <2>1. c \in 0 .. m /\ l = m - c /\ l \in Nat /\ k = l - keep /\ k \in Nat
    BY <1>7, <1>8
  <2> HIDE DEF c, l, k
  <2>2. n \in Nat /\ n <= m /\ c <= n /\ n - c = k
    BY <1>2, <1>6, <2>1
  <2> QED
    BY <2>2 DEF c
<1>10. \A i \in 1 .. n : i \in 1 .. m
  <2> HIDE DEF n
  <2> QED
    BY <1>6, <1>9
<1>11. /\ T2 \in [1 .. n -> Pieces] /\ own2 \in [1 .. n -> Nat]
       /\ \A i \in 1 .. n : T2[i] = T[i] /\ own2[i] = own[i]
  <2> HIDE DEF n
  <2> QED
    BY <1>6, <1>10
<1> HIDE DEF T2, own2, n, k
<1>12. cut \in [0 .. Len(inbox) -> 0 .. n]
  <2>1. ASSUME NEW j \in 0 .. Len(inbox) PROVE cut[j] \in 0 .. n
    <3>1. Len(inbox) \in 0 .. Len(inbox) /\ j <= Len(inbox)
      BY <1>8
    <3>2. cut[j] <= cut[Len(inbox)]
      BY <1>6, <3>1 DEF Laid
    <3>3. cut[j] \in 0 .. m
      BY <1>6
    <3> QED
      BY <1>8, <1>9, <3>2, <3>3
  <2> QED
    BY <1>6, <2>1
<1>13. Laid(n, T2, cut, staged, inbox, net')
  <2>1. \A i \in 1 .. Len(staged) : staged[i].piece = T2[i]
    <3>1. Len(staged) \in 0 .. n /\ n \in Nat
      <4>1. cut[0] = Len(staged) /\ 0 \in 0 .. Len(inbox)
        BY <1>6, <1>8 DEF Laid
      <4> QED
        BY <1>9, <1>12, <4>1
    <3>2. \A i \in 1 .. Len(staged) : i \in 1 .. n
      BY <3>1
    <3> QED
      BY <1>6, <1>11, <3>2 DEF Laid
  <2>2. ASSUME NEW j \in 1 .. Len(inbox), NEW i \in 1 .. Len(inbox[j].pieces)
        PROVE  inbox[j].pieces[i].piece = T2[cut[j - 1] + i]
    <3>1. inbox[j].pieces[i].piece = T[cut[j - 1] + i]
      BY <1>6 DEF Laid
    <3>2. /\ cut[j] = cut[j - 1] + Len(inbox[j].pieces)
          /\ Len(inbox[j].pieces) \in Nat
      BY <1>5, CutRange
    <3>3. cut[j] \in 0 .. n /\ cut[j - 1] \in 0 .. n
      <4>1. j \in 0 .. Len(inbox) /\ j - 1 \in 0 .. Len(inbox)
        BY <1>8
      <4> QED
        BY <1>12, <4>1
    <3>4. cut[j - 1] + i \in 1 .. n
      <4> DEFINE a == cut[j - 1]
                 b == cut[j]
                 l == Len(inbox[j].pieces)
      <4>1. a \in 0 .. n /\ b \in 0 .. n /\ l \in Nat /\ b = a + l /\ i \in 1 .. l
        BY <3>2, <3>3
      <4> HIDE DEF a, b, l
      <4>2. a + i \in 1 .. n
        BY <1>9, <4>1
      <4> QED
        BY <4>2 DEF a
    <3> QED
      BY <1>11, <3>1, <3>4
  <2>3. ASSUME NEW i \in 1 .. Len(net') PROVE net'[i] = T2[cut[Len(inbox)] + i]
    <3>1. i \in 1 .. k /\ i \in 1 .. Len(net)
      BY <1>7
    <3>2. net[i] = T[cut[Len(inbox)] + i]
      BY <1>6, <3>1 DEF Laid
    <3>3. cut[Len(inbox)] + i \in 1 .. n
      <4> DEFINE c == cut[Len(inbox)]
      <4>1. c \in 0 .. m /\ c <= n /\ n - c = k /\ n \in Nat /\ k \in Nat
        BY <1>7, <1>8, <1>9
      <4> HIDE DEF c
      <4>2. c + i \in 1 .. n
        BY <1>6, <3>1, <4>1
      <4> QED
        BY <4>2 DEF c
    <3> QED
      BY <1>7, <1>11, <3>1, <3>2, <3>3
  <2>4. cut[Len(inbox)] + Len(net') = n
    <3> DEFINE c == cut[Len(inbox)]
    <3>1. c \in 0 .. m /\ c <= n /\ n - c = k /\ n \in Nat /\ k \in Nat
      BY <1>7, <1>8, <1>9
    <3> HIDE DEF c
    <3>2. c + k = n
      BY <1>6, <3>1
    <3> QED
      BY <1>7, <3>2 DEF c
  <2> QED
    BY <1>6, <2>1, <2>2, <2>3, <2>4 DEF Laid
<1>14. Framed(n, T2)
  <2>1. \A i \in 1 .. n : i # 1 => i - 1 \in 1 .. n
    BY <1>9
  <2> QED
    BY <1>6, <1>10, <1>11, <2>1 DEF Framed
<1>15. Owns(n, T2, own2, First)
  <2>1. n > 0 => 1 \in 1 .. n /\ m > 0
    BY <1>6, <1>9
  <2>2. \A i \in 2 .. n : i \in 2 .. m /\ i \in 1 .. n /\ i - 1 \in 1 .. n
    BY <1>6, <1>9
  <2> QED
    BY <1>6, <1>10, <1>11, <2>1, <2>2 DEF Owns
<1>16. Chain(n, T2, own2, cut, staged, inbox, net', First)
  BY <1>6, <1>7, <1>9, <1>11, <1>12, <1>13, <1>14, <1>15 DEF Chain
<1>17. Covered(own2, cut, staged, inbox, stage, frontier, published)
  BY <1>5, <1>11, <1>16, CoverSame
<1>18. Reach(n, own2, First) + Len(sent) <= Final
  <2>1. Reach(m, own, First) \in Nat /\ Reach(n, own2, First) \in Nat
    BY <1>5, <1>16, ReachNat
  <2>2. Reach(n, own2, First) <= Reach(m, own, First)
    <3>1. CASE n = 0
      <4>1. m # 0 => 1 \in 1 .. m /\ m \in 1 .. m
        BY <1>6
      <4>2. m # 0 => own[1] = First /\ own[1] <= own[m] /\ own[m] \in Nat
        BY <1>6, <4>1 DEF Owns
      <4> QED
        BY <1>6, <3>1, <4>2 DEF Reach
    <3>2. CASE n # 0
      <4>1. n \in 1 .. n /\ n \in 1 .. m /\ m \in 1 .. m /\ n <= m /\ m # 0
        BY <1>6, <1>9, <3>2
      <4>2. own[n] <= own[m]
        BY <1>6, <4>1 DEF Owns
      <4> QED
        BY <1>11, <3>2, <4>1, <4>2 DEF Reach
    <3> QED
      BY <3>1, <3>2
  <2> QED
    BY <1>3, <1>5, <2>1, <2>2
<1>19. /\ Chain(n, T2, own2, cut, staged', inbox', net', First')
       /\ ~eof' => Whole(n, T2)
       /\ Reach(n, own2, First') + Len(sent') <= Final'
       /\ Covered(own2, cut, staged', inbox', stage', frontier', published')
  BY <1>1, <1>3, <1>16, <1>17, <1>18
<1> QED
  BY <1>19, PipeNext

LEMMA PipedReceive ==
    ASSUME Kept, Read, Policy, Lined, Piped, stage # Unsolicited, NEW n \in 1 .. 3, Receive(n)
    PROVE  Piped'
<1>1. /\ UNCHANGED <<stage, frontier, lane, published, staged, sent, eof>>
      /\ stage # Offline
  BY DEF Receive, conn
<1>2. PICK r \in Receipts :
         /\ inbox' = Append(inbox, r)
         /\ Len(r.pieces) = n /\ n <= Len(net)
         /\ \A i \in 1 .. n : r.pieces[i].piece = net[i]
         /\ r.step = Awaited
         /\ r.cutoff = IF lane = <<>> THEN None ELSE Last(lane)
         /\ net' \in Seq(Pieces) /\ Len(net') = Len(net) - n
         /\ \A i \in 1 .. Len(net) - n : net'[i] = net[n + i]
  BY ReceiveEffect
<1>3. First' = First /\ Final' = Final /\ Final \in Nat /\ Len(sent) \in Nat
  BY <1>1, FirstTypes DEF First, Final, Read
<1>4. PICK m, T, own, cut : Pipe(m, T, own, cut)
  BY DEF Piped
<1>5. /\ Chain(m, T, own, cut, staged, inbox, net, First) /\ (~eof => Whole(m, T))
      /\ Reach(m, own, First) + Len(sent) <= Final
      /\ Covered(own, cut, staged, inbox, stage, frontier, published)
  BY <1>4 DEF Pipe
<1>6. /\ m \in Nat /\ T \in [1 .. m -> Pieces] /\ own \in [1 .. m -> Nat]
      /\ staged \in Seq(Cells) /\ inbox \in Seq(Receipts) /\ net \in Seq(Pieces)
      /\ cut \in [0 .. Len(inbox) -> 0 .. m] /\ First \in Nat \ {0}
      /\ Laid(m, T, cut, staged, inbox, net) /\ Framed(m, T) /\ Owns(m, T, own, First)
  BY <1>5 DEF Chain
<1> DEFINE l == Len(inbox)
           c == cut[l]
           d == c + n
           cut2 == [j \in 0 .. l + 1 |-> IF j = l + 1 THEN d ELSE cut[j]]
<1>7. l \in Nat /\ c \in 0 .. m /\ Len(net) = m - c /\ Len(net) \in Nat
  BY <1>5, <1>6, CutRange
<1>8. d \in 1 .. m /\ d = c + n /\ d + (Len(net) - n) = m /\ Len(net) - n \in Nat
  <2> DEFINE k == Len(net)
  <2>1. c \in 0 .. m /\ k = m - c /\ k \in Nat /\ n <= k
    BY <1>2, <1>7
  <2> HIDE DEF c, k
  <2>2. c + n \in 1 .. m /\ (c + n) + (k - n) = m /\ k - n \in Nat
    BY <1>6, <2>1
  <2> QED
    BY <2>2 DEF k
<1>9. /\ cut2 \in [0 .. l + 1 -> 0 .. m] /\ cut2[l + 1] = d
      /\ \A j \in 0 .. l : cut2[j] = cut[j] /\ cut[j] \in 0 .. m
  <2>1. \A j \in 0 .. l : cut[j] \in 0 .. m
    BY <1>6
  <2>2. \A j \in 0 .. l + 1 : j = l + 1 \/ j \in 0 .. l
    BY <1>7
  <2>3. \A j \in 0 .. l : j # l + 1 /\ j \in 0 .. l + 1
    BY <1>7
  <2>4. l + 1 \in 0 .. l + 1
    BY <1>7
  <2> HIDE DEF d, l
  <2> QED
    BY <1>8, <2>1, <2>2, <2>3, <2>4
<1>10. /\ inbox' \in Seq(Receipts) /\ Len(inbox') = l + 1 /\ inbox'[l + 1] = r
       /\ \A j \in 1 .. l : inbox'[j] = inbox[j]
  BY <1>2, <1>6
<1>11. c = cut[l] /\ l = Len(inbox)
  OBVIOUS
<1> HIDE DEF cut2, d, c, l
<1>12. \A j \in 1 .. l : j \in 0 .. l /\ j - 1 \in 0 .. l
  BY <1>7
<1>13. 0 \in 0 .. l /\ l \in 0 .. l /\ (l + 1) - 1 = l
  BY <1>7
<1>14. Laid(m, T, cut2, staged, inbox', net')
  <2>1. cut2[0] = Len(staged)
    BY <1>6, <1>9, <1>13 DEF Laid
  <2>2. cut2[l + 1] + Len(net') = m
    BY <1>2, <1>8, <1>9
  <2>3. ASSUME NEW i \in 0 .. l + 1, NEW j \in 0 .. l + 1, i <= j PROVE cut2[i] <= cut2[j]
    <3>1. CASE j \in 0 .. l
      <4>1. i \in 0 .. l
        BY <1>7, <2>3, <3>1
      <4> QED
        BY <1>6, <1>9, <1>11, <2>3, <3>1, <4>1 DEF Laid
    <3>2. CASE j = l + 1 /\ i = l + 1
      BY <1>8, <1>9, <3>2
    <3>3. CASE j = l + 1 /\ i # l + 1
      <4>1. i \in 0 .. l /\ i <= l
        BY <1>7, <3>3
      <4>2. cut[i] <= cut[l]
        BY <1>6, <1>11, <1>13, <4>1 DEF Laid
      <4>3. cut[i] \in 0 .. m
        BY <1>9, <4>1
      <4>4. cut[i] <= d
        <5> DEFINE x == cut[i]
        <5>1. x \in 0 .. m /\ x <= c /\ c \in 0 .. m /\ d = c + n
          BY <1>7, <1>8, <1>11, <4>2, <4>3
        <5> HIDE DEF x
        <5>2. x <= d
          BY <1>6, <5>1
        <5> QED
          BY <5>2 DEF x
      <4> QED
        BY <1>9, <3>3, <4>1, <4>4
    <3> QED
      BY <1>7, <3>1, <3>2, <3>3
  <2>4. ASSUME NEW j \in 1 .. l + 1
        PROVE  /\ Len(inbox'[j].pieces) > 0 /\ cut2[j] = cut2[j - 1] + Len(inbox'[j].pieces)
               /\ \A i \in 1 .. Len(inbox'[j].pieces) :
                     inbox'[j].pieces[i].piece = T[cut2[j - 1] + i]
    <3>1. CASE j \in 1 .. l
      <4>1. cut2[j] = cut[j] /\ cut2[j - 1] = cut[j - 1] /\ inbox'[j] = inbox[j]
        BY <1>9, <1>10, <1>12, <3>1
      <4> QED
        BY <1>6, <1>11, <3>1, <4>1 DEF Laid
    <3>2. CASE j = l + 1
      <4>1. cut2[j] = d /\ cut2[j - 1] = c /\ inbox'[j] = r
        BY <1>9, <1>10, <1>11, <1>13, <3>2
      <4>2. ASSUME NEW i \in 1 .. n PROVE r.pieces[i].piece = T[c + i]
        <5>1. i \in 1 .. Len(net)
          BY <1>2, <1>7
        <5> QED
          BY <1>2, <1>6, <1>11, <5>1 DEF Laid
      <4> QED
        BY <1>2, <1>8, <4>1, <4>2
    <3> QED
      BY <1>7, <3>1, <3>2
  <2>5. ASSUME NEW i \in 1 .. Len(net') PROVE net'[i] = T[d + i]
    <3>1. n + i \in 1 .. Len(net) /\ c + (n + i) = d + i /\ i \in 1 .. Len(net) - n
      <4> DEFINE k == Len(net)
      <4>1. i \in 1 .. k - n /\ k \in Nat /\ n <= k /\ c \in 0 .. m /\ d = c + n
        BY <1>2, <1>7, <1>8
      <4> HIDE DEF k
      <4>2. n + i \in 1 .. k /\ c + (n + i) = d + i /\ i \in 1 .. k - n
        BY <1>6, <4>1
      <4> QED
        BY <4>2 DEF k
    <3> QED
      BY <1>2, <1>6, <1>11, <3>1 DEF Laid
  <2> QED
    BY <1>6, <1>9, <1>10, <2>1, <2>2, <2>3, <2>4, <2>5 DEF Laid
<1>15. Chain(m, T, own, cut2, staged, inbox', net', First)
  BY <1>2, <1>6, <1>9, <1>10, <1>14 DEF Chain
<1>16. Covered(own, cut2, staged, inbox', stage, frontier, published)
  <2>1. ASSUME stage = Ready, NEW j \in 1 .. l + 1
        PROVE  inbox'[j].cutoff >= own[cut2[j]] /\ inbox'[j].cutoff <= published
    <3>1. CASE j \in 1 .. l
      BY <1>5, <1>9, <1>10, <1>11, <1>12, <2>1, <3>1 DEF Covered
    <3>2. CASE j = l + 1
      <4>1. /\ m \in 1 .. m /\ m # 0 /\ 1 \in 1 .. m /\ own[d] \in Nat /\ own[m] \in Nat
            /\ own[d] <= own[m] /\ First <= own[m]
        <5>1. m \in 1 .. m /\ m # 0 /\ 1 \in 1 .. m /\ d <= m /\ 1 <= m
          BY <1>6, <1>8
        <5> QED
          BY <1>6, <1>8, <5>1 DEF Owns
      <4>2. own[m] <= published
        BY <1>3, <1>5, <2>1, <4>1 DEF Reach, Final
      <4>3. lane # <<>>
        <5>1. First = published - Len(lane) + 1 /\ published \in Nat /\ Len(lane) \in Nat
          BY <2>1, FirstTypes DEF First
        <5> QED
          BY <4>1, <4>2, <5>1
      <4>4. Last(lane) = published
        <5>1. Len(lane) \in 1 .. Len(lane) /\ Last(lane) = lane[Len(lane)]
          BY <4>3 DEF Kept, Last
        <5> QED
          BY <5>1 DEF Lined, Kept
      <4>5. r.cutoff = published /\ published \in Nat
        BY <1>2, <4>3, <4>4 DEF Kept
      <4> QED
        BY <1>9, <1>10, <3>2, <4>1, <4>2, <4>5
    <3> QED
      BY <1>7, <3>1, <3>2
  <2>2. ASSUME stage[1] = "Init", NEW j \in 1 .. l + 1 PROVE inbox'[j].step = stage[2]
    <3>1. CASE j \in 1 .. l
      BY <1>5, <1>10, <1>11, <2>2, <3>1 DEF Covered
    <3>2. CASE j = l + 1
      BY <1>2, <1>10, <2>2, <3>2 DEF Awaited
    <3> QED
      BY <1>7, <3>1, <3>2
  <2> QED
    BY <1>5, <1>10, <2>1, <2>2 DEF Covered
<1>17. /\ Chain(m, T, own, cut2, staged', inbox', net', First')
       /\ ~eof' => Whole(m, T)
       /\ Reach(m, own, First') + Len(sent') <= Final'
       /\ Covered(own, cut2, staged', inbox', stage', frontier', published')
  BY <1>1, <1>3, <1>5, <1>15, <1>16
<1> QED
  BY <1>17, PipeNext

(* The first cell of an inbox becomes staged. *)
LEMMA PipedReceived ==
    ASSUME Kept, Read, Policy, Lined, Piped, stage # Unsolicited, link # "closing", Received
    PROVE  Piped' /\ stage' = stage
<1> DEFINE r == Head(inbox)
           k == Len(r.pieces)
           s == Len(staged)
           l == Len(inbox)
           known == Cutoff(r) \in Range(lane)
           to == IF known THEN Cutoff(r) ELSE None
           prefix == staged # <<>>
<1>1. /\ UNCHANGED <<link, lane, published, sent, net, eof>>
      /\ inbox # <<>> /\ link # "vacant"
      /\ stage' = IF IsUnsolicited(r, prefix) THEN Unsolicited ELSE stage
      /\ frontier' = IF link = "serving" THEN AdvancedFrontier(to, prefix) ELSE frontier
  BY DEF Received, peer
<1>2. /\ r \in Receipts
      /\ staged' \in Seq(Cells)
      /\ Len(staged') = s + k
      /\ \A i \in 1 .. s : staged'[i] = staged[i]
      /\ \A i \in 1 .. k : staged'[s + i] = r.pieces[i]
      /\ inbox' \in Seq(Receipts) /\ Len(inbox') = l - 1
      /\ \A i \in 1 .. l - 1 : inbox'[i] = inbox[i + 1]
  BY ReceivedEffect
<1>3. PICK m, T, own, cut : Pipe(m, T, own, cut)
  BY DEF Piped
<1>4. /\ Chain(m, T, own, cut, staged, inbox, net, First) /\ (~eof => Whole(m, T))
      /\ Reach(m, own, First) + Len(sent) <= Final
      /\ Covered(own, cut, staged, inbox, stage, frontier, published)
  BY <1>3 DEF Pipe
<1>5. /\ m \in Nat /\ T \in [1 .. m -> Pieces] /\ own \in [1 .. m -> Nat]
      /\ staged \in Seq(Cells) /\ inbox \in Seq(Receipts) /\ net \in Seq(Pieces)
      /\ cut \in [0 .. Len(inbox) -> 0 .. m] /\ First \in Nat \ {0}
      /\ Laid(m, T, cut, staged, inbox, net) /\ Framed(m, T) /\ Owns(m, T, own, First)
  BY <1>4 DEF Chain
<1>6. /\ l \in Nat \ {0} /\ 1 \in 1 .. l /\ r = inbox[1] /\ s \in Nat
  BY <1>1, <1>5
<1>7. /\ k \in Nat \ {0} /\ cut[1] \in 1 .. m /\ cut[1] = cut[0] + k
      /\ cut[0] = s
  <2>1. 1 - 1 = 0
    OBVIOUS
  <2> QED
    BY <1>4, <1>6, <2>1, CutRange
<1>8. stage' = stage
  <2>1. stage[1] # "Offline" /\ stage[1] # "Advance"
    BY <1>1, <1>6, PipedNone
  <2>2. stage[1] = "Init" => r.step = stage[2]
    BY <1>4, <1>6 DEF Covered
  <2> QED
    BY <1>1, <2>1, <2>2 DEF IsUnsolicited
<1>9. First' = First /\ Final' = Final
  BY <1>1, <1>8 DEF First, Final
<1> DEFINE cut2 == [j \in 0 .. l - 1 |-> cut[j + 1]]
<1>10. /\ cut2 \in [0 .. l - 1 -> 0 .. m]
       /\ \A j \in 0 .. l - 1 : cut2[j] = cut[j + 1] /\ j + 1 \in 0 .. l
       /\ \A j \in 1 .. l - 1 : /\ j + 1 \in 1 .. l /\ j \in 0 .. l - 1
                               /\ j - 1 \in 0 .. l - 1 /\ (j - 1) + 1 = (j + 1) - 1
       /\ 0 \in 0 .. l - 1 /\ 0 + 1 = 1
       /\ l - 1 \in 0 .. l - 1 /\ (l - 1) + 1 = l
  <2>1. \A j \in 0 .. l - 1 : j + 1 \in 0 .. l
    BY <1>6
  <2>2. \A j \in 0 .. l : cut[j] \in 0 .. m
    BY <1>5
  <2> HIDE DEF l
  <2> QED
    BY <1>6, <2>1, <2>2
<1>11. l = Len(inbox) /\ s = Len(staged) /\ k = Len(r.pieces)
  OBVIOUS
<1> HIDE DEF cut2, l, s, k, to, known, prefix, r
<1>12. Laid(m, T, cut2, staged', inbox', net)
  <2>1. cut2[0] = Len(staged')
    BY <1>2, <1>7, <1>10
  <2>2. cut2[Len(inbox')] + Len(net) = m
    <3>1. cut2[l - 1] = cut[l]
      BY <1>10
    <3>2. cut[l] + Len(net) = m
      BY <1>5, <1>11 DEF Laid
    <3> QED
      BY <1>2, <3>1, <3>2
  <2>3. ASSUME NEW i \in 0 .. l - 1, NEW j \in 0 .. l - 1, i <= j PROVE cut2[i] <= cut2[j]
    <3>1. i + 1 \in 0 .. l /\ j + 1 \in 0 .. l /\ i + 1 <= j + 1
      BY <1>10, <2>3
    <3>2. cut[i + 1] <= cut[j + 1]
      BY <1>5, <1>11, <3>1 DEF Laid
    <3> QED
      BY <1>10, <3>2
  <2>4. ASSUME NEW i \in 1 .. Len(staged') PROVE staged'[i].piece = T[i]
    <3>1. CASE i \in 1 .. s
      BY <1>2, <1>5, <1>11, <3>1 DEF Laid
    <3>2. CASE i \notin 1 .. s
      <4>1. i - s \in 1 .. k /\ s + (i - s) = i
        BY <1>2, <1>6, <1>7, <3>2
      <4>2. staged'[i] = r.pieces[i - s]
        BY <1>2, <4>1
      <4>3. r.pieces[i - s].piece = T[cut[0] + (i - s)]
        <5>1. \A x \in 1 .. Len(inbox[1].pieces) : inbox[1].pieces[x].piece = T[cut[1 - 1] + x]
          BY <1>5, <1>6, <1>11 DEF Laid
        <5> QED
          BY <1>6, <1>11, <4>1, <5>1
      <4> QED
        BY <1>7, <4>1, <4>2, <4>3
    <3> QED
      BY <3>1, <3>2
  <2>5. ASSUME NEW j \in 1 .. Len(inbox')
        PROVE  /\ Len(inbox'[j].pieces) > 0 /\ cut2[j] = cut2[j - 1] + Len(inbox'[j].pieces)
               /\ \A i \in 1 .. Len(inbox'[j].pieces) :
                     inbox'[j].pieces[i].piece = T[cut2[j - 1] + i]
    <3>1. j \in 1 .. l - 1
      BY <1>2
    <3>2. /\ inbox'[j] = inbox[j + 1] /\ cut2[j] = cut[j + 1] /\ cut2[j - 1] = cut[(j + 1) - 1]
          /\ j + 1 \in 1 .. l
      BY <1>2, <1>10, <3>1
    <3>3. /\ Len(inbox[j + 1].pieces) > 0
          /\ cut[j + 1] = cut[(j + 1) - 1] + Len(inbox[j + 1].pieces)
          /\ \A i \in 1 .. Len(inbox[j + 1].pieces) :
                inbox[j + 1].pieces[i].piece = T[cut[(j + 1) - 1] + i]
      BY <1>5, <1>11, <3>2 DEF Laid
    <3> QED
      BY <3>2, <3>3
  <2>6. \A i \in 1 .. Len(net) : net[i] = T[cut2[Len(inbox')] + i]
    <3>1. cut2[l - 1] = cut[l]
      BY <1>10
    <3>2. \A i \in 1 .. Len(net) : net[i] = T[cut[l] + i]
      BY <1>5, <1>11 DEF Laid
    <3> QED
      BY <1>2, <3>1, <3>2
  <2> QED
    BY <1>2, <2>1, <2>2, <2>3, <2>4, <2>5, <2>6 DEF Laid
<1>13. Chain(m, T, own, cut2, staged', inbox', net, First)
  BY <1>2, <1>5, <1>10, <1>12 DEF Chain
<1>14. Covered(own, cut2, staged', inbox', stage, frontier', published)
  <2>1. ASSUME stage = Ready, NEW j \in 1 .. Len(inbox')
        PROVE  inbox'[j].cutoff >= own[cut2[j]] /\ inbox'[j].cutoff <= published
    <3>1. j \in 1 .. l - 1
      BY <1>2
    <3>2. inbox'[j] = inbox[j + 1] /\ cut2[j] = cut[j + 1] /\ j + 1 \in 1 .. l
      BY <1>2, <1>10, <3>1
    <3> QED
      BY <1>4, <1>11, <2>1, <3>2 DEF Covered
  <2>2. ASSUME stage[1] = "Init", NEW j \in 1 .. Len(inbox') PROVE inbox'[j].step = stage[2]
    <3>1. j \in 1 .. l - 1
      BY <1>2
    <3>2. inbox'[j] = inbox[j + 1] /\ j + 1 \in 1 .. l
      BY <1>2, <1>10, <3>1
    <3> QED
      BY <1>4, <1>11, <2>2, <3>2 DEF Covered
  <2>3. ASSUME stage = Ready
        PROVE  frontier'[1] # None /\ frontier'[2] >= own[Len(staged')]
    <3>1. link = "serving"
      BY <1>1, <2>3 DEF Policy, Kept, Links, Ready, Offline
    <3>2. r.cutoff \in Nat /\ r.cutoff >= own[cut[1]] /\ r.cutoff <= published
      <4>1. r.cutoff \in Nat
        BY <1>2 DEF Receipts
      <4> QED
        BY <1>4, <1>6, <1>11, <2>3, <4>1 DEF Covered
    <3>3. own[cut[1]] \in Nat /\ own[cut[1]] >= First
      <4>1. 1 \in 1 .. m /\ cut[1] \in 1 .. m /\ 1 <= cut[1] /\ m > 0
        BY <1>5, <1>7
      <4>2. own[1] = First /\ own[1] <= own[cut[1]]
        BY <1>5, <4>1 DEF Owns
      <4> QED
        BY <1>5, <4>1, <4>2
    <3>4. published \in Nat /\ Len(lane) \in Nat /\ First = published - Len(lane) + 1
      BY <2>3, FirstTypes DEF First
    <3>5. r.cutoff > published - Len(lane)
      BY <3>2, <3>3, <3>4
    <3>6. r.cutoff \in Range(lane)
      BY <3>2, <3>5, InLane
    <3>7. to = r.cutoff /\ r.cutoff # None
      BY <3>2, <3>3, <3>6, <1>5 DEF to, known, Cutoff, None
    <3>8. frontier' = <<IF prefix THEN frontier[1] ELSE r.cutoff, r.cutoff>>
      BY <1>1, <3>1, <3>7 DEF AdvancedFrontier
    <3>9. prefix => frontier[1] # None
      BY <1>4, <2>3 DEF Covered, prefix
    <3>10. Len(staged') = cut[1]
      BY <1>2, <1>7
    <3> QED
      BY <3>2, <3>7, <3>8, <3>9, <3>10
  <2> QED
    BY <2>1, <2>2, <2>3 DEF Covered
<1>15. /\ Chain(m, T, own, cut2, staged', inbox', net', First')
       /\ ~eof' => Whole(m, T)
       /\ Reach(m, own, First') + Len(sent') <= Final'
       /\ Covered(own, cut2, staged', inbox', stage', frontier', published')
  BY <1>1, <1>4, <1>8, <1>9, <1>13, <1>14
<1> QED
  BY <1>8, <1>15, PipeNext

(* A whole frame leaves the front. *)
Drops(e, m, T, own, cut, T2, own2, cut2, first) ==
    /\ Whole(m, T) => Whole(m - e, T2)
    /\ Reach(m - e, own2, first + 1) = Reach(m, own, first)
    /\ \A i \in 1 .. m - e : own2[i] = own[e + i]
    /\ \A j \in 0 .. Len(inbox) : cut2[j] = cut[j] - e

LEMMA ChainDrops ==
    ASSUME Read, DeliverFrame, NEW m, NEW T, NEW own, NEW cut,
           Chain(m, T, own, cut, staged, inbox, net, First)
    PROVE  \E T2, own2, cut2 :
              /\ Chain(m - Boundary, T2, own2, cut2, staged', inbox, net, First + 1)
              /\ Drops(Boundary, m, T, own, cut, T2, own2, cut2, First)
<1> DEFINE e == Boundary
           s == Len(staged)
           n == m - e
           l == Len(inbox)
           T2 == [i \in 1 .. n |-> T[e + i]]
           own2 == [i \in 1 .. n |-> own[e + i]]
           cut2 == [j \in 0 .. l |-> cut[j] - e]
<1>1. /\ e \in 1 .. s /\ staged[e].piece.ends
      /\ \A j \in 1 .. e - 1 : ~staged[j].piece.ends
      /\ staged' \in Seq(Cells) /\ Len(staged') = s - e
      /\ \A i \in 1 .. s - e : staged'[i] = staged[e + i]
  BY DeliverEffect
<1>2. /\ m \in Nat /\ T \in [1 .. m -> Pieces] /\ own \in [1 .. m -> Nat]
      /\ staged \in Seq(Cells) /\ inbox \in Seq(Receipts) /\ net \in Seq(Pieces)
      /\ cut \in [0 .. l -> 0 .. m] /\ First \in Nat \ {0}
      /\ Laid(m, T, cut, staged, inbox, net) /\ Framed(m, T) /\ Owns(m, T, own, First)
  BY DEF Chain
<1>3. /\ s \in 0 .. m /\ s = cut[0] /\ l \in Nat
      /\ cut[l] \in 0 .. m /\ Len(net) = m - cut[l]
  BY CutRange
<1>4. s = Len(staged) /\ l = Len(inbox) /\ e = Boundary
  OBVIOUS
<1> HIDE DEF e, s, l
<1>5. e \in Nat \ {0} /\ e \in 1 .. m /\ n \in Nat /\ n + e = m /\ s \in Nat /\ e <= s
      /\ n = m - e
  BY <1>1, <1>2, <1>3
<1>6. \A i \in 1 .. n : e + i \in 1 .. m
  <2> HIDE DEF n
  <2> QED
    BY <1>2, <1>5
<1>7. /\ T2 \in [1 .. n -> Pieces] /\ own2 \in [1 .. n -> Nat]
      /\ \A i \in 1 .. n : T2[i] = T[e + i] /\ own2[i] = own[e + i]
  <2> HIDE DEF n
  <2> QED
    BY <1>2, <1>6
<1>8. \A j \in 0 .. l : cut[j] \in 0 .. m /\ cut[j] >= s
  <2> TAKE j \in 0 .. l
  <2>1. cut[j] \in 0 .. m
    BY <1>2
  <2>2. 0 \in 0 .. l /\ 0 <= j
    BY <1>3
  <2>3. cut[0] <= cut[j]
    BY <1>2, <1>4, <2>2 DEF Laid
  <2> QED
    BY <1>3, <2>1, <2>3
<1>9. /\ cut2 \in [0 .. l -> 0 .. n]
      /\ \A j \in 0 .. l : cut2[j] = cut[j] - e
  <2>1. ASSUME NEW j \in 0 .. l PROVE cut[j] - e \in 0 .. n
    <3> DEFINE x == cut[j]
    <3>1. x \in 0 .. m /\ x >= s
      BY <1>8
    <3> HIDE DEF x, n
    <3>2. x - e \in 0 .. n
      BY <1>2, <1>5, <3>1
    <3> QED
      BY <3>2 DEF x
  <2> HIDE DEF n
  <2> QED
    BY <2>1
<1> HIDE DEF T2, own2, cut2, n
<1>10. /\ \A j \in 1 .. e - 1 : ~T[j].ends
       /\ T[e].ends
  <2>1. \A j \in 1 .. e : j \in 1 .. Len(staged) /\ staged[j].piece = T[j]
    <3>1. \A j \in 1 .. e : j \in 1 .. Len(staged)
      BY <1>4, <1>5
    <3> QED
      BY <1>2, <3>1 DEF Laid
  <2>2. e \in 1 .. e /\ \A j \in 1 .. e - 1 : j \in 1 .. e
    BY <1>5
  <2> QED
    BY <1>1, <2>1, <2>2
<1>11. own[e] = First
  <2>1. 1 \in 1 .. m /\ m > 0
    BY <1>2, <1>5
  <2>2. CASE e = 1
    BY <1>2, <2>1, <2>2 DEF Owns
  <2>3. CASE e = 2
    <3>1. 2 \in 2 .. m /\ 2 \in 1 .. m /\ 1 \in 1 .. e - 1 /\ 2 - 1 = 1 /\ 2 # 1
      BY <1>2, <1>5, <2>3
    <3>2. ~T[2].starts
      BY <1>2, <1>10, <3>1 DEF Framed
    <3>3. own[2] = own[1] + Opens(T[2]) /\ own[1] = First
      BY <1>2, <2>1, <3>1 DEF Owns
    <3> QED
      BY <1>2, <2>3, <3>2, <3>3 DEF Opens
  <2>4. CASE e > 2
    <3>1. 2 \in 1 .. m /\ 1 \in 1 .. e - 1 /\ 2 \in 1 .. e - 1 /\ 2 - 1 = 1 /\ 2 # 1
      BY <1>2, <1>5, <2>4
    <3> QED
      BY <1>2, <1>10, <3>1 DEF Framed
  <2> QED
    BY <1>5, <2>2, <2>3, <2>4
<1>12. Framed(n, T2)
  <2>1. ASSUME NEW i \in 1 .. n
        PROVE  /\ T2[i].starts <=> (i = 1 \/ T2[i - 1].ends)
               /\ (T2[i].starts \/ T2[i].ends)
    <3>1. /\ T[e + i].starts <=> (e + i = 1 \/ T[(e + i) - 1].ends)
          /\ (T[e + i].starts \/ T[e + i].ends)
      BY <1>2, <1>6 DEF Framed
    <3>2. e + i # 1
      BY <1>5
    <3>3. CASE i = 1
      <4>1. (e + i) - 1 = e
        BY <1>5, <3>3
      <4> QED
        BY <1>7, <1>10, <3>1, <3>3, <4>1
    <3>4. CASE i # 1
      <4>1. i - 1 \in 1 .. n /\ (e + i) - 1 = e + (i - 1)
        BY <1>5, <3>4
      <4> QED
        BY <1>7, <3>1, <3>2, <3>4, <4>1
    <3> QED
      BY <3>3, <3>4
  <2> QED
    BY <2>1 DEF Framed
<1>13. Owns(n, T2, own2, First + 1)
  <2>1. ASSUME n > 0 PROVE own2[1] = First + 1
    <3>1. 1 \in 1 .. n /\ e + 1 \in 2 .. m /\ e + 1 \in 1 .. m /\ (e + 1) - 1 = e /\ e + 1 # 1
      BY <1>2, <1>5, <2>1
    <3>2. T[e + 1].starts
      BY <1>2, <1>10, <3>1 DEF Framed
    <3>3. own[e + 1] = own[(e + 1) - 1] + Opens(T[e + 1])
      BY <1>2, <3>1 DEF Owns
    <3> QED
      BY <1>2, <1>7, <1>11, <3>1, <3>2, <3>3 DEF Opens
  <2>2. ASSUME NEW i \in 2 .. n PROVE own2[i] = own2[i - 1] + Opens(T2[i])
    <3>1. /\ i \in 1 .. n /\ i - 1 \in 1 .. n /\ e + i \in 2 .. m
          /\ (e + i) - 1 = e + (i - 1)
      BY <1>2, <1>5
    <3>2. own[e + i] = own[(e + i) - 1] + Opens(T[e + i])
      BY <1>2, <3>1 DEF Owns
    <3> QED
      BY <1>7, <3>1, <3>2
  <2>3. ASSUME NEW i \in 1 .. n, NEW j \in 1 .. n, i <= j PROVE own2[i] <= own2[j]
    <3>1. e + i \in 1 .. m /\ e + j \in 1 .. m /\ e + i <= e + j
      BY <1>5, <1>6, <2>3
    <3> QED
      BY <1>2, <1>7, <3>1 DEF Owns
  <2> QED
    BY <2>1, <2>2, <2>3 DEF Owns
<1>14. Reach(n, own2, First + 1) = Reach(m, own, First)
  <2>1. m # 0 /\ m \in 1 .. m
    BY <1>2, <1>5
  <2>2. CASE n = 0
    <3>1. m = e
      BY <1>2, <1>5, <2>2
    <3> QED
      BY <1>2, <1>11, <2>1, <2>2, <3>1 DEF Reach
  <2>3. CASE n # 0
    <3>1. n \in 1 .. n /\ e + n = m
      BY <1>2, <1>5, <2>3
    <3> QED
      BY <1>7, <2>1, <2>3, <3>1 DEF Reach
  <2> QED
    BY <2>2, <2>3
<1>15. Whole(m, T) => Whole(n, T2)
  <2> SUFFICES ASSUME Whole(m, T), n # 0 PROVE T2[n].ends
    BY DEF Whole
  <2>1. n \in 1 .. n /\ e + n = m /\ m # 0
    BY <1>2, <1>5
  <2> QED
    BY <1>7, <2>1 DEF Whole
<1>16. Laid(n, T2, cut2, staged', inbox, net)
  <2>1. 0 \in 0 .. l /\ l \in 0 .. l
    BY <1>3
  <2>2. cut2[0] = Len(staged')
    BY <1>1, <1>3, <1>9, <2>1
  <2>3. cut2[l] + Len(net) = n
    <3> DEFINE x == cut[l]
    <3>1. x \in 0 .. m /\ Len(net) = m - x /\ cut2[l] = x - e
      BY <1>3, <1>9, <2>1
    <3> HIDE DEF x
    <3>2. (x - e) + (m - x) = n
      BY <1>2, <1>5, <3>1
    <3> QED
      BY <3>1, <3>2
  <2>4. ASSUME NEW i \in 0 .. l, NEW j \in 0 .. l, i <= j PROVE cut2[i] <= cut2[j]
    <3> DEFINE x == cut[i]
               y == cut[j]
    <3>1. x <= y /\ x \in 0 .. m /\ y \in 0 .. m /\ cut2[i] = x - e /\ cut2[j] = y - e
      BY <1>2, <1>4, <1>8, <1>9, <2>4 DEF Laid
    <3> HIDE DEF x, y
    <3>2. x - e <= y - e
      BY <1>2, <1>5, <3>1
    <3> QED
      BY <3>1, <3>2
  <2>5. ASSUME NEW i \in 1 .. Len(staged') PROVE staged'[i].piece = T2[i]
    <3>1. i \in 1 .. s - e
      BY <1>1
    <3>4. s \in 0 .. m /\ m \in Nat
      BY <1>2, <1>3
    <3>2. e + i \in 1 .. s /\ i \in 1 .. n
      BY <1>5, <3>1, <3>4
    <3>3. staged[e + i].piece = T[e + i]
      BY <1>2, <1>4, <3>2 DEF Laid
    <3> QED
      BY <1>1, <1>7, <3>1, <3>2, <3>3
  <2>6. ASSUME NEW j \in 1 .. l
        PROVE  /\ Len(inbox[j].pieces) > 0 /\ cut2[j] = cut2[j - 1] + Len(inbox[j].pieces)
               /\ \A i \in 1 .. Len(inbox[j].pieces) :
                     inbox[j].pieces[i].piece = T2[cut2[j - 1] + i]
    <3> DEFINE x == cut[j - 1]
               y == cut[j]
               k == Len(inbox[j].pieces)
    <3>1. j \in 0 .. l /\ j - 1 \in 0 .. l
      BY <1>3
    <3>2. /\ cut2[j] = y - e /\ cut2[j - 1] = x - e
          /\ x \in 0 .. m /\ y \in 0 .. m /\ x >= s /\ y >= s
      BY <1>8, <1>9, <3>1
    <3>3. /\ k > 0 /\ y = x + k
          /\ \A i \in 1 .. k : inbox[j].pieces[i].piece = T[x + i]
      BY <1>2, <1>4 DEF Laid
    <3>4. k \in Nat
      BY <1>4, CutRange
    <3>5. k = Len(inbox[j].pieces)
      OBVIOUS
    <3> HIDE DEF x, y, k
    <3>7. /\ m \in Nat /\ e \in Nat /\ e <= s /\ s \in Nat /\ n + e = m /\ n \in Nat
          /\ x \in Nat /\ y \in Nat /\ y <= m /\ x >= s /\ y = x + k /\ k \in Nat
      BY <1>2, <1>5, <3>2, <3>3, <3>4
    <3>8. y - e = (x - e) + k
      BY <3>7
    <3>9. ASSUME NEW i \in 1 .. k
          PROVE  e + ((x - e) + i) = x + i /\ (x - e) + i \in 1 .. n
      BY <3>7
    <3>6. y - e = (x - e) + k /\ \A i \in 1 .. k : e + ((x - e) + i) = x + i /\ (x - e) + i \in 1 .. n
      BY <3>8, <3>9
    <3> QED
      BY <1>7, <3>2, <3>3, <3>5, <3>6
  <2>7. ASSUME NEW i \in 1 .. Len(net) PROVE net[i] = T2[cut2[l] + i]
    <3> DEFINE x == cut[l]
               k == Len(net)
    <3>1. x \in 0 .. m /\ k = m - x /\ cut2[l] = x - e /\ x >= s
      BY <1>3, <1>8, <1>9, <2>1
    <3>2. net[i] = T[x + i]
      BY <1>2, <1>4 DEF Laid
    <3> HIDE DEF x, k
    <3>3. e + ((x - e) + i) = x + i /\ (x - e) + i \in 1 .. n
      <4>1. i \in 1 .. k
        BY DEF k
      <4> QED
        BY <1>2, <1>5, <3>1, <4>1
    <3> QED
      BY <1>7, <3>1, <3>2, <3>3
  <2> QED
    BY <1>4, <2>2, <2>3, <2>4, <2>5, <2>6, <2>7 DEF Laid
<1>17. Chain(n, T2, own2, cut2, staged', inbox, net, First + 1)
  <2>1. First + 1 \in Nat \ {0}
    BY <1>2
  <2> QED
    BY <1>1, <1>2, <1>4, <1>5, <1>7, <1>9, <1>12, <1>13, <1>16, <2>1 DEF Chain
<1>18. Drops(e, m, T, own, cut, T2, own2, cut2, First)
  BY <1>4, <1>5, <1>7, <1>9, <1>14, <1>15 DEF Drops
<1> QED
  BY <1>4, <1>5, <1>17, <1>18

LEMMA PipedDeliver ==
    ASSUME Kept, Read, Policy, Lined, Piped, stage # Unsolicited, link # "closing", DeliverFrame
    PROVE  /\ link' # "closing" => stage' # Unsolicited /\ Piped'
           /\ failure' \in {failure, "handshake"}
<1>1. /\ UNCHANGED <<sent, net, eof, inbox, published>> /\ link # "vacant"
  BY DEF DeliverFrame, peer
<1>2. /\ Boundary \in 1 .. Len(staged)
      /\ staged' \in Seq(Cells) /\ Len(staged') = Len(staged) - Boundary
  BY DeliverEffect
<1>3. staged # <<>> /\ Len(staged) \in Nat
  BY <1>2 DEF Read
<1>4. PICK m, T, own, cut : Pipe(m, T, own, cut)
  BY DEF Piped
<1>5. /\ Chain(m, T, own, cut, staged, inbox, net, First) /\ (~eof => Whole(m, T))
      /\ Reach(m, own, First) + Len(sent) <= Final
      /\ Covered(own, cut, staged, inbox, stage, frontier, published)
  BY <1>4 DEF Pipe
<1>6. PICK T2, own2, cut2 :
         /\ Chain(m - Boundary, T2, own2, cut2, staged', inbox, net, First + 1)
         /\ Drops(Boundary, m, T, own, cut, T2, own2, cut2, First)
  BY <1>5, ChainDrops
<1>7. /\ ~eof => Whole(m - Boundary, T2)
      /\ Reach(m - Boundary, own2, First + 1) + Len(sent) <= Final
      /\ \A i \in 1 .. m - Boundary : own2[i] = own[Boundary + i]
      /\ \A j \in 0 .. Len(inbox) : cut2[j] = cut[j] - Boundary
  BY <1>5, <1>6 DEF Drops
<1>8. stage[1] \notin {"Offline", "Advance", "Unsolicited"}
  BY <1>3, PipedNone, StageParts DEF Kept
<1>9. m \in Nat /\ m # 0 /\ Reach(m, own, First) \in Nat /\ Reach(m, own, First) >= First
      /\ First \in Nat \ {0}
  <2>1. /\ m \in Nat /\ own \in [1 .. m -> Nat] /\ Owns(m, T, own, First)
        /\ First \in Nat \ {0}
    BY <1>5 DEF Chain
  <2>2. Len(staged) \in 1 .. m
    BY <1>3, <1>5, CutRange
  <2>3. 1 \in 1 .. m /\ m \in 1 .. m /\ 1 <= m /\ m # 0
    BY <2>1, <2>2
  <2>4. own[1] = First /\ own[1] <= own[m] /\ own[m] \in Nat
    BY <2>1, <2>3 DEF Owns
  <2> QED
    BY <2>1, <2>3, <2>4 DEF Reach
<1>10. CASE stage[1] = "Init"
  <2>1. StepReply(staged[Boundary].piece.kind, staged[1].step) /\ UNCHANGED <<lane, frontier>>
    BY <1>10 DEF DeliverFrame, Ready
  <2>2. CASE stage' = <<"Advance", stage[2]>> /\ UNCHANGED <<link, failure, retry>>
    <3>1. stage' # Unsolicited /\ stage' # Ready /\ stage # Ready /\ stage'[1] = "Advance"
      BY <1>10, <2>2 DEF Unsolicited, Ready
    <3>2. First' = First + 1 /\ Final' = Final
      BY <1>10, <3>1 DEF First, Final
    <3>3. Covered(own2, cut2, staged', inbox, stage', frontier', published')
      BY <3>1 DEF Covered
    <3>4. Piped'
      BY <1>1, <1>6, <1>7, <3>2, <3>3, PipeNext
    <3> QED
      BY <2>2, <3>1, <3>4
  <2>3. CASE Fail("handshake", StartPolicy("handshake"))
    <3>1. link' = "closing"
      BY <1>1, <2>3, FailEffect DEF Live, Kept, Links
    <3> QED
      BY <2>3, <3>1, FailEffect DEF Kept
  <2> QED
    BY <2>1, <2>2, <2>3 DEF StepReply
<1>11. CASE stage = Ready
  <2>1. CommandReply(staged[1].at) /\ UNCHANGED stage
    BY <1>11 DEF DeliverFrame, Ready
  <2>2. link = "serving"
    BY <1>1, <1>11 DEF Policy, Kept, Links, Ready, Offline
  <2>3. /\ published \in Nat /\ Len(lane) \in Nat /\ First = published - Len(lane) + 1
        /\ Final = published /\ lane \in Seq(Nat) /\ Len(sent) \in Nat
    BY <1>11, FirstTypes DEF First, Final, Kept, Read
  <2>4. Len(lane) # 0
    BY <1>5, <1>9, <2>3
  <2>5. lane # <<>> /\ Head(lane) = First /\ Len(Tail(lane)) = Len(lane) - 1
    <3>1. 1 \in 1 .. Len(lane) /\ Head(lane) = lane[1] /\ lane # <<>>
      BY <2>3, <2>4
    <3>2. lane[1] = published - Len(lane) + 1
      BY <3>1 DEF Lined
    <3> QED
      BY <2>3, <3>1, <3>2
  <2>6. frontier[1] # None /\ frontier[2] >= own[Len(staged)]
    BY <1>3, <1>5, <1>11 DEF Covered
  <2>7. /\ lane' = Tail(lane) /\ frontier' = AnsweredFrontier /\ UNCHANGED <<link, failure>>
    BY <2>1, <2>2, <2>5, <2>6 DEF CommandReply, Unawaited
  <2>8. First' = First + 1 /\ Final' = Final /\ stage' = Ready
    BY <1>1, <1>11, <2>1, <2>3, <2>5, <2>7 DEF First, Final
  <2>9. /\ m - Boundary \in Nat /\ own2 \in [1 .. m - Boundary -> Nat]
        /\ Owns(m - Boundary, T2, own2, First + 1)
    BY <1>6 DEF Chain
  <2>10. Covered(own2, cut2, staged', inbox, stage', frontier', published')
    <3>1. ASSUME NEW j \in 1 .. Len(inbox)
          PROVE  inbox[j].cutoff >= own2[cut2[j]] /\ inbox[j].cutoff <= published
      <4>1. inbox[j].cutoff >= own[cut[j]] /\ inbox[j].cutoff <= published
        BY <1>5, <1>11 DEF Covered
      <4>2. cut[j] \in 1 .. m
        BY <1>5, CutRange
      <4>3. cut2[j] \in 1 .. m - Boundary
        BY <1>6, CutRange
      <4>4. cut2[j] = cut[j] - Boundary
        <5>1. j \in 0 .. Len(inbox)
          OBVIOUS
        <5> QED
          BY <1>7, <5>1
      <4>5. own2[cut2[j]] = own[Boundary + cut2[j]]
        BY <1>7, <4>3
      <4>6. Boundary + cut2[j] = cut[j]
        <5> DEFINE x == cut[j]
                   y == cut2[j]
                   e == Boundary
        <5>1. x \in Nat /\ y = x - e /\ e \in Nat
          BY <1>2, <4>2, <4>4
        <5> HIDE DEF x, y, e
        <5>2. e + y = x
          BY <5>1
        <5> QED
          BY <5>2 DEF x, y, e
      <4> QED
        BY <4>1, <4>5, <4>6
    <3>2. ASSUME staged' # <<>>
          PROVE  frontier'[1] # None /\ frontier'[2] >= own2[Len(staged')]
      <4>1. Len(staged') \in 1 .. m - Boundary
        BY <1>6, <3>2, CutRange
      <4>2. own2[Len(staged')] = own[Len(staged)]
        <5> DEFINE x == Len(staged)
                   y == Len(staged')
                   e == Boundary
        <5>1. x \in Nat /\ y = x - e /\ e \in Nat
          BY <1>2, <1>3
        <5>2. e + y = x
          <6> HIDE DEF x, y, e
          <6> QED
            BY <5>1
        <5> QED
          BY <1>7, <4>1, <5>2
      <4>3. own2[Len(staged')] >= First + 1 /\ own2[Len(staged')] \in Nat
        <5>1. /\ 1 \in 1 .. m - Boundary /\ 1 <= Len(staged') /\ m - Boundary > 0
          BY <2>9, <4>1
        <5>2. own2[1] = First + 1 /\ own2[1] <= own2[Len(staged')]
          BY <2>9, <4>1, <5>1 DEF Owns
        <5> QED
          BY <1>9, <2>9, <4>1, <5>2
      <4>4. frontier[2] \in Nat /\ frontier[2] # Head(lane) /\ frontier[2] # None
        BY <1>9, <2>5, <2>6, <4>2, <4>3 DEF Kept, None
      <4>5. frontier' = <<frontier[2], frontier[2]>>
        BY <2>7, <4>4 DEF AnsweredFrontier
      <4> QED
        BY <2>6, <4>2, <4>4, <4>5
    <3>3. Ready[1] # "Init"
      BY DEF Ready
    <3> QED
      BY <1>1, <2>8, <3>1, <3>2, <3>3 DEF Covered
  <2>11. Piped'
    BY <1>1, <1>6, <1>7, <2>8, <2>10, PipeNext
  <2>12. stage' # Unsolicited
    BY <2>8 DEF Ready, Unsolicited
  <2> QED
    BY <2>7, <2>11, <2>12
<1> QED
  BY <1>8, <1>10, <1>11, StageParts DEF Kept

(* A step of the handshake begins, or the connection serves. *)
LEMMA PipedBegin ==
    ASSUME Kept, Read, link = "initializing", NEW s \in Steps, Begin(s),
           UNCHANGED <<net, inbox, staged>>, net = <<>>, inbox = <<>>, staged = <<>>, sent = <<>>
    PROVE  /\ link' # "closing" => stage' # Unsolicited /\ Piped'
           /\ failure' \in {failure, "request"}
<1>1. CASE Fail("request", StartPolicy("request"))
  <2>1. link' = "closing"
    BY <1>1, FailEffect DEF Live, Kept
  <2> QED
    BY <1>1, <2>1, FailEffect DEF Kept
<1>2. CASE sent' = Append(sent, [step |-> s]) /\ UNCHANGED <<link, failure, retry>>
  <2>1. stage' = <<"Init", s>>
    BY DEF Begin
  <2>2. stage' # Unsolicited /\ stage' # Ready /\ stage'[1] = "Init"
    BY <2>1 DEF Unsolicited, Ready
  <2>3. First' = 1 /\ Final' = 1
    BY <2>2 DEF First, Final
  <2>4. Len(sent') = 1
    BY <1>2
  <2>5. Piped'
    BY <2>3, <2>4, PipedEmpty
  <2> QED
    BY <1>2, <2>2, <2>5
<1> QED
  BY <1>1, <1>2 DEF Begin

LEMMA PipedReady ==
    ASSUME Kept, Read, Lined, link = "initializing", BecomeReady,
           UNCHANGED <<lane, published, net, inbox, staged>>,
           net = <<>>, inbox = <<>>, staged = <<>>, sent = <<>>
    PROVE  stage' # Unsolicited /\ Piped' /\ UNCHANGED failure
<1>1. stage' = Ready /\ UNCHANGED <<failure, sent>>
  BY DEF BecomeReady
<1>2. lane' = <<>> /\ published' \in Nat
  BY DEF Lined, Kept
<1>3. First' = published' + 1 /\ Final' = published'
  <2>1. Len(lane') = 0
    BY <1>2
  <2> QED
    BY <1>1, <1>2, <2>1 DEF First, Final
<1>4. Len(sent') = 0
  BY <1>1
<1>5. Piped'
  BY <1>2, <1>3, <1>4, PipedEmpty
<1> QED
  BY <1>1, <1>5 DEF Ready, Unsolicited

LEMMA PipedFlush ==
    ASSUME Kept, Read, Policy, Lined, Piped, stage # Unsolicited, link # "closing", Flush
    PROVE  /\ link' # "closing" => stage' # Unsolicited /\ Piped'
           /\ failure' \in {failure, "request"}
<1>1. UNCHANGED <<net, eof, inbox, staged, lane, published>> /\ link # "vacant"
  BY DEF Flush, input
<1>2. CASE stage[1] = "Advance"
  <2>1. staged = <<>> /\ inbox = <<>> /\ net = <<>> /\ sent = <<>>
    BY <1>2, PipedNone
  <2>2. link = "initializing" /\ retry = "open"
    BY <1>1, <1>2 DEF Policy, Live, Kept, Links, Ready
  <2>3. \/ BecomeReady
        \/ Following(stage[2]) # None /\ Begin(Following(stage[2]))
    BY <1>2, <2>1, <2>2 DEF Flush, Advance
  <2>4. Following(stage[2]) # None => Following(stage[2]) \in Steps
    BY FollowingStep, StageParts DEF Kept
  <2> QED
    BY <1>1, <2>1, <2>2, <2>3, <2>4, PipedBegin, PipedReady
<1>3. CASE stage[1] # "Advance"
  <2>1. staged # <<>> => ~Unawaited
    <3>1. link = "serving" => stage = Ready
      BY DEF Policy
    <3>2. PICK m, T, own, cut : Pipe(m, T, own, cut)
      BY DEF Piped
    <3> QED
      BY <3>1, <3>2 DEF Pipe, Covered, Unawaited
  <2>2. UNCHANGED <<stage, link, failure, frontier, sent>>
    BY <1>3, <2>1 DEF Flush
  <2>3. First' = First /\ Final' = Final
    BY <1>1, <2>2 DEF First, Final
  <2>4. Piped'
    BY <1>1, <2>2, <2>3 DEF Piped, Pipe
  <2> QED
    BY <2>2, <2>4
<1> QED
  BY <1>2, <1>3

LEMMA PipedConnect ==
    ASSUME Kept, Read, Lined, Piped, Connect
    PROVE  /\ link' # "closing" => stage' # Unsolicited /\ Piped'
           /\ failure' \in {failure, "request"}
<1>1. UNCHANGED <<net, inbox, staged, lane, published>> /\ link = "initializing" /\ stage = Offline
  BY DEF Connect, input
<1>2. staged = <<>> /\ inbox = <<>> /\ net = <<>> /\ sent = <<>>
  <2>1. stage[1] = "Offline"
    BY <1>1 DEF Offline
  <2> QED
    BY <2>1, PipedNone
<1>3. \/ BecomeReady
      \/ Following(None) # None /\ Begin(Following(None))
  BY DEF Connect
<1>4. Following(None) # None => Following(None) \in Steps
  BY FollowingStep DEF Kept, None
<1> QED
  BY <1>1, <1>2, <1>3, <1>4, PipedBegin, PipedReady

LEMMA PipedSame ==
    ASSUME Piped, UNCHANGED <<stage, frontier, lane, published, staged, inbox, net, sent, eof>>
    PROVE  Piped'
<1>1. First' = First /\ Final' = Final
  BY DEF First, Final
<1> QED
  BY <1>1 DEF Piped, Pipe

(* An orderly peer is never refused. *)
LEMMA OrderlyStep ==
    ASSUME Kept, Read, Policy, Lined, Orderly, OrderlyAccepted, [WireNext]_wireVars
    PROVE  Orderly' /\ OrderlyAccepted'
<1> SUFFICES ASSUME strays' = 0 PROVE Orderly' /\ OrderlyAccepted'
  BY DEF Orderly, OrderlyAccepted
<1>1. ~Stray
  BY DEF Stray, Read
<1>2. strays = 0 /\ failure \notin {"unexpected", "front"}
  <2>1. strays' = strays
    BY <1>1 DEF WireNext, Register, Connect, Answer, PeerCloses, Publish, Receive, Received, DeliverFrame,
           Flush, LinkFails, DrainFails, TimesOut, EndOfInput, Finish, Disconnect, wireVars, peer
  <2> QED
    BY <2>1 DEF OrderlyAccepted
<1> DEFINE Fine == (link' # "closing" => stage' # Unsolicited /\ Piped')
                     /\ failure' \notin {"unexpected", "front"}
<1> SUFFICES Fine
  BY DEF Orderly, OrderlyAccepted
<1>3. link # "closing" => stage # Unsolicited /\ Piped
  BY <1>2 DEF Orderly
<1>4. ASSUME NEW cause, NEW policy, Fail(cause, policy), link = "closing", cause # "truncated"
      PROVE  Fine
  BY <1>2, <1>4, FailEffect DEF Live, Kept
<1>5. ASSUME NEW cause \in {"receive", "transmit", "reserve", "timeout"}, NEW policy,
             Fail(cause, policy), link \in {"initializing", "serving"}
      PROVE  Fine
  <2>1. link' = "closing" /\ failure' \in {failure, cause}
    BY <1>5, FailEffect DEF Live, Kept
  <2> QED
    BY <1>2, <1>5, <2>1
<1>6. CASE Register
  <2>1. /\ UNCHANGED <<stage, frontier, lane, published, staged, inbox, net, sent>>
        /\ link = "vacant" /\ failure' = "none"
    BY <1>6 DEF Register, input
  <2>2. stage = Offline /\ stage[1] = "Offline"
    BY <2>1 DEF Policy, Offline
  <2>3. staged = <<>> /\ inbox = <<>> /\ net = <<>> /\ sent = <<>>
    BY <1>3, <2>1, <2>2, PipedNone
  <2>4. First' = 2 /\ Final' = 1
    BY <2>1, <2>2 DEF First, Final, Offline, Ready
  <2>5. Len(sent') = 0
    BY <2>1, <2>3
  <2>6. Piped'
    BY <2>1, <2>3, <2>4, <2>5, PipedEmpty
  <2> QED
    BY <1>3, <2>1, <2>6
<1>7. CASE Connect
  <2>1. link # "closing"
    BY <1>7 DEF Connect
  <2> QED
    BY <1>2, <1>3, <1>7, <2>1, PipedConnect
<1>8. CASE Answer \/ PeerCloses \/ Publish \/ \E n \in 1 .. 3 : Receive(n)
  <2>1. UNCHANGED <<link, stage, failure>>
    BY <1>8 DEF Answer, PeerCloses, Publish, Receive, conn
  <2>2. link # "closing" => Piped'
    BY <1>3, <1>8, PipedAnswer, PipedPeerCloses, PipedPublish, PipedReceive
  <2> QED
    BY <1>2, <1>3, <2>1, <2>2
<1>9. CASE Received
  <2>1. UNCHANGED <<link, failure>>
    BY <1>9 DEF Received
  <2>2. link # "closing" => Piped' /\ stage' = stage
    BY <1>3, <1>9, PipedReceived
  <2> QED
    BY <1>2, <1>3, <2>1, <2>2
<1>10. CASE DeliverFrame
  <2>1. CASE link = "closing"
    <3>1. \/ UNCHANGED <<link, failure>>
          \/ \E cause \in {"handshake", "front", "unexpected"}, policy \in {"permanent", "reconnect"} :
                 Fail(cause, policy)
      BY <1>10, Policies DEF DeliverFrame, StepReply, CommandReply
    <3> QED
      BY <1>2, <1>4, <2>1, <3>1
  <2>2. CASE link # "closing"
    BY <1>2, <1>3, <1>10, <2>2, PipedDeliver
  <2> QED
    BY <2>1, <2>2
<1>11. CASE Flush
  <2>1. CASE link = "closing"
    <3>1. \/ UNCHANGED <<link, failure>>
          \/ Fail("unexpected", ReplyPolicy("unexpected"))
      <4>1. retry # "open"
        BY <2>1 DEF Policy
      <4> QED
        BY <1>11, <4>1 DEF Flush, Advance
    <3> QED
      BY <1>2, <1>4, <2>1, <3>1
  <2>2. CASE link # "closing"
    BY <1>2, <1>3, <1>11, <2>2, PipedFlush
  <2> QED
    BY <2>1, <2>2
<1>12. CASE LinkFails \/ DrainFails \/ TimesOut
  BY <1>5, <1>12 DEF LinkFails, DrainFails, TimesOut
<1>13. CASE EndOfInput
  BY <1>13 DEF EndOfInput
<1>14. CASE Finish
  <2>1. link = "closing" /\ link' = link /\ failure' \in {failure, "truncated"}
    BY <1>14 DEF Finish, FailRoute
  <2> QED
    BY <1>2, <2>1
<1>15. CASE Disconnect
  <2>1. /\ staged' = <<>> /\ inbox' = <<>> /\ net' = <<>> /\ sent' = <<>>
        /\ stage' = Offline /\ UNCHANGED failure
    BY <1>15 DEF Disconnect
  <2>2. First' = 2 /\ Final' = 1 /\ stage' # Unsolicited
    BY <2>1 DEF First, Final, Offline, Ready, Unsolicited
  <2>3. Len(sent') = 0
    BY <2>1
  <2>4. Piped'
    BY <2>1, <2>2, <2>3, PipedEmpty
  <2> QED
    BY <1>2, <2>1, <2>2, <2>4
<1>16. CASE UNCHANGED wireVars
  <2>1. /\ UNCHANGED <<stage, frontier, lane, published, staged, inbox, net, sent, eof>>
        /\ UNCHANGED <<link, failure>>
    BY <1>16 DEF wireVars, conn, peer, input
  <2> QED
    BY <1>2, <1>3, <2>1, PipedSame
<1> QED
  BY <1>1, <1>6, <1>7, <1>8, <1>9, <1>10, <1>11, <1>12, <1>13, <1>14, <1>15, <1>16 DEF WireNext

-----------------------------------------------------------------------------
(* The theorem *)

WireKept ==
    /\ Kept /\ Read /\ Policy /\ Hand /\ Lined /\ Stamped /\ Cuts /\ Orderly
    /\ NoEarlyReply /\ OrderlyAccepted

LEMMA WireInitial == Commands \in Nat /\ WireInit => WireKept
<1> SUFFICES ASSUME Commands \in Nat, WireInit PROVE WireKept
  OBVIOUS
<1>1. Kept /\ Read
  BY WireTypesInitial
<1>2. /\ stage = Offline /\ link = "vacant" /\ failure = "none" /\ lane = <<>> /\ published = 0
      /\ sent = <<>> /\ net = <<>> /\ inbox = <<>> /\ staged = <<>> /\ done = {}
      /\ eof = FALSE /\ began = [c \in 1 .. Commands |-> Unanswered]
  BY DEF WireInit
<1>3. Len(lane) = 0 /\ Len(inbox) = 0 /\ Len(sent) = 0
  BY <1>2
<1>4. Policy /\ Hand
  BY <1>2 DEF Policy, Live, Hand, Offline, Ready
<1>5. Lined /\ Stamped /\ Cuts
  BY <1>2, <1>3 DEF Lined, Stamped, Cuts
<1>6. NoEarlyReply /\ OrderlyAccepted
  BY <1>2 DEF NoEarlyReply, OrderlyAccepted, Unanswered
<1>7. Orderly
  <2>1. First = 2 /\ Final = 1
    BY <1>2 DEF First, Final, Offline, Ready
  <2>2. Piped
    BY <1>2, <1>3, <2>1, PipedStart
  <2> QED
    BY <1>2, <2>2 DEF Orderly, Offline, Unsolicited
<1> QED
  BY <1>1, <1>4, <1>5, <1>6, <1>7 DEF WireKept

LEMMA WireStep ==
    ASSUME Commands \in Nat, WireKept, [WireNext]_wireVars
    PROVE  WireKept'
BY WireTypesStep, PolicyStep, HandStep, LinedStep, StampedStep, CutsStep, OrderlyStep, EarlyStep
   DEF WireKept

THEOREM WireSoundCorrect == Commands \in Nat => (WireSpec => WireSound)
<1> SUFFICES ASSUME Commands \in Nat PROVE WireSpec => WireSound
  OBVIOUS
<1>1. WireInit => WireKept
  BY WireInitial
<1>2. WireKept /\ [WireNext]_wireVars => WireKept'
  BY WireStep
<1>3. WireKept => NoEarlyReply /\ HandshakeFirst /\ OrderlyAccepted
  BY DEF WireKept, Hand, HandshakeFirst
<1>4. WireKept /\ [WireNext]_wireVars =>
          [link = "serving" /\ link' = "closing" => retry' # "permanent"]_wireVars
  BY PolicyStep DEF WireKept
<1>5. WireSpec => [](NoEarlyReply /\ HandshakeFirst /\ OrderlyAccepted)
  BY <1>1, <1>2, <1>3, PTL DEF WireSpec
<1>6. WireSpec => ServedRetries
  BY <1>1, <1>2, <1>4, PTL DEF WireSpec, ServedRetries
<1> QED
  BY <1>5, <1>6 DEF WireSound

-----------------------------------------------------------------------------
(* The request frames.  Inductive invariant: the lane holds every queued   *)
(* fiber once, and the running totals of its weights only grow.            *)

Places == {"new", "sized", "waiting", "reserved", "framed", "queued", "out", "ended"}
Holders == {f \in Fibers : Holds(f)}

Queued ==
    /\ requests \in Seq(Fibers)
    /\ \A i, j \in 1 .. Len(requests) : requests[i] = requests[j] => i = j
    /\ \A f \in Fibers : place[f] = "queued" <=> \E i \in 1 .. Len(requests) : requests[i] = f

Climbs(total, line) == \A i, j \in 0 .. Len(line) : i <= j => total[i] <= total[j]
Weighed ==
    \E total \in [0 .. Len(requests) -> 0 .. Word - 1] :
        Adds(total, requests, held) /\ Climbs(total, requests)

Pooled == free \in Nat /\ free + Cardinality(Holders) = Frames

FramesInv ==
    /\ FramesConfigured
    /\ place \in [Fibers -> Places]
    /\ Queued /\ Weighed /\ Pooled

LEMMA SmallRemainder ==
    ASSUME NEW n \in Nat, NEW w \in Nat \ {0}, n < w
    PROVE  n % w = n
OBVIOUS

LEMMA FramesInitial == FramesInit => FramesInv
<1> SUFFICES ASSUME FramesInit PROVE FramesInv
  OBVIOUS
<1> USE DEF FramesInit, FramesConfigured
<1>1. place \in [Fibers -> Places]
  BY DEF Places
<1>2. Queued
  <2>1. requests \in Seq(Fibers) /\ Len(requests) = 0
    OBVIOUS
  <2>2. \A f \in Fibers : place[f] # "queued"
    OBVIOUS
  <2> QED
    BY <2>1, <2>2 DEF Queued
<1>3. Weighed
  <2> DEFINE total == [i \in 0 .. 0 |-> 0]
  <2>1. Len(requests) = 0
    OBVIOUS
  <2>2. total \in [0 .. Len(requests) -> 0 .. Word - 1]
    BY <2>1
  <2>3. Adds(total, requests, held)
    BY <2>1 DEF Adds
  <2>4. Climbs(total, requests)
    BY <2>1 DEF Climbs
  <2> QED
    BY <2>2, <2>3, <2>4 DEF Weighed
<1>4. Pooled
  <2>1. Holders = {}
    BY DEF Holders, Holds
  <2> QED
    BY <2>1, FS_EmptySet DEF Pooled
<1> QED
  BY <1>1, <1>2, <1>3, <1>4 DEF FramesInv

(* What a step does to the pool. *)
LEMMA KeptFrames ==
    ASSUME Pooled, Holders' = Holders, UNCHANGED free
    PROVE  Pooled'
BY DEF Pooled

LEMMA TakenFrame ==
    ASSUME FramesConfigured, Pooled, NEW f \in Fibers, f \notin Holders,
           Holders' = Holders \cup {f}, free > 0, free' = free - 1
    PROVE  Pooled'
<1>1. IsFiniteSet(Holders)
  BY FS_Subset DEF FramesConfigured, Holders
<1>2. Cardinality(Holders) \in Nat /\ Cardinality(Holders \cup {f}) = Cardinality(Holders) + 1
  BY <1>1, FS_AddElement, FS_CardinalityType
<1> QED
  BY <1>2 DEF Pooled, FramesConfigured

LEMMA BackFrame ==
    ASSUME FramesConfigured, Pooled, NEW f \in Fibers, f \in Holders,
           Holders' = Holders \ {f}, free' = free + 1
    PROVE  Pooled'
<1>1. IsFiniteSet(Holders)
  BY FS_Subset DEF FramesConfigured, Holders
<1>2. Cardinality(Holders) \in Nat /\ Cardinality(Holders \ {f}) = Cardinality(Holders) - 1
  BY <1>1, FS_RemoveElement, FS_CardinalityType
<1> QED
  BY <1>2 DEF Pooled, FramesConfigured

(* A fiber that moves between places outside of the lane. *)
LEMMA MovedFiber ==
    ASSUME place \in [Fibers -> Places], NEW f \in Fibers, NEW to \in Places, Moves(f, to)
    PROVE  /\ place' \in [Fibers -> Places]
           /\ place'[f] = to
           /\ \A g \in Fibers \ {f} : place'[g] = place[g]
           /\ to \in {"reserved", "framed", "queued", "out"} => Holders' = Holders \cup {f}
           /\ to \notin {"reserved", "framed", "queued", "out"} => Holders' = Holders \ {f}
<1>1. /\ place' \in [Fibers -> Places]
      /\ place'[f] = to
      /\ \A g \in Fibers \ {f} : place'[g] = place[g]
  BY DEF Moves
<1>2. \A g \in Fibers \ {f} : g \in Holders' <=> g \in Holders
  BY <1>1 DEF Holders, Holds
<1>3. f \in Holders' <=> to \in {"reserved", "framed", "queued", "out"}
  BY <1>1 DEF Holders, Holds
<1>4. Holders \subseteq Fibers /\ Holders' \subseteq Fibers
  BY DEF Holders
<1> QED
  BY <1>1, <1>2, <1>3, <1>4

LEMMA SameLane ==
    ASSUME Queued, Weighed, UNCHANGED laneVars, NEW f \in Fibers,
           place[f] # "queued", place'[f] # "queued",
           \A g \in Fibers \ {f} : place'[g] = place[g]
    PROVE  Queued' /\ Weighed'
<1>1. Queued'
  <2>1. \A g \in Fibers : place'[g] = "queued" <=> place[g] = "queued"
    OBVIOUS
  <2> QED
    BY <2>1 DEF Queued, laneVars
<1>2. Weighed'
  BY DEF Weighed, Adds, Climbs, laneVars
<1> QED
  BY <1>1, <1>2

LEMMA IdleLane ==
    ASSUME Queued, Weighed, UNCHANGED <<requests, held, place>>
    PROVE  Queued' /\ Weighed'
<1>1. Queued'
  BY DEF Queued
<1>2. Weighed'
  BY DEF Weighed, Adds, Climbs
<1> QED
  BY <1>1, <1>2

(* The head leaves the lane with its charge. *)
LEMMA HeadLeaves ==
    ASSUME FramesConfigured, Queued, Weighed, requests # <<>>,
           requests' = Tail(requests), held' = Refunded(Head(requests)),
           place'[Head(requests)] # "queued",
           \A g \in Fibers \ {Head(requests)} : place'[g] = place[g]
    PROVE  Head(requests) \in Fibers /\ Queued' /\ Weighed'
<1> DEFINE n == Len(requests)
<1>1. /\ requests \in Seq(Fibers) /\ n \in Nat \ {0}
      /\ Head(requests) = requests[1] /\ Head(requests) \in Fibers
      /\ requests' \in Seq(Fibers) /\ Len(requests)' = n - 1
      /\ \A i \in 1 .. n - 1 : requests'[i] = requests[i + 1]
  BY DEF Queued
<1>2. Queued'
  <2>1. \A i, j \in 1 .. n : requests[i] = requests[j] => i = j
    BY DEF Queued
  <2>2. \A i, j \in 1 .. n - 1 : requests'[i] = requests'[j] => i = j
    BY <1>1, <2>1
  <2>3. ASSUME NEW f \in Fibers
        PROVE  place'[f] = "queued" <=> \E i \in 1 .. n - 1 : requests'[i] = f
    <3>1. CASE f = requests[1]
      <4>1. \A i \in 1 .. n - 1 : requests[i + 1] # requests[1]
        BY <1>1, <2>1
      <4> QED
        BY <1>1, <3>1, <4>1
    <3>2. CASE f # requests[1]
      <4>1. place'[f] = place[f]
        BY <1>1, <3>2
      <4>2. place[f] = "queued" <=> \E i \in 1 .. n : requests[i] = f
        BY DEF Queued
      <4>3. (\E i \in 1 .. n : requests[i] = f) <=> \E i \in 1 .. n - 1 : requests[i + 1] = f
        <5>1. ASSUME NEW i \in 1 .. n, requests[i] = f PROVE \E j \in 1 .. n - 1 : requests[j + 1] = f
          <6>1. i # 1
            BY <3>2, <5>1
          <6>2. i - 1 \in 1 .. n - 1 /\ (i - 1) + 1 = i
            BY <1>1, <6>1
          <6> QED
            BY <5>1, <6>2
        <5>2. ASSUME NEW i \in 1 .. n - 1, requests[i + 1] = f PROVE \E j \in 1 .. n : requests[j] = f
          <6>1. i + 1 \in 1 .. n
            BY <1>1
          <6> QED
            BY <5>2, <6>1
        <5> QED
          BY <5>1, <5>2
      <4> QED
        BY <1>1, <4>1, <4>2, <4>3
    <3> QED
      BY <3>1, <3>2
  <2> QED
    BY <1>1, <2>2, <2>3 DEF Queued
<1>3. Weighed'
  <2>1. PICK total \in [0 .. n -> 0 .. Word - 1] : Adds(total, requests, held) /\ Climbs(total, requests)
    BY DEF Weighed
  <2>2. /\ Word \in Nat \ {0} /\ Weight[requests[1]] \in Nat
    BY <1>1 DEF FramesConfigured
  <2>3. /\ total[0] = 0 /\ total[n] = held
        /\ total[1] = Weight[requests[1]]
        /\ \A i \in 1 .. n : total[i] = total[i - 1] + Weight[requests[i]]
    BY <1>1, <2>1, <2>2 DEF Adds
  <2>4. \A i \in 0 .. n : total[i] \in 0 .. Word - 1
    BY <2>1
  <2>5. \A i, j \in 0 .. n : i <= j => total[i] <= total[j]
    BY <2>1 DEF Climbs
  <2> DEFINE less == [i \in 0 .. n - 1 |-> total[i + 1] - total[1]]
  <2>6. \A i \in 0 .. n - 1 : i + 1 \in 0 .. n /\ 1 \in 0 .. n /\ 1 <= i + 1
    BY <1>1
  <2>7. \A i \in 0 .. n - 1 : total[i + 1] - total[1] \in 0 .. Word - 1
    <3> TAKE i \in 0 .. n - 1
    <3>1. total[1] <= total[i + 1] /\ total[1] \in 0 .. Word - 1 /\ total[i + 1] \in 0 .. Word - 1
      BY <2>4, <2>5, <2>6
    <3> QED
      BY <2>2, <3>1
  <2>8. less \in [0 .. n - 1 -> 0 .. Word - 1]
    BY <2>7
  <2>9. held' = total[n] - total[1]
    <3>1. held' = (total[n] + Word - total[1]) % Word
      BY <1>1, <2>3 DEF Refunded
    <3>2. total[n] - total[1] \in 0 .. Word - 1
      <4>1. n - 1 \in 0 .. n - 1 /\ (n - 1) + 1 = n
        BY <1>1
      <4> HIDE DEF n
      <4> QED
        BY <2>7, <4>1
    <3>3. total[n] \in Int /\ total[1] \in Int
      BY <1>1, <2>4
    <3> HIDE DEF n
    <3> DEFINE d == total[n] - total[1]
    <3>4. total[n] + Word - total[1] = d + Word
      BY <2>2, <3>3
    <3>5. d \in 0 .. Word - 1
      BY <3>2
    <3> HIDE DEF d
    <3>6. (d + Word) % Word = d
      BY <2>2, <3>5
    <3> QED
      BY <3>1, <3>4, <3>6 DEF d
  <2>10. /\ less[0] = 0 /\ less[n - 1] = held'
    BY <1>1, <2>4, <2>9
  <2>11. \A i \in 1 .. n - 1 : less[i] = less[i - 1] + Weight[requests'[i]]
    <3> TAKE i \in 1 .. n - 1
    <3>1. /\ i + 1 \in 1 .. n /\ i \in 0 .. n /\ i \in 0 .. n - 1 /\ i - 1 \in 0 .. n - 1
          /\ (i + 1) - 1 = i /\ (i - 1) + 1 = i
      BY <1>1
    <3>2. total[i + 1] = total[i] + Weight[requests[i + 1]]
      BY <2>3, <3>1
    <3>3. requests[i + 1] \in Fibers /\ Weight[requests[i + 1]] \in Nat
      BY <1>1, <3>1 DEF FramesConfigured
    <3>4. total[i] \in Int /\ total[1] \in Int /\ total[i + 1] \in Int
      BY <1>1, <2>4, <3>1
    <3>5. less[i] = total[i + 1] - total[1] /\ less[i - 1] = total[i] - total[1]
      BY <3>1
    <3> QED
      BY <1>1, <3>2, <3>3, <3>4, <3>5
  <2>12. \A i, j \in 0 .. n - 1 : i <= j => less[i] <= less[j]
    <3> TAKE i, j \in 0 .. n - 1
    <3> HAVE i <= j
    <3>1. i + 1 \in 0 .. n /\ j + 1 \in 0 .. n /\ i + 1 <= j + 1
      BY <1>1
    <3>2. total[i + 1] <= total[j + 1] /\ total[1] \in Int /\ total[i + 1] \in Int /\ total[j + 1] \in Int
      BY <1>1, <2>4, <2>5, <3>1
    <3>3. less[i] = total[i + 1] - total[1] /\ less[j] = total[j + 1] - total[1]
      OBVIOUS
    <3> QED
      BY <3>2, <3>3
  <2> HIDE DEF less
  <2>13. Adds(less, requests', held')
    BY <1>1, <2>10, <2>11 DEF Adds
  <2>14. Climbs(less, requests')
    BY <1>1, <2>12 DEF Climbs
  <2> QED
    BY <1>1, <2>8, <2>13, <2>14 DEF Weighed
<1> QED
  BY <1>1, <1>2, <1>3

(* A request joins the lane with its charge. *)
LEMMA RequestJoins ==
    ASSUME FramesConfigured, Queued, Weighed, NEW f \in Fibers, place[f] # "queued",
           Admits(f), held' = (held + Weight[f]) % Word, requests' = Append(requests, f),
           place'[f] = "queued", \A g \in Fibers \ {f} : place'[g] = place[g]
    PROVE  Queued' /\ Weighed'
<1> DEFINE n == Len(requests)
<1>1. /\ requests \in Seq(Fibers) /\ n \in Nat
      /\ requests' \in Seq(Fibers) /\ Len(requests)' = n + 1
      /\ \A i \in 1 .. n : requests'[i] = requests[i]
      /\ requests'[n + 1] = f
  BY DEF Queued
<1>2. \A g \in Fibers : place[g] = "queued" <=> \E i \in 1 .. n : requests[i] = g
  BY DEF Queued
<1>3. Queued'
  <2>1. \A i \in 1 .. n : requests[i] # f
    BY <1>2
  <2>2. \A i \in 1 .. n + 1 : i \in 1 .. n \/ i = n + 1
    BY <1>1
  <2>3. \A i, j \in 1 .. n + 1 : requests'[i] = requests'[j] => i = j
    <3>1. \A i, j \in 1 .. n : requests[i] = requests[j] => i = j
      BY DEF Queued
    <3> QED
      BY <1>1, <2>1, <2>2, <3>1
  <2>4. ASSUME NEW g \in Fibers
        PROVE  place'[g] = "queued" <=> \E i \in 1 .. n + 1 : requests'[i] = g
    <3>1. \A i \in 1 .. n : i \in 1 .. n + 1
      BY <1>1
    <3>2. n + 1 \in 1 .. n + 1
      BY <1>1
    <3> QED
      BY <1>1, <1>2, <2>2, <3>1, <3>2
  <2> QED
    BY <1>1, <2>3, <2>4 DEF Queued
<1>4. Weighed'
  <2>1. PICK total \in [0 .. n -> 0 .. Word - 1] : Adds(total, requests, held) /\ Climbs(total, requests)
    BY DEF Weighed
  <2>2. /\ Word \in Nat \ {0} /\ Weight[f] \in Nat
    BY DEF FramesConfigured
  <2>3. /\ total[0] = 0 /\ total[n] = held
        /\ \A i \in 1 .. n : total[i] = total[i - 1] + Weight[requests[i]]
    BY <1>1, <2>1 DEF Adds
  <2>4. \A i \in 0 .. n : total[i] \in 0 .. Word - 1
    BY <2>1
  <2>5. \A i, j \in 0 .. n : i <= j => total[i] <= total[j]
    BY <2>1 DEF Climbs
  <2>6. held \in 0 .. Word - 1 /\ held + Weight[f] \in 0 .. Word - 1
    <3>1. n \in 0 .. n
      BY <1>1
    <3>2. held \in 0 .. Word - 1
      BY <2>3, <2>4, <3>1
    <3> HIDE DEF n
    <3>3. held + Weight[f] < Word
      BY DEF Admits
    <3> DEFINE w == Weight[f]
    <3>4. w \in Nat /\ held + w < Word
      BY <2>2, <3>3
    <3> HIDE DEF w
    <3>5. held + w \in 0 .. Word - 1
      BY <2>2, <3>2, <3>4
    <3> QED
      BY <3>2, <3>5 DEF w
  <2>7. held' = held + Weight[f]
    <3> DEFINE d == held + Weight[f]
    <3>1. d \in 0 .. Word - 1 /\ held' = d % Word
      BY <2>6
    <3> HIDE DEF d
    <3>2. d % Word = d
      <4>1. d \in Nat /\ d < Word
        BY <2>2, <3>1
      <4> QED
        BY <2>2, <4>1, SmallRemainder
    <3> QED
      BY <3>1, <3>2 DEF d
  <2> DEFINE more == [i \in 0 .. n + 1 |-> IF i = n + 1 THEN held' ELSE total[i]]
  <2>8. /\ \A i \in 0 .. n + 1 : i \in 0 .. n \/ i = n + 1
        /\ \A i \in 0 .. n : i # n + 1 /\ i \in 0 .. n + 1
        /\ n + 1 \in 0 .. n + 1 /\ n \in 0 .. n /\ 0 \in 0 .. n
    BY <1>1
  <2>9. /\ more[n + 1] = held' /\ \A i \in 0 .. n : more[i] = total[i]
    BY <2>8
  <2>10. more \in [0 .. n + 1 -> 0 .. Word - 1]
    BY <2>4, <2>6, <2>7, <2>8
  <2> HIDE DEF more
  <2>11. \A i \in 1 .. n + 1 : more[i] = more[i - 1] + Weight[requests'[i]]
    <3> TAKE i \in 1 .. n + 1
    <3>1. CASE i = n + 1
      <4>1. i - 1 = n
        BY <1>1, <3>1
      <4> QED
        BY <1>1, <2>3, <2>7, <2>8, <2>9, <3>1, <4>1
    <3>2. CASE i # n + 1
      <4>1. i \in 1 .. n /\ i \in 0 .. n /\ i - 1 \in 0 .. n
        BY <1>1, <3>2
      <4> QED
        BY <1>1, <2>3, <2>9, <4>1
    <3> QED
      BY <3>1, <3>2
  <2>12. \A i, j \in 0 .. n + 1 : i <= j => more[i] <= more[j]
    <3> TAKE i, j \in 0 .. n + 1
    <3> HAVE i <= j
    <3>1. CASE j = n + 1
      <4>1. CASE i = n + 1
        BY <2>6, <2>7, <2>9, <3>1, <4>1
      <4>2. CASE i # n + 1
        <5>1. i \in 0 .. n /\ i <= n
          BY <1>1, <4>2
        <5>2. total[i] <= held /\ total[i] \in 0 .. Word - 1
          BY <2>3, <2>4, <2>5, <2>8, <5>1
        <5>3. held <= held' /\ held \in Nat /\ held' \in Nat
          BY <2>2, <2>6, <2>7
        <5>4. more[i] = total[i] /\ more[j] = held'
          BY <2>9, <3>1, <5>1
        <5> HIDE DEF n
        <5> QED
          BY <5>2, <5>3, <5>4
      <4> QED
        BY <4>1, <4>2
    <3>2. CASE j # n + 1
      <4>1. i \in 0 .. n /\ j \in 0 .. n
        BY <1>1, <3>2
      <4> QED
        BY <2>5, <2>9, <4>1
    <3> QED
      BY <3>1, <3>2
  <2>13. Adds(more, requests', held')
    BY <1>1, <2>3, <2>8, <2>9, <2>11 DEF Adds
  <2>14. Climbs(more, requests')
    BY <1>1, <2>12 DEF Climbs
  <2> QED
    BY <1>1, <2>10, <2>13, <2>14 DEF Weighed
<1> QED
  BY <1>3, <1>4

LEMMA FramesStep == FramesInv /\ [FramesNext]_frameVars => FramesInv'
<1> SUFFICES ASSUME FramesInv, [FramesNext]_frameVars PROVE FramesInv'
  OBVIOUS
<1> USE DEF FramesInv
<1>0. FramesConfigured'
  BY DEF FramesConfigured, Fibers
<1> DEFINE Away == {"new", "sized", "waiting", "ended"}
<1>1. ASSUME NEW f \in Fibers, NEW to \in Places, Discard(f, to), f \in Holders, to \in Away
      PROVE  /\ place' \in [Fibers -> Places] /\ Pooled' /\ place'[f] # "queued"
             /\ \A g \in Fibers \ {f} : place'[g] = place[g]
  <2>1. Moves(f, to) /\ free' = free + 1
    BY <1>1 DEF Discard
  <2>2. /\ place' \in [Fibers -> Places] /\ place'[f] = to
        /\ \A g \in Fibers \ {f} : place'[g] = place[g]
        /\ Holders' = Holders \ {f}
    BY <2>1, <1>1, MovedFiber
  <2>3. Pooled'
    BY <1>1, <2>1, <2>2, BackFrame
  <2> QED
    BY <1>1, <2>2, <2>3
<1>2. ASSUME NEW f \in Fibers, NEW to \in Places, Moves(f, to), UNCHANGED free,
             f \in Holders <=> to \notin Away
      PROVE  /\ place' \in [Fibers -> Places] /\ Pooled' /\ place'[f] = to
             /\ \A g \in Fibers \ {f} : place'[g] = place[g]
  <2>1. /\ place' \in [Fibers -> Places] /\ place'[f] = to
        /\ \A g \in Fibers \ {f} : place'[g] = place[g]
        /\ Holders' = Holders
    <3>1. to \in {"reserved", "framed", "queued", "out"} <=> to \notin Away
      BY DEF Places
    <3> QED
      BY <1>2, <3>1, MovedFiber
  <2> QED
    BY <1>2, <2>1, KeptFrames
<1>3. ASSUME NEW f \in Fibers, NEW to \in {"reserved", "framed"}, Moves(f, to),
             f \notin Holders, free > 0, free' = free - 1
      PROVE  /\ place' \in [Fibers -> Places] /\ Pooled' /\ place'[f] = to
             /\ \A g \in Fibers \ {f} : place'[g] = place[g]
  <2>1. to \in Places
    BY DEF Places
  <2>2. /\ place' \in [Fibers -> Places] /\ place'[f] = to
        /\ \A g \in Fibers \ {f} : place'[g] = place[g]
        /\ Holders' = Holders \cup {f}
    BY <1>3, <2>1, MovedFiber
  <2> QED
    BY <1>3, <2>2, TakenFrame
<1>4. \A f \in Fibers : f \in Holders <=> place[f] \in {"reserved", "framed", "queued", "out"}
  BY DEF Holders, Holds
<1>5. \A to \in {"reserved", "framed", "queued", "out"} : to \in Places /\ to \notin Away
  BY DEF Places
<1>6. "ended" \in Places /\ "waiting" \in Places
  BY DEF Places
<1>10. ASSUME NEW f \in Fibers, Reserve(f) PROVE FramesInv'
  <2>1. place[f] \in {"new", "waiting"} /\ f \notin Holders /\ UNCHANGED laneVars
    BY <1>10, <1>4 DEF Reserve
  <2>2. CASE Moves(f, "reserved") /\ free > 0 /\ free' = free - 1
    <3>1. /\ place' \in [Fibers -> Places] /\ Pooled' /\ place'[f] = "reserved"
          /\ \A g \in Fibers \ {f} : place'[g] = place[g]
      BY <1>3, <2>1, <2>2
    <3> QED
      BY <1>0, <2>1, <3>1, SameLane
  <2>3. ASSUME NEW to \in {"waiting", "ended"}, Moves(f, to), UNCHANGED free
        PROVE  FramesInv'
    <3>1. /\ place' \in [Fibers -> Places] /\ Pooled' /\ place'[f] = to
          /\ \A g \in Fibers \ {f} : place'[g] = place[g]
      BY <1>2, <1>6, <2>1, <2>3
    <3> QED
      BY <1>0, <2>1, <3>1, SameLane
  <2> QED
    BY <1>10, <2>2, <2>3 DEF Reserve
<1>11. ASSUME NEW f \in Fibers, EvalPrepared(f) PROVE FramesInv'
  <2>1. place[f] = "reserved" /\ f \in Holders /\ UNCHANGED laneVars
    BY <1>11, <1>4 DEF EvalPrepared
  <2>2. CASE Moves(f, "framed") /\ UNCHANGED free
    <3>1. /\ place' \in [Fibers -> Places] /\ Pooled' /\ place'[f] = "framed"
          /\ \A g \in Fibers \ {f} : place'[g] = place[g]
      BY <1>2, <1>5, <2>1, <2>2
    <3> QED
      BY <1>0, <2>1, <3>1, SameLane
  <2>3. CASE Discard(f, "ended")
    <3>1. /\ place' \in [Fibers -> Places] /\ Pooled' /\ place'[f] # "queued"
          /\ \A g \in Fibers \ {f} : place'[g] = place[g]
      BY <1>1, <1>6, <2>1, <2>3
    <3> QED
      BY <1>0, <2>1, <3>1, SameLane
  <2> QED
    BY <1>11, <2>2, <2>3 DEF EvalPrepared
<1>12. ASSUME NEW f \in Fibers, EncodeSized(f) PROVE FramesInv'
  <2>1. place[f] = "sized" /\ f \notin Holders /\ UNCHANGED laneVars /\ free \in Nat
    BY <1>12, <1>4 DEF EncodeSized, Pooled
  <2>2. CASE Moves(f, "framed") /\ free # 0 /\ free' = free - 1
    <3>1. /\ place' \in [Fibers -> Places] /\ Pooled' /\ place'[f] = "framed"
          /\ \A g \in Fibers \ {f} : place'[g] = place[g]
      BY <1>3, <2>1, <2>2
    <3> QED
      BY <1>0, <2>1, <3>1, SameLane
  <2>3. CASE Moves(f, "ended") /\ UNCHANGED free
    <3>1. /\ place' \in [Fibers -> Places] /\ Pooled' /\ place'[f] = "ended"
          /\ \A g \in Fibers \ {f} : place'[g] = place[g]
      BY <1>2, <1>6, <2>1, <2>3
    <3> QED
      BY <1>0, <2>1, <3>1, SameLane
  <2> QED
    BY <1>12, <2>2, <2>3 DEF EncodeSized
<1>13. ASSUME NEW f \in Fibers, Enqueue(f) PROVE FramesInv'
  <2>1. place[f] = "framed" /\ f \in Holders
    BY <1>13, <1>4 DEF Enqueue
  <2>2. CASE Discard(f, "ended") /\ UNCHANGED laneVars
    <3>1. /\ place' \in [Fibers -> Places] /\ Pooled' /\ place'[f] # "queued"
          /\ \A g \in Fibers \ {f} : place'[g] = place[g]
      BY <1>1, <1>6, <2>1, <2>2
    <3> QED
      BY <1>0, <2>1, <2>2, <3>1, SameLane
  <2>3. CASE /\ Admits(f) /\ held' = (held + Weight[f]) % Word
             /\ requests' = Append(requests, f) /\ Moves(f, "queued") /\ UNCHANGED free
    <3>1. /\ place' \in [Fibers -> Places] /\ Pooled' /\ place'[f] = "queued"
          /\ \A g \in Fibers \ {f} : place'[g] = place[g]
      BY <1>2, <1>5, <2>1, <2>3
    <3>2. Queued' /\ Weighed'
      BY <2>1, <2>3, <3>1, RequestJoins
    <3> QED
      BY <1>0, <3>1, <3>2
  <2> QED
    BY <1>13, <2>2, <2>3 DEF Enqueue
<1>14. ASSUME NEW f \in Fibers,
              \/ Sent(f)
              \/ Cancel(f)
       PROVE  FramesInv'
  <2>1. /\ place[f] # "queued" /\ f \in Holders /\ Discard(f, "ended") /\ UNCHANGED laneVars
    BY <1>14, <1>4 DEF Sent, Cancel
  <2>2. /\ place' \in [Fibers -> Places] /\ Pooled' /\ place'[f] # "queued"
        /\ \A g \in Fibers \ {f} : place'[g] = place[g]
    BY <1>1, <1>6, <2>1
  <2> QED
    BY <1>0, <2>1, <2>2, SameLane
<1>15. ASSUME NEW f \in Fibers, Leave(f) PROVE FramesInv'
  <2>1. /\ place[f] = "waiting" /\ f \notin Holders /\ Moves(f, "ended")
        /\ UNCHANGED <<laneVars, free>>
    BY <1>15, <1>4 DEF Leave
  <2>2. /\ place' \in [Fibers -> Places] /\ Pooled' /\ place'[f] = "ended"
        /\ \A g \in Fibers \ {f} : place'[g] = place[g]
    BY <1>2, <1>6, <2>1
  <2> QED
    BY <1>0, <2>1, <2>2, SameLane
<1>16. ASSUME UNCHANGED <<place, free, requests, held>> PROVE FramesInv'
  <2>1. Holders' = Holders
    BY <1>16 DEF Holders, Holds, Fibers
  <2>2. Queued' /\ Weighed'
    BY <1>16, IdleLane
  <2> QED
    BY <1>0, <1>16, <2>1, <2>2, KeptFrames
<1>17. requests # <<>> => /\ Head(requests) \in Fibers /\ place[Head(requests)] = "queued"
                          /\ Head(requests) \in Holders
  <2> SUFFICES ASSUME requests # <<>>
               PROVE  /\ Head(requests) \in Fibers /\ place[Head(requests)] = "queued"
                      /\ Head(requests) \in Holders
    OBVIOUS
  <2>1. /\ Head(requests) \in Fibers /\ 1 \in 1 .. Len(requests)
        /\ Head(requests) = requests[1]
    BY DEF Queued
  <2>2. place[Head(requests)] = "queued"
    BY <2>1 DEF Queued
  <2> QED
    BY <1>4, <2>1, <2>2
<1>18. ASSUME Drain PROVE FramesInv'
  <2> DEFINE f == Head(requests)
  <2>1. requests # <<>> /\ UNCHANGED free
    BY <1>18 DEF Drain
  <2>2. CASE Moves(f, "out") /\ requests' = Tail(requests) /\ held' = Refunded(f)
    <3>1. /\ place' \in [Fibers -> Places] /\ Pooled' /\ place'[f] = "out"
          /\ \A g \in Fibers \ {f} : place'[g] = place[g]
      BY <1>2, <1>5, <1>17, <2>1, <2>2
    <3>2. Queued' /\ Weighed'
      BY <2>1, <2>2, <3>1, HeadLeaves
    <3> QED
      BY <1>0, <3>1, <3>2
  <2>3. CASE held' = Restored(f) /\ UNCHANGED <<place, requests>>
    BY <1>16, <2>1, <2>3 DEF Restored
  <2> QED
    BY <1>18, <2>2, <2>3 DEF Drain
<1>19. ASSUME ClearSend PROVE FramesInv'
  <2> DEFINE f == Head(requests)
  <2>1. /\ requests # <<>> /\ Discard(f, "ended")
        /\ requests' = Tail(requests) /\ held' = Refunded(f)
    BY <1>19 DEF ClearSend
  <2>2. /\ place' \in [Fibers -> Places] /\ Pooled' /\ place'[f] # "queued"
        /\ \A g \in Fibers \ {f} : place'[g] = place[g]
    BY <1>1, <1>6, <1>17, <2>1
  <2>3. Queued' /\ Weighed'
    BY <2>1, <2>2, HeadLeaves
  <2> QED
    BY <1>0, <2>2, <2>3
<1>20. ASSUME \/ \E f \in Fibers : Expire(f)
              \/ LinkUp
              \/ LinkDown
              \/ UNCHANGED frameVars
       PROVE  UNCHANGED <<place, free, requests, held>>
  BY <1>20 DEF Expire, LinkUp, LinkDown, frameVars, laneVars
<1> QED
  BY <1>10, <1>11, <1>12, <1>13, <1>14, <1>15, <1>16, <1>18, <1>19, <1>20 DEF FramesNext

(* No frame of the bulk pool is lost or handed out twice, and the weight   *)
(* charged to a request lane is that of its entries, for any fibers, any   *)
(* weights and any size of the pool and of a usize.                        *)
THEOREM FramesExactCorrect == FramesSpec => []FramesExact
<1>1. FramesInv => FramesExact
  <2> SUFFICES ASSUME FramesInv PROVE FramesExact
    OBVIOUS
  <2>1. ChargeExact
    BY DEF FramesInv, Weighed, ChargeExact
  <2> QED
    BY <2>1 DEF FramesInv, Pooled, FramesExact, Holders
<1> QED
  BY <1>1, FramesInitial, FramesStep, PTL DEF FramesSpec
=============================================================================
