------------------------------ MODULE RedisWire ------------------------------
(***************************************************************************)
(* One Redis connection as its session sees it (client/logic,              *)
(* protocol/mod.rs): the handshake that Plan replays on every connection,  *)
(* the bytes that arrive, with the receipt taken when they arrive, the     *)
(* frontier that decides which commands they may answer, and the end of    *)
(* input.  The pool around the connection is RedisRoutes; the text of the  *)
(* frames is RespParser.  A frame here is one or two pieces of bytes.      *)
(***************************************************************************)
EXTENDS Naturals, Sequences, SequencesExt

CONSTANTS
    Commands,    \* how many commands the application publishes
    Strays,      \* how many frames the peer may send without a request
    MaxLives     \* how many times the connection is opened

VARIABLES
    plan,        \* the steps of the handshake that are configured
    stage,       \* ConnState: the phase of the session and its step
    link,        \* the route: "vacant", "initializing", "serving", "closing"
    failure,     \* the recorded cause of a closing route
    retry,       \* the policy of the requested close
    lane,        \* commands published and not answered, oldest first
    published,   \* how many commands were published
    frontier,    \* the cutoffs of the first and the last staged bytes
    sent,        \* requests the peer has not answered
    net,         \* pieces under way to the client
    eof,         \* the peer closed its side
    inbox,       \* pieces read, with their receipts, not yet staged
    staged,      \* pieces in the decoder
    turn,        \* staged bytes were not flushed yet
    lives, strays,
    done,        \* history: steps answered by bytes that followed them
    began        \* history: commands published when a reply began to arrive

conn == <<stage, link, failure, retry, frontier, turn>>
peer == <<sent, net, eof, strays>>
input == <<inbox, staged>>
fixed == <<plan, lives>>
past == <<done, began>>
wireVars == <<conn, peer, input, fixed, past, lane, published>>

Steps == 1 .. 3      \* Authenticate, Select, SetClientName
None == 0            \* Cutoff::EMPTY, or no step
Unanswered == Commands + 1

Offline == <<"Offline", None>>
Unsolicited == <<"Unsolicited", None>>
Ready == <<"Ready", None>>

(* The piece of a frame: its kind, whether it starts and ends the frame.   *)
Piece(kind, starts, ends) == [kind |-> kind, starts |-> starts, ends |-> ends]
Frame(kind) ==
    {<<Piece(kind, TRUE, TRUE)>>, <<Piece(kind, TRUE, FALSE), Piece(kind, FALSE, TRUE)>>}

(* Plan::first and Plan::next: the configured step after this one.         *)
Following(after) ==
    LET rest == {s \in plan : s > after}
    IN  IF rest = {} THEN None ELSE CHOOSE s \in rest : \A t \in rest : s <= t

-----------------------------------------------------------------------------
(* Failures *)

(* Failure::start_policy for the causes that can end a handshake.          *)
StartPolicy(cause) ==
    IF cause \in {"protocol", "handshake", "unexpected", "request", "reserve"}
    THEN "permanent" ELSE "reconnect"

(* Mutant: the policy of a start is used at any time.                      *)
ReplyPolicyStart(cause) == StartPolicy(cause)
(* reply::fail: a connection that served is opened again.                  *)
ReplyPolicy(cause) ==
    IF stage \in {Offline, Ready} THEN "reconnect" ELSE StartPolicy(cause)

(* Routes::fail: a remote close is refined by what the end of input shows. *)
Refines(cause) == failure = "remote" /\ cause = "truncated"

(* Routes::fail records the cause once.                                    *)
FailRoute(cause) ==
    IF link \in {"initializing", "serving"}
    THEN link' = "closing" /\ failure' = cause
    ELSE /\ failure' = IF link = "closing" /\ Refines(cause) THEN cause ELSE failure
         /\ UNCHANGED link

(* reply::fail and Plan::fail: request a close, then fail the route.  The  *)
(* first requested policy is the one the driver keeps.                     *)
Fail(cause, policy) ==
    /\ FailRoute(cause)
    /\ retry' = IF retry = "open" THEN policy ELSE retry

-----------------------------------------------------------------------------
(* The handshake *)

(* Plan::begin sends the command of a step; the egress may refuse it.      *)
Begin(step) ==
    /\ stage' = <<"Init", step>>
    /\ \/ sent' = Append(sent, [step |-> step]) /\ UNCHANGED <<link, failure, retry>>
       \/ Fail("request", StartPolicy("request")) /\ UNCHANGED sent

(* Plan::ready: the route serves with an empty frontier.                   *)
BecomeReady ==
    /\ IF link = "initializing"
       THEN link' = "serving" /\ frontier' = <<None, None>> /\ stage' = Ready
            /\ UNCHANGED <<failure, retry>>
       ELSE Fail("unexpected", StartPolicy("unexpected")) /\ UNCHANGED <<frontier, stage>>
    /\ UNCHANGED sent

(* Register::register: the driver opened a connection and its slot is      *)
(* bound.                                                                  *)
Register ==
    /\ link = "vacant" /\ lives < MaxLives /\ retry # "permanent"
    /\ link' = "initializing"
    /\ lives' = lives + 1
    /\ failure' = "none" /\ retry' = "open" /\ eof' = FALSE
    /\ UNCHANGED <<plan, stage, frontier, turn, input, past, lane, published, sent, net, strays>>

(* Connected::connect and Plan::start: the first step, or no handshake.    *)
Connect ==
    /\ link = "initializing" /\ stage = Offline
    /\ LET first == Following(None)
       IN  IF first = None THEN BecomeReady ELSE Begin(first) /\ UNCHANGED frontier
    /\ UNCHANGED <<turn, net, eof, strays, input, fixed, past, lane, published>>

-----------------------------------------------------------------------------
(* The peer and the application *)

(* A reply to the oldest request: +OK or an error for a step.              *)
Answer ==
    /\ sent # <<>> /\ ~eof /\ Len(net) <= 2
    /\ \E kind \in IF "step" \in DOMAIN Head(sent) THEN {"ok", "error"} ELSE {"value"} :
         \E pieces \in Frame(kind) : net' = net \o pieces
    /\ sent' = Tail(sent)
    /\ UNCHANGED <<conn, input, fixed, past, lane, published, eof, strays>>

(* A frame nobody asked for.                                               *)
Stray ==
    /\ link # "vacant" /\ strays < Strays /\ ~eof /\ Len(net) <= 2
    /\ strays' = strays + 1
    /\ \E pieces \in Frame("ok") : net' = net \o pieces
    /\ UNCHANGED <<conn, input, fixed, past, lane, published, sent, eof>>

(* The peer closes, perhaps in the middle of a frame.                      *)
PeerCloses ==
    /\ link # "vacant" /\ ~eof
    /\ eof' = TRUE
    /\ \E keep \in {0, 1} : keep <= Len(net) /\ net' = SubSeq(net, 1, Len(net) - keep)
    /\ UNCHANGED <<conn, input, fixed, past, lane, published, sent, strays>>

(* Schedule::try_pool publishes a command: its reply joins the lane.       *)
Publish ==
    /\ link = "serving" /\ published < Commands
    /\ published' = published + 1
    /\ lane' = Append(lane, published')
    /\ sent' = Append(sent, [command |-> published'])
    /\ UNCHANGED <<conn, input, fixed, past, net, eof, strays>>

-----------------------------------------------------------------------------
(* Input *)

(* Mutant: the receipt is taken when the bytes are staged.                 *)
CutoffLate(receipt) == IF lane = <<>> THEN None ELSE Last(lane)
Cutoff(receipt) == receipt.cutoff

(* The step whose reply is awaited.                                        *)
Awaited == IF stage[1] = "Init" THEN stage[2] ELSE None

(* Spec::receipt: bytes arrive; the step and the newest command awaited at *)
(* that moment are remembered with them.                                   *)
Receive(n) ==
    /\ n <= Len(net) /\ Len(inbox) < 2
    /\ stage # Offline     \* the driver reads once connect returned
    /\ inbox' = Append(inbox,
          [pieces |-> [i \in 1 .. n |-> [piece |-> net[i], at |-> published, step |-> Awaited]],
           step |-> Awaited,
           cutoff |-> IF lane = <<>> THEN None ELSE Last(lane)])
    /\ net' = SubSeq(net, n + 1, Len(net))
    /\ UNCHANGED <<conn, staged, fixed, past, lane, published, sent, eof, strays>>

(* A whole frame is staged.                                                *)
FrameStaged == \E i \in 1 .. Len(staged) : staged[i].piece.ends
Boundary ==
    CHOOSE i \in 1 .. Len(staged) :
        staged[i].piece.ends /\ \A j \in 1 .. i - 1 : ~staged[j].piece.ends

(* Mutant: any bytes that arrived during the handshake are trusted.        *)
IsUnsolicitedNever(receipt, prefix) == FALSE
(* ConnState::received: bytes that arrived before the step they would      *)
(* answer was sent, or between two steps, were not asked for.              *)
IsUnsolicited(receipt, prefix) ==
    /\ ~prefix
    /\ \/ stage[1] = "Init" /\ receipt.step # stage[2]
       \/ stage[1] = "Advance"

(* Mutant: the test for a prefix is inverted.                              *)
AdvancedFrontierSwapped(cut, prefix) == <<IF prefix THEN cut ELSE frontier[1], cut>>
(* Schedule::received: the last cutoff covers the new bytes, the first the *)
(* bytes that were already staged.                                         *)
AdvancedFrontier(cut, prefix) == <<IF prefix THEN frontier[1] ELSE cut, cut>>

(* Spec::received, as the bytes reach a decoder that holds at most the     *)
(* start of a frame.                                                       *)
Received ==
    /\ inbox # <<>> /\ ~turn /\ ~FrameStaged /\ link # "vacant"
    /\ LET receipt == Head(inbox)
           prefix == staged # <<>>
           known == Cutoff(receipt) \in Range(lane)
           cut == IF known THEN Cutoff(receipt) ELSE None
       IN  /\ stage' = IF IsUnsolicited(receipt, prefix) THEN Unsolicited ELSE stage
           /\ frontier' = IF link = "serving" THEN AdvancedFrontier(cut, prefix) ELSE frontier
           /\ staged' = staged \o receipt.pieces
    /\ inbox' = Tail(inbox)
    /\ turn' = TRUE
    /\ UNCHANGED <<link, failure, retry, peer, fixed, past, lane, published>>

(* Plan::response: only +OK completes a step.                              *)
StepReply(kind, during) ==
    LET step == stage[2]
    IN  IF kind = "ok"
        THEN /\ stage' = <<"Advance", step>>
             /\ done' = done \cup (IF during = step THEN {step} ELSE {})
             /\ UNCHANGED <<link, failure, retry>>
        ELSE /\ Fail("handshake", StartPolicy("handshake"))
             /\ UNCHANGED <<stage, done>>

(* Mutant: the frontier is left alone by a reply.                          *)
AnsweredFrontierKept == frontier
(* Schedule::try_reply: once the command of the last cutoff is answered,   *)
(* nothing that is staged may answer another.                              *)
AnsweredFrontier ==
    LET last == IF Head(lane) = frontier[2] THEN None ELSE frontier[2] IN <<last, last>>

(* Schedule::try_input: the start of a frame needs a command to answer.    *)
Unawaited == link = "serving" /\ frontier[1] = None

(* Schedule::try_reply through reply::push: the frame answers the oldest   *)
(* command if the frontier allows.  A closing route has no frontier.       *)
CommandReply(at) ==
    IF Unawaited \/ lane = <<>>
    THEN Fail("front", ReplyPolicy("front")) /\ UNCHANGED <<lane, frontier, began>>
    ELSE /\ lane' = Tail(lane)
         /\ IF link = "serving"
            THEN frontier' = AnsweredFrontier /\ began' = [began EXCEPT ![Head(lane)] = at]
            ELSE UNCHANGED <<frontier, began>>
         /\ UNCHANGED <<link, failure, retry>>

(* Codec::decode and reply::deliver for the frame at the front.            *)
DeliverFrame ==
    /\ turn /\ FrameStaged /\ link # "vacant"
    /\ LET kind == staged[Boundary].piece.kind
       IN  /\ staged' = SubSeq(staged, Boundary + 1, Len(staged))
           /\ CASE stage[1] = "Init" ->
                     StepReply(kind, staged[1].step) /\ UNCHANGED <<lane, frontier, began>>
                [] stage = Ready ->
                     CommandReply(staged[1].at) /\ UNCHANGED <<stage, done>>
                [] OTHER ->
                     /\ Fail("unexpected", ReplyPolicy("unexpected"))
                     /\ UNCHANGED <<lane, frontier, began, stage, done>>
    /\ UNCHANGED <<turn, peer, inbox, fixed, published>>

(* Plan::advance: the next step is sent only when nothing more was read.   *)
Advance(partial) ==
    LET next == Following(stage[2])
    IN  CASE retry # "open" -> UNCHANGED <<stage, link, failure, retry, frontier, sent>>
          [] retry = "open" /\ partial ->
               /\ Fail("unexpected", StartPolicy("unexpected"))
               /\ UNCHANGED <<stage, frontier, sent>>
          [] retry = "open" /\ ~partial /\ next = None -> BecomeReady
          [] OTHER -> Begin(next) /\ UNCHANGED frontier

(* Output::flush once everything staged was decoded.                       *)
Flush ==
    /\ turn /\ ~FrameStaged /\ link # "vacant"
    /\ turn' = FALSE
    /\ LET partial == staged # <<>>
       IN  IF stage[1] = "Advance"
           THEN Advance(partial)
           ELSE /\ IF partial /\ IF stage = Unsolicited THEN retry = "open" ELSE Unawaited
                   THEN Fail("unexpected", ReplyPolicy("unexpected"))
                   ELSE UNCHANGED <<link, failure, retry>>
                /\ UNCHANGED <<stage, frontier, sent>>
    /\ UNCHANGED <<net, eof, strays, input, fixed, past, lane, published>>

-----------------------------------------------------------------------------
(* The end of a connection *)

(* Lifecycle::io_fail and transmit_failed.                                 *)
LinkFails ==
    /\ link \in {"initializing", "serving"}
    /\ \E cause \in {"receive", "transmit"} : Fail(cause, "reconnect")
    /\ UNCHANGED <<stage, frontier, turn, peer, input, fixed, past, lane, published>>

(* Requests::drain: the transport has no room for a request.               *)
DrainFails ==
    /\ link = "serving" /\ lane # <<>>
    /\ Fail("reserve", "reconnect")
    /\ UNCHANGED <<stage, frontier, turn, peer, input, fixed, past, lane, published>>

(* Scheduling::inbound: input is awaited during the handshake and while a  *)
(* command has no reply; silence then ends the connection.                 *)
TimesOut ==
    /\ link \in {"initializing", "serving"}
    /\ stage[1] \in {"Init", "Advance", "Unsolicited"} \/ lane # <<>>
    /\ Fail("timeout", "reconnect")
    /\ UNCHANGED <<stage, frontier, turn, peer, input, fixed, past, lane, published>>

(* The driver saw the end of input: Lifecycle::quarantine fails the route  *)
(* as a remote close, then Codec::finish inspects what is left.            *)
EndOfInput ==
    /\ eof /\ net = <<>> /\ inbox = <<>> /\ ~turn
    /\ link \in {"initializing", "serving"}
    /\ link' = "closing"
    /\ failure' = "remote"
    /\ retry' = IF retry = "open" THEN "reconnect" ELSE retry
    /\ UNCHANGED <<stage, frontier, turn, peer, input, fixed, past, lane, published>>

Finish ==
    /\ link = "closing" /\ eof /\ net = <<>> /\ inbox = <<>> /\ staged # <<>> /\ ~turn
    /\ FailRoute("truncated")
    /\ staged' = <<>>
    /\ UNCHANGED <<stage, retry, frontier, turn, peer, inbox, fixed, past, lane, published>>

(* Lifecycle::clear_recv fails what is left of the lane and disconnect     *)
(* retires the route.                                                      *)
Disconnect ==
    /\ link = "closing"
    /\ failure = "remote" => staged = <<>>
    /\ link' = "vacant" /\ stage' = Offline
    /\ lane' = <<>> /\ sent' = <<>> /\ net' = <<>> /\ inbox' = <<>> /\ staged' = <<>>
    /\ turn' = FALSE /\ frontier' = <<None, None>> /\ done' = {}
    /\ UNCHANGED <<failure, retry, eof, strays, fixed, began, published>>

WireInit ==
    /\ plan \in SUBSET Steps
    /\ stage = Offline /\ link = "vacant" /\ failure = "none" /\ retry = "open"
    /\ frontier = <<None, None>> /\ turn = FALSE
    /\ lane = <<>> /\ published = 0
    /\ sent = <<>> /\ net = <<>> /\ eof = FALSE /\ strays = 0
    /\ inbox = <<>> /\ staged = <<>> /\ lives = 0
    /\ done = {} /\ began = [c \in 1 .. Commands |-> Unanswered]

WireNext ==
    \/ Register \/ Connect \/ Answer \/ Stray \/ PeerCloses \/ Publish
    \/ \E n \in 1 .. 3 : Receive(n)
    \/ Received \/ DeliverFrame \/ Flush
    \/ LinkFails \/ DrainFails \/ TimesOut \/ EndOfInput \/ Finish \/ Disconnect

WireSpec == WireInit /\ [][WireNext]_wireVars

-----------------------------------------------------------------------------
(* Properties *)

(* The bytes of a reply began to arrive only after the command it answers  *)
(* was published: what a connection read ahead of a command (Schedule::    *)
(* received, try_reply) never answers it, wherever the reads are cut.      *)
NoEarlyReply == \A c \in 1 .. Commands : began[c] >= c

(* A connection serves only after every configured step of the handshake   *)
(* was answered +OK by bytes that began to arrive after the step was sent  *)
(* (Plan, ConnState): a server that speaks ahead passes no step.           *)
HandshakeFirst == link = "serving" => done = plan

(* A peer that only answers what it was asked, in order, is never refused: *)
(* neither the frontier nor the handshake takes its bytes for unsolicited. *)
OrderlyAccepted ==
    strays = 0 => failure \notin {"unexpected", "front"}

(* A connection that served is opened again whatever ended it; only a      *)
(* start that failed is given up (reply::fail, Failure::start_policy).     *)
ServedRetries ==
    [][link = "serving" /\ link' = "closing" => retry' # "permanent"]_wireVars

(* Bytes answer what was asked, wherever reads and sends are cut: no reply *)
(* from before its command was published, no service before every step of  *)
(* the handshake was answered, no orderly peer refused, and a connection   *)
(* that served is opened again.                                            *)
WireSound == [](NoEarlyReply /\ HandshakeFirst /\ OrderlyAccepted) /\ ServedRetries
=============================================================================
