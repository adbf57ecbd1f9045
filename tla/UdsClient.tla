------------------------------ MODULE UdsClient ------------------------------
(***************************************************************************)
(* uds::Client: one request and its answer at a time, over an ISO-TP       *)
(* sender and receiver of its own.                                         *)
(*                                                                         *)
(* Like them it is driven by poll() and on_frame(); the frames poll()      *)
(* returns are appended to outbox.  Time is counted in the ticks of IsoTp. *)
(* Standing alone, the module puts the client against a peer that may send *)
(* anything in PeerFrames at any moment.                                   *)
(***************************************************************************)
EXTENDS IsoTp, Uds

CONSTANTS
  P2, P2Star,         \* ClientConfig::p2_ns, p2_star_ns
  MaxResponsePending, \* ClientConfig::max_response_pending, 0 for no limit
  S3,                 \* ClientConfig::s3_ns
  Keepalive           \* ClientConfig::tester_present_keepalive

(* With an invalid Config every request would fail as it is made.         *)
ASSUME ClientInputs ==
  /\ Byte = Octet /\ ConfigValid
  /\ P2 \in Nat \ {0} /\ P2Star \in Nat \ {0} /\ MaxResponsePending \in Nat
  /\ S3 \in Nat /\ 2 * S3 >= 5 /\ Keepalive \in BOOLEAN

VARIABLES
  cli,    \* the members of Client, but for its two protocol objects
  snd, rcv,
  outbox

clientVars == <<cli, snd, rcv, outbox>>

S == INSTANCE IsoTpSender WITH Messages <- Requests
R == INSTANCE IsoTpReceiver WITH controls <- outbox

NoResponse == [positive |-> FALSE, service |-> 0, nrc |-> 0, data |-> <<>>, pending_count |-> 0]

(* idle is now - last_activity_ns_; past S3 it need not be told apart.     *)
ClientInit ==
  /\ cli = [state |-> "Idle", request |-> <<>>, expect |-> TRUE, response |-> NoResponse,
            failure |-> "none", deadline |-> 0, pending |-> 0,
            session |-> DefaultSession, idle |-> 0]
  /\ snd = S!FreshSender /\ rcv = R!FreshReceiver /\ outbox = <<>>

Busy == cli.state \in {"Sending", "AwaitingResponse"}
RequestedService == cli.request[1]

Failing(c, error) == [c EXCEPT !.failure = error, !.state = "Failed"]
Finishing(c, response) ==
  [c EXCEPT !.response = [response EXCEPT !.pending_count = c.pending],
            !.state = "Complete"]

-----------------------------------------------------------------------------
(* The client has a list of its own of the services whose second byte may  *)
(* ask the server to stay silent.                                          *)
MaySilence(service) ==
  service \in {DiagnosticSessionControl, EcuReset, SecurityAccess, CommunicationControl,
               RoutineControl, TesterPresent, ReadDtcInformation}
ExpectsAnswer(q) == ~MaySilence(q[1]) \/ Len(q) < 2 \/ q[2] < SuppressBit

(* request(): refused while one is in flight, and when it is empty.        *)
AskSlip(q) ==   \* the receiver is not reset
  /\ ~Busy /\ q # <<>>
  /\ snd' = S!Begun(S!FreshSender, q)
  /\ cli' = [cli EXCEPT !.request = q, !.expect = ExpectsAnswer(q),
                        !.response = NoResponse, !.pending = 0, !.state = "Sending",
                        !.deadline = P2, !.idle = 0]
  /\ UNCHANGED <<rcv, outbox>>

Ask(q) ==
  LET asked == [cli EXCEPT !.request = q, !.expect = ExpectsAnswer(q),
                           !.response = NoResponse, !.pending = 0, !.state = "Sending",
                           !.deadline = P2, !.idle = 0]
  IN  /\ ~Busy /\ q # <<>>
      /\ snd' = S!Begun(S!FreshSender, q)
      /\ cli' = asked
      /\ R!Reset

-----------------------------------------------------------------------------
(* handle_message().                                                       *)
PendingIsFinal(c) ==   \* a slip: 0x78 is taken for a refusal
  Finishing(c, [NoResponse EXCEPT !.service = RequestedService, !.nrc = ResponsePending])
OneMorePending(c) ==
  LET waited == [c EXCEPT !.pending = @ + 1]
  IN  IF MaxResponsePending # 0 /\ waited.pending > MaxResponsePending
      THEN Failing(waited, "Timeout")
      ELSE [waited EXCEPT !.deadline = P2Star]

OtherServiceSlip(message) == FALSE   \* any positive answer will do
OtherService(message) == message[1] # RequestedService + PositiveOffset
SessionToldSlip(c, data) == c.session   \* the session is not taken over
SessionTold(c, data) ==
  IF RequestedService = DiagnosticSessionControl /\ data # <<>>
  THEN data[1] % SuppressBit ELSE c.session

Understood(c, message) ==
  IF message = <<>> THEN Failing(c, "Semantic")
  ELSE IF message[1] = NegativeResponse
  THEN IF Len(message) < 3 THEN Failing(c, "Semantic")
       ELSE IF message[3] = ResponsePending THEN OneMorePending(c)
       ELSE Finishing(c, [NoResponse EXCEPT !.service = message[2], !.nrc = message[3]])
  ELSE IF OtherService(message) THEN Failing(c, "Semantic")
  ELSE LET data == SubSeq(message, 2, Len(message))
       IN  Finishing([c EXCEPT !.session = SessionTold(c, data)],
                     [NoResponse EXCEPT !.positive = TRUE, !.service = message[1],
                                        !.data = data])

-----------------------------------------------------------------------------
(* poll() while the request is going out.                                  *)
PollSending ==
  /\ cli.state = "Sending"
  /\ S!SenderPoll \/ (~S!SenderPollDue /\ UNCHANGED <<snd, outbox>>)
  /\ cli' = IF snd'.result = "InProgress" THEN cli
            ELSE IF snd'.result # "Ok" THEN Failing(cli, "Transport")
            ELSE IF ~cli.expect
            THEN Finishing(cli, [NoResponse EXCEPT !.positive = TRUE,
                                                   !.service = RequestedService])
            ELSE [cli EXCEPT !.state = "AwaitingResponse", !.deadline = P2]
  /\ UNCHANGED rcv

(* poll() while the answer is awaited: a whole message first, then a       *)
(* reception that failed, then the deadline.                               *)
TakeAnswer ==
  /\ cli.state = "AwaitingResponse"
  /\ rcv.result = "Ok"
  /\ cli' = Understood([cli EXCEPT !.idle = 0], rcv.payload)
  /\ R!Reset
  /\ UNCHANGED snd

PollAwaitingSlip ==   \* the deadline is not looked at
  /\ cli.state = "AwaitingResponse"
  /\ rcv.result # "Ok"
  /\ R!ReceiverPoll \/ (~R!ReceiverPollDue /\ UNCHANGED <<rcv, outbox>>)
  /\ cli' = IF rcv'.result # "InProgress" THEN Failing(cli, "Reassembly") ELSE cli
  /\ UNCHANGED snd

PollAwaiting ==
  /\ cli.state = "AwaitingResponse"
  /\ rcv.result # "Ok"
  /\ R!ReceiverPoll \/ (~R!ReceiverPollDue /\ UNCHANGED <<rcv, outbox>>)
  /\ cli' = IF rcv'.result # "InProgress" THEN Failing(cli, "Reassembly")
            ELSE IF cli.deadline = 0 THEN Failing(cli, "Timeout")
            ELSE cli
  /\ UNCHANGED snd

(* The keepalive goes out through a Sender that is thrown away.            *)
PresentPayload == PresentRequest(TRUE)
KeepaliveAfter == (2 * S3) \div 5
KeepaliveDue ==
  /\ Keepalive /\ cli.state = "Complete"
  /\ cli.session # DefaultSession /\ cli.idle >= KeepaliveAfter

PollKeepalive ==
  /\ KeepaliveDue
  /\ outbox' = Append(outbox, S!LaunchFrame(PresentPayload))
  /\ cli' = [cli EXCEPT !.idle = 0]
  /\ UNCHANGED <<snd, rcv>>

PollNothing ==
  /\ ~Busy /\ ~KeepaliveDue
  /\ UNCHANGED clientVars

ClientPoll ==
  PollSending \/ TakeAnswer \/ PollAwaiting \/ PollKeepalive \/ PollNothing

(* poll() would do something now.                                          *)
ClientPollDue ==
  \/ cli.state = "Sending" /\ (S!SenderPollDue \/ S!SenderDone)
  \/ /\ cli.state = "AwaitingResponse"
     /\ R!ReceiverDone \/ R!ReceiverPollDue \/ cli.deadline = 0
  \/ KeepaliveDue

-----------------------------------------------------------------------------
(* on_frame(): to the sender, to the receiver, or to nobody.               *)
ClientOnFrame(f) ==
  \/ cli.state = "Sending" /\ S!SenderOnFrame(f) /\ UNCHANGED <<cli, rcv>>
  \/ cli.state = "AwaitingResponse" /\ R!ReceiverOnFrame(f) /\ UNCHANGED <<cli, snd>>
  \/ ~Busy /\ UNCHANGED clientVars

(* One tick passes.                                                        *)
ClientAged(c) ==
  [c EXCEPT !.deadline = OneTickLess(@), !.idle = Smaller(@ + 1, S3 + 1)]
ClientElapse ==
  /\ cli' = ClientAged(cli)
  /\ snd' = S!SenderAged(snd)
  /\ rcv' = R!ReceiverAged(rcv)
=============================================================================
