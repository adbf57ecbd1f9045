----------------------------- MODULE UdsDialogue -----------------------------
(***************************************************************************)
(* The diagnostic client and the simulated server, each behind its own     *)
(* ISO-TP sender and receiver, and a bus in each direction.                *)
(*                                                                         *)
(* The loop that drives both, in the command line tool and in the tests,   *)
(* polls the client and feeds what it returns to the server, polls the     *)
(* server and feeds what it returns to the client, and moves the clock.    *)
(* There are three ways to run the two: in that loop (for everyday use or  *)
(* to program the ECU), in that loop with frames lost, and over a bus,     *)
(* polled and fed in any order.                                            *)
(***************************************************************************)
EXTENDS UdsServer
LOCAL INSTANCE Functions

CONSTANTS
  P2, P2Star, MaxResponsePending, S3, Keepalive,  \* see UdsClient
  Asks      \* for some of the ways, the requests made, a bound on their number,
            \* and whether one may be made again

Ways == {"loop", "programming loop", "lossy loop", "bus"}

ASSUME DialogueInputs ==
  /\ DOMAIN Asks \subseteq Ways
  /\ \A w \in DOMAIN Asks : Asks[w] \in [of : SUBSET Requests, most : Nat, again : BOOLEAN]

VARIABLES
  way,              \* one of Ways, the same throughout
  cli, csnd, crcv,  \* the client
  toServer,         \* its frames; outbox holds the server's
  turn,             \* whose turn it is in the loop
  talk              \* an observer: requests made, what became of the last

clientSide == <<cli, csnd, crcv>>
serverSide == <<ecu, reply, snd, rcv, sending>>
vars == <<way, clientSide, serverSide, toServer, outbox, turn, talk>>

C == INSTANCE UdsClient WITH snd <- csnd, rcv <- crcv, outbox <- toServer, PeerFrames <- {}

(* asked and handled hold what the tester has asked and the server has     *)
(* handled so far, answers what it has answered to the last request.       *)
Init ==
  /\ way \in DOMAIN Asks
  /\ ServerInit /\ C!ClientInit
  /\ turn = "client"
  /\ talk = [asked |-> <<>>, handled |-> <<>>, answers |-> {}]

-----------------------------------------------------------------------------
Pumped == way # "bus"
Takes(who) == Pumped => turn = who
Passes(who) == turn' = IF Pumped THEN who ELSE turn

(* The tester makes a request between two rounds of the loop.              *)
Ask(q) ==
  /\ q \in Asks[way].of /\ Len(talk.asked) < Asks[way].most
  /\ Asks[way].again \/ q \notin Range(talk.asked)
  /\ Pumped => turn \in {"client", "clock"} /\ outbox = <<>>
  /\ C!Ask(q)
  /\ Passes("client")
  /\ talk' = [talk EXCEPT !.asked = Append(@, q), !.answers = {}]
  /\ UNCHANGED <<way, serverSide, outbox>>

PollClient ==
  /\ Takes("client")
  /\ C!ClientPoll
  /\ Passes("server")
  /\ UNCHANGED <<way, serverSide, outbox, talk>>

(* What the server makes of a complete request that is not a keepalive,    *)
(* for the observer.                                                       *)
FinalAnswer ==
  IF reply' # <<>> /\ reply'[1] = NegativeResponse /\ reply'[3] = ResponsePending
  THEN ecu'.deferred ELSE reply'
Witnessed(f) ==
  IF ~sending /\ R!Completes(f) /\ R!Message(f) # C!PresentPayload
  THEN [talk EXCEPT !.handled = Append(@, R!Message(f)),
                    !.answers = IF R!Message(f) = cli.request THEN @ \cup {FinalAnswer}
                                ELSE @]
  ELSE talk

FeedServer ==
  /\ toServer # <<>>
  /\ ServerOnFrame(Head(toServer))
  /\ toServer' = Tail(toServer)
  /\ talk' = Witnessed(Head(toServer))
  /\ UNCHANGED <<way, clientSide, outbox, turn>>

PollServer ==
  /\ Takes("server")
  /\ Pumped => toServer = <<>>
  /\ ServerPoll
  /\ Passes("clock")
  /\ UNCHANGED <<way, clientSide, toServer, talk>>

FeedClient ==
  /\ outbox # <<>>
  /\ C!ClientOnFrame(Head(outbox))
  /\ outbox' = Tail(outbox)
  /\ UNCHANGED <<way, serverSide, toServer, turn, talk>>

LoseFrame ==
  /\ way = "lossy loop"
  /\ \/ toServer # <<>> /\ toServer' = Tail(toServer) /\ UNCHANGED outbox
     \/ outbox # <<>> /\ outbox' = Tail(outbox) /\ UNCHANGED toServer
  /\ UNCHANGED <<way, clientSide, serverSide, turn, talk>>

Quiet ==
  /\ toServer = <<>> /\ outbox = <<>>
  /\ Pumped \/ (~C!ClientPollDue /\ ~ServerPollDue)

Elapse ==
  /\ Takes("clock") /\ Quiet
  /\ C!ClientElapse /\ ServerElapse
  /\ Passes("client")
  /\ UNCHANGED <<way, toServer, outbox, talk>>

Next ==
  \/ \E q \in Requests : Ask(q)
  \/ PollClient \/ PollServer
  \/ FeedServer \/ FeedClient \/ LoseFrame
  \/ Elapse

Spec == Init /\ [][Next]_vars

(* The loop goes on.                                                       *)
Fairness ==
  /\ WF_vars(PollClient) /\ WF_vars(PollServer)
  /\ WF_vars(FeedServer) /\ WF_vars(FeedClient)
  /\ WF_vars(Elapse)

FairSpec == Spec /\ Fairness

-----------------------------------------------------------------------------
(* The message the client took for the answer.                             *)
Answer ==
  IF cli.response.positive THEN <<cli.response.service>> \o cli.response.data
  ELSE <<NegativeResponse, cli.response.service, cli.response.nrc>>

(* The answer a request completes with is the server's answer to that very *)
(* request: not a late one, not that to a keepalive, not a piece of it.    *)
(* And where the client goes without an answer the server gives none, or a *)
(* refusal: their two lists of services with a sub-function agree          *)
(* (Client::on_message(), UdsServer::handle()).                            *)
AnswersThisRequest ==
  cli.state = "Complete" =>
    IF cli.expect THEN Answer \in talk.answers
    ELSE \A a \in talk.answers : a = <<>> \/ a[1] = NegativeResponse

(* But for keepalives the server handles what was asked, as it was asked,  *)
(* in that order and each request at most once.                            *)
HandledAsAsked ==
  \E when \in [DOMAIN talk.handled -> DOMAIN talk.asked] :
    /\ \A i \in DOMAIN when : talk.handled[i] = talk.asked[when[i]]
    /\ \A i, j \in DOMAIN when : i < j => when[i] < when[j]

(* Over a bus that loses nothing every request succeeds in being answered, *)
(* be it with a refusal: no timeout, no transport failure, no answer that  *)
(* is not understood.                                                      *)
LosslessNeverFails == way # "lossy loop" => cli.state # "Failed"

(* After a session change that was answered, both sides mean the same      *)
(* session.                                                                *)
SessionsAgree ==
  cli.state = "Complete" /\ cli.expect /\ cli.request[1] = DiagnosticSessionControl
    => cli.session = ecu.session

(* "The server drops out of a non-default session after this long without  *)
(* traffic": as long as the client holds one it does not let S3 pass.  (A  *)
(* request that fails, as one may when frames are lost, stops keepalives.) *)
SessionHeld ==
  way # "lossy loop" /\ cli.session # DefaultSession /\ ~C!Busy => cli.idle <= S3

(* Client and server share a session: set by an answered request and held  *)
(* by the keepalive for as long as the client is idle (Client::poll(),     *)
(* UdsServer::diagnostic_session_control()).                               *)
SessionIsShared == SessionsAgree /\ SessionHeld

(* Whatever is lost, the tester gets its client back.                      *)
EveryRequestEnds == C!Busy ~> ~C!Busy
=============================================================================
