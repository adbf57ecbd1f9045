---------------------------- MODULE UdsClientPeer ----------------------------
(***************************************************************************)
(* The client against a peer that may send any of PeerFrames at any        *)
(* moment, a tester that makes a request whenever the client is free, and  *)
(* an application that polls: no time passes while a poll is due or a      *)
(* frame waits to be sent.                                                 *)
(***************************************************************************)
EXTENDS UdsClient

VARIABLE seen

peerVars == <<clientVars, seen>>

(* waited: ticks since P2 or P2* was started; heard: the bytes the peer    *)
(* has sent of the message it is sending, since the request had gone out;  *)
(* announced: how many of them its first frame said make the message.      *)
NothingSeen == [waited |-> 0, announced |-> 0, heard |-> <<>>]

PeerInit == ClientInit /\ seen = NothingSeen

-----------------------------------------------------------------------------
Awaits == cli.state = "AwaitingResponse"

TesterAsks(q) == Ask(q) /\ UNCHANGED outbox /\ seen' = NothingSeen

(* A poll that starts, ends or prolongs the wait is a new beginning.       *)
Poll ==
  /\ outbox = <<>> /\ ClientPollDue
  /\ ClientPoll
  /\ seen' = IF Awaits /\ cli' = cli THEN seen ELSE NothingSeen

BusTakes ==
  /\ outbox # <<>>
  /\ outbox' = Tail(outbox)
  /\ UNCHANGED <<cli, snd, rcv, seen>>

PeerSends(f) ==
  /\ ClientOnFrame(f)
  /\ seen' = IF Awaits /\ R!ReceiverHears(f) /\ f.pci # "FC"
              THEN [seen EXCEPT !.announced = IF @ = 0 THEN f.num ELSE @,
                                !.heard = @ \o f.data]
              ELSE seen

Elapse ==
  /\ outbox = <<>> /\ ~ClientPollDue
  /\ ClientElapse /\ UNCHANGED outbox
  /\ seen' = IF Awaits THEN [seen EXCEPT !.waited = @ + 1] ELSE seen

PeerNext ==
  \/ \E q \in Requests : TesterAsks(q)
  \/ Poll \/ BusTakes \/ Elapse
  \/ \E f \in PeerFrames : PeerSends(f)

PeerSpec == PeerInit /\ [][PeerNext]_peerVars

(* The application polls and sends what it is given, and time passes.      *)
FairPeerSpec == PeerSpec /\ WF_peerVars(Poll) /\ WF_peerVars(BusTakes) /\ WF_peerVars(Elapse)

-----------------------------------------------------------------------------
HeardMessage == SubSeq(seen.heard, 1, seen.announced)

(* "One request/response exchange": an answer is made of what the peer     *)
(* sent after the request had gone out and of nothing older, however the   *)
(* request before it ended and whatever was left half received.            *)
AnswerWasHeard ==
  [][Awaits /\ cli'.state = "Complete" =>
       LET r == cli'.response
       IN  IF r.positive THEN HeardMessage = <<r.service>> \o r.data
           ELSE SubSeq(HeardMessage, 1, 3) = <<NegativeResponse, r.service, r.nrc>>]_peerVars

(* P2 is given in full and P2* after each responsePending, but no more     *)
(* than that, even while a segmented answer is coming in.                  *)
Patience == IF cli.pending = 0 THEN P2 ELSE P2Star
PatienceKept ==
  [][/\ Awaits => seen'.waited <= Patience
     /\ Awaits /\ cli'.state = "Failed" /\ cli'.failure = "Timeout" =>
          seen.waited = Patience \/ cli'.pending > MaxResponsePending]_peerVars

(* Whatever the peer sends, and if it sends nothing, the request ends.     *)
EveryRequestEnds == Busy ~> ~Busy

(* A request ends, and not before its time is up (Client::poll()).         *)
EndsWithPatience == PatienceKept /\ EveryRequestEnds
=============================================================================
