------------------------------ MODULE UdsServer ------------------------------
(***************************************************************************)
(* sim::UdsServer: the service layer of UdsService behind an ISO-TP        *)
(* receiver and sender.  A request is handled inside the on_frame() that   *)
(* completes it; answers leave through poll(), whose frames are appended   *)
(* to outbox.                                                              *)
(***************************************************************************)
EXTENDS UdsService, IsoTp

(* With an invalid Config no answer would ever be begun.                   *)
ASSUME ServerInputs == Byte = Octet /\ ConfigValid

VARIABLES
  snd, rcv,  \* sender_ and receiver_
  sending,   \* sending_
  outbox

serverVars == <<ecu, reply, snd, rcv, sending, outbox>>

S == INSTANCE IsoTpSender WITH Messages <- {}, PeerFrames <- {}
R == INSTANCE IsoTpReceiver WITH controls <- outbox, PeerFrames <- {}

ServerInit ==
  /\ ServiceInit
  /\ snd = S!FreshSender /\ rcv = R!FreshReceiver
  /\ sending = FALSE /\ outbox = <<>>

(* sender_ = Sender(config); sender_.begin(m).                             *)
Starts(m) ==
  /\ snd' = S!Begun(S!FreshSender, m)
  /\ sending' = TRUE

-----------------------------------------------------------------------------
(* on_frame(): while an answer is under way every frame is the sender's.   *)
HearAsSender(f) ==
  /\ sending
  /\ S!SenderOnFrame(f)
  /\ UNCHANGED <<ecu, reply, rcv, sending>>

HearPart(f) ==
  /\ ~sending /\ ~R!Completes(f)
  /\ R!ReceiverOnFrame(f)
  /\ UNCHANGED <<ecu, reply, snd, sending>>

HearRequestSlip(f) ==   \* the receiver is left with the request in it
  /\ ~sending /\ R!Completes(f)
  /\ R!ReceiverOnFrame(f)
  /\ Handle(R!Message(f))
  /\ IF reply' = <<>> THEN UNCHANGED <<snd, sending>> ELSE Starts(reply')

HearRequest(f) ==
  /\ ~sending /\ R!Completes(f)
  /\ R!Reset
  /\ Handle(R!Message(f))
  /\ IF reply' = <<>> THEN UNCHANGED <<snd, sending>> ELSE Starts(reply')

ServerOnFrame(f) == HearAsSender(f) \/ HearPart(f) \/ HearRequest(f)

-----------------------------------------------------------------------------
(* poll(): a deferred answer that has come due, the answer under way, one  *)
(* more 0x78, or the receiver's turn.  The receiver is reset when an       *)
(* answer has ended, well or not.                                          *)
SendingEnds(s) ==
  /\ sending' = (s.result = "InProgress")
  /\ rcv' = IF s.result = "InProgress" THEN rcv
            ELSE [R!FreshReceiver EXCEPT !.pending = rcv.pending]

DeferredDue == ecu.deferred # <<>> /\ ecu.due = 0 /\ ~sending
BusyDue == ecu.pending > 0 /\ ecu.deferred # <<>> /\ ~DeferredDue /\ ~sending

PollDeferred ==
  /\ DeferredDue
  /\ outbox' = Append(outbox, S!LaunchFrame(ecu.deferred))
  /\ snd' = S!Launched(ecu.deferred)
  /\ SendingEnds(snd')
  /\ ecu' = [ecu EXCEPT !.deferred = <<>>]
  /\ UNCHANGED reply

PollSending ==
  /\ sending
  /\ S!SenderPoll \/ (~S!SenderPollDue /\ UNCHANGED <<snd, outbox>>)
  /\ SendingEnds(snd')
  /\ UNCHANGED <<ecu, reply>>

PollBusy ==
  /\ BusyDue
  /\ ecu' = [ecu EXCEPT !.pending = @ - 1]
  /\ Starts(Negative(<<ecu.deferred[1] - PositiveOffset>>, ResponsePending))
  /\ UNCHANGED <<reply, rcv, outbox>>

PollReceiver ==
  /\ ~sending /\ ~DeferredDue /\ ~BusyDue
  /\ R!ReceiverPoll \/ (~R!ReceiverPollDue /\ UNCHANGED <<rcv, outbox>>)
  /\ UNCHANGED <<ecu, reply, snd, sending>>

ServerPoll == PollDeferred \/ PollSending \/ PollBusy \/ PollReceiver

(* poll() would do something now.                                          *)
ServerPollDue ==
  \/ DeferredDue \/ BusyDue
  \/ sending /\ (S!SenderPollDue \/ S!SenderDone)
  \/ ~sending /\ R!ReceiverPollDue

(* One tick passes.                                                        *)
ServerElapse ==
  /\ ecu' = [ecu EXCEPT !.due = OneTickLess(@)]
  /\ snd' = S!SenderAged(snd)
  /\ rcv' = R!ReceiverAged(rcv)
  /\ UNCHANGED <<reply, sending>>
=============================================================================
