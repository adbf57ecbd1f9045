------------------------------ MODULE IsoTpLink ------------------------------
(***************************************************************************)
(* A Sender and a Receiver over a bus that keeps order but may drop frames *)
(* (a receive queue that is full drops what arrives).                      *)
(*                                                                         *)
(* A channel holds the frames that poll() has handed over and the other    *)
(* side has not been fed with on_frame() yet.  The owners behave as the    *)
(* UDS client and server do: each message goes through a fresh Sender, and *)
(* a Receiver that is done is reset, its message taken if it has one.      *)
(***************************************************************************)
EXTENDS IsoTp

CONSTANTS
  Messages,      \* what may be sent
  MaxTransfers   \* bound on the transfers of one behaviour

(* Neither user of the transport ever sends an empty message: its Single   *)
(* Frame would be read as a CAN FD length escape.                          *)
ASSUME LinkAssumption ==
  Messages \subseteq Seq(Byte) \ {<<>>} /\ MaxTransfers \in Nat

(* A reliable bus drops nothing, and each transfer waits until the message *)
(* of the last one was taken.  A lossy bus drops frames, and transfers may *)
(* overlap.  On both no time passes while a frame is under way or a poll   *)
(* is due.  A slow bus delays frames as well, and carries one transfer     *)
(* only: a Flow Control left over from an earlier one could answer this.   *)
Buses == {"reliable", "lossy", "slow"}

VARIABLES
  bus,                   \* the kind of bus, the same throughout
  snd, rcv,              \* the two protocol objects
  toReceiver, toSender,  \* frames under way
  sent, got              \* what the owners handed in and took out

vars == <<bus, snd, rcv, toReceiver, toSender, sent, got>>

S == INSTANCE IsoTpSender WITH outbox <- toReceiver, PeerFrames <- {}
R == INSTANCE IsoTpReceiver WITH controls <- toSender, PeerFrames <- {}

Init ==
  /\ bus \in Buses
  /\ S!SenderInit /\ R!ReceiverInit
  /\ sent = <<>> /\ got = <<>>

-----------------------------------------------------------------------------
(* The owner of the sender starts a transfer on a fresh Sender.            *)
StartTransfer(m) ==
  /\ Len(sent) < MaxTransfers
  /\ sent # <<>> => S!SenderDone
  /\ bus = "reliable" => Len(got) = Len(sent)
  /\ bus = "slow" => sent = <<>>
  /\ ConfigValid
  /\ snd' = S!Begun(S!FreshSender, m)
  /\ sent' = Append(sent, m)
  /\ UNCHANGED <<bus, rcv, toReceiver, toSender, got>>

(* The owner of the receiver takes the message, if any, and resets it.     *)
CollectMessageSlip ==   \* without resetting it
  /\ rcv.result = "Ok"
  /\ got' = Append(got, rcv.payload)
  /\ UNCHANGED <<bus, snd, rcv, toReceiver, toSender, sent>>

CollectMessage ==
  /\ rcv.result = "Ok"
  /\ got' = Append(got, rcv.payload)
  /\ R!Reset
  /\ UNCHANGED <<bus, snd, toReceiver, sent>>

DiscardFailure ==
  /\ R!ReceiverDone /\ rcv.result # "Ok"
  /\ R!Reset
  /\ UNCHANGED <<bus, snd, toReceiver, sent, got>>

PollSender == S!SenderPoll /\ UNCHANGED <<bus, rcv, toSender, sent, got>>
PollReceiver == R!ReceiverPoll /\ UNCHANGED <<bus, snd, toReceiver, sent, got>>

DeliverToReceiver ==
  /\ toReceiver # <<>>
  /\ R!ReceiverOnFrame(Head(toReceiver))
  /\ toReceiver' = Tail(toReceiver)
  /\ UNCHANGED <<bus, snd, sent, got>>

DeliverToSender ==
  /\ toSender # <<>>
  /\ S!SenderOnFrame(Head(toSender))
  /\ toSender' = Tail(toSender)
  /\ UNCHANGED <<bus, rcv, sent, got>>

LoseFrame ==
  /\ bus # "reliable"
  /\ \/ /\ toReceiver # <<>> /\ toReceiver' = Tail(toReceiver)
        /\ UNCHANGED toSender
     \/ /\ toSender # <<>> /\ toSender' = Tail(toSender)
        /\ UNCHANGED toReceiver
  /\ UNCHANGED <<bus, snd, rcv, sent, got>>

(* Nothing is left to do at this instant.                                  *)
Quiet ==
  /\ toReceiver = <<>> /\ toSender = <<>>
  /\ ~S!SenderPollDue /\ ~R!ReceiverPollDue

Elapse ==
  /\ bus = "slow" \/ Quiet
  /\ snd' = S!SenderAged(snd)
  /\ rcv' = R!ReceiverAged(rcv)
  /\ UNCHANGED <<bus, toReceiver, toSender, sent, got>>

Next ==
  \/ \E m \in Messages : StartTransfer(m)
  \/ CollectMessage \/ DiscardFailure
  \/ PollSender \/ PollReceiver
  \/ DeliverToReceiver \/ DeliverToSender \/ LoseFrame
  \/ Elapse

Spec == Init /\ [][Next]_vars

(* A main loop keeps reading its bus, polling, and looking at what came;   *)
(* and time passes.                                                        *)
Fairness ==
  /\ WF_vars(PollSender) /\ WF_vars(PollReceiver)
  /\ WF_vars(DeliverToReceiver) /\ WF_vars(DeliverToSender)
  /\ WF_vars(CollectMessage) /\ WF_vars(DiscardFailure)
  /\ WF_vars(Elapse)

FairSpec == Spec /\ Fairness

-----------------------------------------------------------------------------
(* Each message the receiver's owner takes was sent, complete and          *)
(* unaltered, in order and at most once.                                   *)
M == INSTANCE Mailbox WITH Message <- Messages
ImplementsMailbox == M!Spec

(* Over a bus that loses nothing, with both sides polled in time and an    *)
(* STmin shorter than N_Cr (validate() leaves that to its user), every     *)
(* message the receiver has room for is delivered: no frame is taken for   *)
(* out of place, out of sequence or too late.                              *)
EveryMessageArrives ==
  \A n \in 1..MaxTransfers :
    bus = "reliable" /\ Len(sent) = n /\ Len(sent[n]) <= MaxReceive ~> Len(got) = n

(* Whatever is lost, nobody waits for ever: each transfer ends for the     *)
(* sender, and a reception that has begun ends for the receiver (the       *)
(* timeouts of poll()).                                                    *)
BothSidesFinish ==
  /\ snd.state # "Idle" ~> S!SenderDone
  /\ rcv.state # "Idle" ~> (R!ReceiverDone \/ rcv.state = "Idle")
=============================================================================
