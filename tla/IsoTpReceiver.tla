--------------------------- MODULE IsoTpReceiver ---------------------------
(***************************************************************************)
(* isotp::Receiver: the state machine that reassembles one incoming        *)
(* message and paces its peer with Flow Control frames.                    *)
(*                                                                         *)
(* The Flow Controls poll() returns are appended to controls.  Standing    *)
(* alone, the module puts the receiver against a peer that may send        *)
(* anything in PeerFrames at any moment, conforming or not.                *)
(***************************************************************************)
EXTENDS IsoTp

VARIABLES
  rcv,      \* the members of Receiver
  controls  \* the frames poll() has returned, oldest first

receiverVars == <<rcv, controls>>

ReceiverState == {"Idle", "SendFlowControl", "Receiving", "Finished"}

(* A Receiver as its constructor leaves it.                                *)
FreshReceiver ==
  [state |-> "Idle", result |-> "InProgress", payload |-> <<>>, expected |-> 0,
   sequence |-> 0, frames_in_block |-> 0, deadline |-> 0, fc_due |-> 0,
   pending |-> "ContinueToSend"]

ReceiverInit == rcv = FreshReceiver /\ controls = <<>>

ReceiverDone == rcv.result # "InProgress"
ReceiverFails(res) == rcv' = [rcv EXCEPT !.result = res, !.state = "Finished"]

(* reset() keeps pending_status_ and clears the rest.                      *)
ResetSlip ==   \* the state is left at Finished
  /\ rcv' = [FreshReceiver EXCEPT !.pending = rcv.pending, !.state = rcv.state]
  /\ UNCHANGED controls

Reset ==
  /\ rcv' = [FreshReceiver EXCEPT !.pending = rcv.pending]
  /\ UNCHANGED controls

-----------------------------------------------------------------------------
(* poll(): the Flow Control that has come due, or the N_Cr timeout.        *)
SendFlowControl ==
  /\ rcv.state = "SendFlowControl"
  /\ rcv.fc_due = 0
  /\ controls' = Append(controls, FlowControl(rcv.pending, BlockSize, StMinRaw))
  /\ IF rcv.pending = "Overflow"
     THEN ReceiverFails("BufferOverflow")
     ELSE rcv' = [rcv EXCEPT !.state = "Receiving", !.frames_in_block = 0,
                             !.deadline = N_Cr]

ConsecutiveTimeout ==
  /\ rcv.state = "Receiving"
  /\ rcv.deadline = 0
  /\ ReceiverFails("TimeoutCr")
  /\ UNCHANGED controls

ReceiverPoll == SendFlowControl \/ ConsecutiveTimeout

(* poll() would do something now.                                          *)
ReceiverPollDue ==
  \/ rcv.state = "SendFlowControl" /\ rcv.fc_due = 0
  \/ rcv.state = "Receiving" /\ rcv.deadline = 0

-----------------------------------------------------------------------------
(* on_frame(): a finished receiver is deaf until it is reset.              *)
ReceiverHears(f) == rcv.state # "Finished" /\ f.pci # "Foreign"

IgnorePdu(f) == ~ReceiverHears(f) /\ UNCHANGED receiverVars

(* A PDU that starts a message is in place only when none is under way.    *)
Starts(f) == ReceiverHears(f) /\ f.pci \in {"SF", "FF"} /\ rcv.state = "Idle"

UnexpectedPdu(f) ==
  /\ ReceiverHears(f)
  /\ \/ f.pci \in {"SF", "FF"} /\ rcv.state # "Idle"
     \/ f.pci = "CF" /\ rcv.state # "Receiving"
     \/ f.pci = "FC"
  /\ ReceiverFails("UnexpectedPdu")
  /\ UNCHANGED controls

(* No length, a length the frame does not hold, a First Frame for what     *)
(* would fit a Single Frame, or a PCI the standard does not define.        *)
BadSingle(f) == ~f.whole \/ f.num = 0 \/ f.num > Len(f.data)
BadFirst(f) == ~f.whole \/ f.num <= SingleMax
InvalidPdu(f) ==
  /\ \/ Starts(f) /\ f.pci = "SF" /\ BadSingle(f)
     \/ Starts(f) /\ f.pci = "FF" /\ BadFirst(f)
     \/ ReceiverHears(f) /\ f.pci = "Reserved"
  /\ ReceiverFails("InvalidPdu")
  /\ UNCHANGED controls

AcceptsSingle(f) == Starts(f) /\ f.pci = "SF" /\ ~BadSingle(f)
AcceptSingle(f) ==
  /\ AcceptsSingle(f)
  /\ rcv' = [rcv EXCEPT !.payload = SubSeq(f.data, 1, f.num), !.expected = f.num,
                        !.result = "Ok", !.state = "Finished"]
  /\ UNCHANGED controls

RefuseFirst(f) ==
  /\ Starts(f) /\ f.pci = "FF" /\ ~BadFirst(f) /\ f.num > MaxReceive
  /\ rcv' = [rcv EXCEPT !.expected = f.num, !.pending = "Overflow",
                        !.state = "SendFlowControl", !.fc_due = N_Br]
  /\ UNCHANGED controls

AcceptFirst(f) ==
  /\ Starts(f) /\ f.pci = "FF" /\ ~BadFirst(f) /\ f.num <= MaxReceive
  /\ rcv' = [rcv EXCEPT !.expected = f.num,
                        !.payload = SubSeq(f.data, 1, Smaller(Len(f.data), f.num)),
                        !.sequence = 1, !.pending = "ContinueToSend",
                        !.state = "SendFlowControl", !.fc_due = N_Br]
  /\ UNCHANGED controls

(* N_WRONG_SN: a gap aborts the reception.                                 *)
WrongSequence(f) ==
  /\ ReceiverHears(f) /\ f.pci = "CF" /\ rcv.state = "Receiving"
  /\ f.num # rcv.sequence
  /\ ReceiverFails("WrongSequence")
  /\ UNCHANGED controls

(* What a Consecutive Frame adds, without the padding of the last one, and *)
(* what remains to be done after it.                                       *)
BytesTakenSlip(f) == Len(f.data)   \* the padding too
BytesTaken(f) == Smaller(rcv.expected - Len(rcv.payload), Len(f.data))
AllReceived(r) == Len(r.payload) >= r.expected
BlockReceived(r) == BlockSize # 0 /\ r.frames_in_block >= BlockSize

AcceptsConsecutive(f) ==
  ReceiverHears(f) /\ f.pci = "CF" /\ rcv.state = "Receiving" /\ f.num = rcv.sequence
Taken(f) ==
  [rcv EXCEPT !.sequence = NextSequence(@),
              !.payload = @ \o SubSeq(f.data, 1, BytesTaken(f)),
              !.frames_in_block = OneMoreFrame(@)]

AcceptConsecutive(f) ==
  LET taken == Taken(f)
  IN  /\ AcceptsConsecutive(f)
      /\ rcv' = IF AllReceived(taken)
                THEN [taken EXCEPT !.result = "Ok", !.state = "Finished"]
                ELSE IF BlockReceived(taken)
                THEN [taken EXCEPT !.deadline = N_Cr, !.pending = "ContinueToSend",
                                   !.state = "SendFlowControl", !.fc_due = N_Br]
                ELSE [taken EXCEPT !.deadline = N_Cr]
      /\ UNCHANGED controls

(* The frame makes a message complete, and which.                          *)
Completes(f) == AcceptsSingle(f) \/ (AcceptsConsecutive(f) /\ AllReceived(Taken(f)))
Message(f) == IF f.pci = "SF" THEN SubSeq(f.data, 1, f.num) ELSE Taken(f).payload

ReceiverOnFrame(f) ==
  \/ IgnorePdu(f) \/ UnexpectedPdu(f) \/ InvalidPdu(f)
  \/ AcceptSingle(f) \/ RefuseFirst(f) \/ AcceptFirst(f)
  \/ WrongSequence(f) \/ AcceptConsecutive(f)

(* One tick passes.                                                        *)
ReceiverAged(r) == [r EXCEPT !.deadline = OneTickLess(@), !.fc_due = OneTickLess(@)]
ReceiverElapse == rcv' = ReceiverAged(rcv) /\ UNCHANGED controls

-----------------------------------------------------------------------------
ReceiverNext ==
  \/ Reset
  \/ ReceiverPoll
  \/ \E f \in PeerFrames : ReceiverOnFrame(f)
  \/ ReceiverElapse

ReceiverSpec == ReceiverInit /\ [][ReceiverNext]_receiverVars

-----------------------------------------------------------------------------
ReceiverTypeOK ==
  /\ rcv \in [state : ReceiverState, result : TransferResult, payload : Seq(Byte),
              expected : Nat, sequence : 0..(SnModulus - 1), frames_in_block : 0..(CountModulus - 1),
              deadline : Nat, fc_due : Nat,
              pending : {"ContinueToSend", "Overflow"}]
  /\ controls \in Seq(FlowPdu)

(* Whatever the peer sends, the buffer never outgrows the announced length *)
(* while a transfer is on, so "expected_ - payload_.size()" in the CF      *)
(* handler, an unsigned subtraction, cannot wrap; and no multi-frame       *)
(* message is buffered beyond max_receive_length.                          *)
NeverPastTheAnnouncedLength ==
  /\ Len(rcv.payload) <= rcv.expected
  /\ rcv.state = "Receiving" => rcv.expected <= MaxReceive

(* has_message() only ever offers a complete message: the bytes reported   *)
(* as Ok are exactly as many as the Single or First Frame announced.       *)
OkIsComplete ==
  rcv.result = "Ok" => /\ Len(rcv.payload) = rcv.expected
                       /\ rcv.expected > 0

(* What is received is whole: a buffer never outgrows the announcement and *)
(* only what fills it is offered (on_frame(), has_message()).              *)
ReceivedWhole == NeverPastTheAnnouncedLength /\ OkIsComplete
=============================================================================
