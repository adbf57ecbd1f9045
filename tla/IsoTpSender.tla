---------------------------- MODULE IsoTpSender ----------------------------
(***************************************************************************)
(* isotp::Sender: the state machine that segments one outgoing message.    *)
(*                                                                         *)
(* The caller pushes it with poll() and feeds it received frames with      *)
(* on_frame(); poll() hands back the frames to transmit, which are         *)
(* appended to outbox.  Standing alone, the module puts the sender against *)
(* a peer that may answer anything in PeerFrames at any moment.            *)
(***************************************************************************)
EXTENDS IsoTp

CONSTANT Messages   \* the messages a caller may hand to begin()

ASSUME SenderInputs == Messages \subseteq Seq(Byte)

VARIABLES
  snd,    \* the members of Sender
  outbox  \* the frames poll() has returned, oldest first

senderVars == <<snd, outbox>>

SenderState == {"Idle", "SendingSingle", "SendingFirst", "WaitingFlowControl",
                "SendingConsecutive", "Finished"}

(* A Sender as its constructor leaves it.                                  *)
FreshSender ==
  [state |-> "Idle", result |-> "InProgress", payload |-> <<>>, offset |-> 0,
   sequence |-> 0, block_size |-> 0, st_min |-> 0, frames_in_block |-> 0,
   wait_count |-> 0, deadline |-> 0, next_send |-> 0]

SenderInit == snd = FreshSender /\ outbox = <<>>

SenderDone == snd.result # "InProgress"
SenderFails(res) == snd' = [snd EXCEPT !.result = res, !.state = "Finished"]

-----------------------------------------------------------------------------
(* begin(): refused while a transfer runs and for an invalid Config.       *)
Begun(s, m) ==
  [s EXCEPT !.payload = m, !.offset = 0, !.sequence = 0, !.wait_count = 0,
            !.frames_in_block = 0, !.result = "InProgress", !.next_send = 0,
            !.state = IF Len(m) <= SingleMax THEN "SendingSingle" ELSE "SendingFirst"]

Begin(m) ==
  /\ snd.state = "Idle"
  /\ ConfigValid
  /\ snd' = Begun(snd, m)
  /\ UNCHANGED outbox

(* abort() marks the transfer and nothing else.                            *)
AbortSending ==
  /\ snd' = [snd EXCEPT !.result = "Aborted"]
  /\ UNCHANGED outbox

-----------------------------------------------------------------------------
(* poll(), one action per state in which it does something.                *)
SingleFrameOf(m) == SingleFrame(Len(m), Padded(m, 1))
SingleSent(s) ==
  [s EXCEPT !.offset = Len(s.payload), !.result = "Ok", !.state = "Finished"]

SendSingle ==
  /\ ~SenderDone
  /\ snd.state = "SendingSingle"
  /\ outbox' = Append(outbox, SingleFrameOf(snd.payload))
  /\ snd' = SingleSent(snd)

FirstTake(m) == Smaller(FirstRoom(Len(m)), Len(m))
FirstFrameOf(m) ==
  FirstFrame(Len(m), Padded(SubSeq(m, 1, FirstTake(m)), FirstPciBytes(Len(m))))
FirstSent(s) ==
  [s EXCEPT !.offset = FirstTake(s.payload), !.sequence = 1,
            !.state = "WaitingFlowControl", !.deadline = N_Bs]

SendFirst ==
  /\ ~SenderDone
  /\ snd.state = "SendingFirst"
  /\ outbox' = Append(outbox, FirstFrameOf(snd.payload))
  /\ snd' = FirstSent(snd)

(* begin() on a fresh Sender and the first poll() after it.                *)
Launched(m) ==
  LET s == Begun(FreshSender, m)
  IN  IF s.state = "SendingSingle" THEN SingleSent(s) ELSE FirstSent(s)
LaunchFrame(m) == IF Len(m) <= SingleMax THEN SingleFrameOf(m) ELSE FirstFrameOf(m)

FlowControlTimeoutSlip ==   \* N_Bs runs after the First Frame only
  /\ ~SenderDone
  /\ snd.state = "WaitingFlowControl" /\ snd.sequence = 1
  /\ snd.deadline = 0
  /\ SenderFails("TimeoutBs")
  /\ UNCHANGED outbox

FlowControlTimeout ==
  /\ ~SenderDone
  /\ snd.state = "WaitingFlowControl"
  /\ snd.deadline = 0
  /\ SenderFails("TimeoutBs")
  /\ UNCHANGED outbox

(* After a Consecutive Frame the message is complete, the block is, or the *)
(* next frame is due once STmin has elapsed.                               *)
AllSentSlip(s) == s.offset + 1 >= Len(s.payload)   \* off by one
AllSent(s) == s.offset >= Len(s.payload)
BlockSent(s) == s.block_size # 0 /\ s.frames_in_block >= s.block_size
AwaitingNextBlockSlip(s) ==   \* N_Bs is not restarted between blocks
  [s EXCEPT !.frames_in_block = 0, !.state = "WaitingFlowControl"]
AwaitingNextBlock(s) ==
  [s EXCEPT !.frames_in_block = 0, !.deadline = N_Bs, !.state = "WaitingFlowControl"]

SendConsecutive ==
  LET take == Smaller(ConsecutiveRoom, Len(snd.payload) - snd.offset)
      sent == [snd EXCEPT !.offset = @ + take, !.sequence = NextSequence(@),
                          !.frames_in_block = OneMoreFrame(@), !.next_send = snd.st_min]
  IN  /\ ~SenderDone
      /\ snd.state = "SendingConsecutive"
      /\ snd.next_send = 0
      /\ outbox' = Append(outbox, ConsecutiveFrame(snd.sequence,
                     Padded(SubSeq(snd.payload, snd.offset + 1, snd.offset + take), 1)))
      /\ snd' = IF AllSent(sent)
                THEN [sent EXCEPT !.result = "Ok", !.state = "Finished"]
                ELSE IF BlockSent(sent) THEN AwaitingNextBlock(sent) ELSE sent

SenderPoll == SendSingle \/ SendFirst \/ FlowControlTimeout \/ SendConsecutive

(* poll() would do something now.                                          *)
SenderPollDue ==
  /\ ~SenderDone
  /\ \/ snd.state \in {"SendingSingle", "SendingFirst"}
     \/ snd.state = "WaitingFlowControl" /\ snd.deadline = 0
     \/ snd.state = "SendingConsecutive" /\ snd.next_send = 0

-----------------------------------------------------------------------------
(* on_frame(): a finished sender and a frame meant for someone else change *)
(* nothing; everything but a Flow Control it waits for ends the transfer.  *)
SenderHears(f) == ~SenderDone /\ f.pci # "Foreign"
AwaitedFlowControl(f) ==
  SenderHears(f) /\ f.pci = "FC" /\ snd.state = "WaitingFlowControl"

IgnoreFrame(f) == ~SenderHears(f) /\ UNCHANGED senderVars

OutOfPlace(f) ==
  /\ SenderHears(f)
  /\ f.pci # "FC" \/ snd.state # "WaitingFlowControl"
  /\ SenderFails("UnexpectedPdu")
  /\ UNCHANGED outbox

MalformedFlowControl(f) ==
  /\ AwaitedFlowControl(f)
  /\ ~f.whole \/ f.status = "Reserved"
  /\ SenderFails("InvalidPdu")
  /\ UNCHANGED outbox

StMinForgotten(f) ==   \* a slip: the peer's STmin is not taken over
  /\ AwaitedFlowControl(f) /\ f.whole /\ f.status = "ContinueToSend"
  /\ snd' = [snd EXCEPT !.block_size = f.bs, !.wait_count = 0, !.frames_in_block = 0,
                        !.state = "SendingConsecutive", !.next_send = N_Cs]
  /\ UNCHANGED outbox

ContinueToSend(f) ==
  /\ AwaitedFlowControl(f) /\ f.whole /\ f.status = "ContinueToSend"
  /\ snd' = [snd EXCEPT !.block_size = f.bs, !.st_min = StMinTicks(f.st),
                        !.wait_count = 0, !.frames_in_block = 0,
                        !.state = "SendingConsecutive", !.next_send = N_Cs]
  /\ UNCHANGED outbox

KeepWaiting(f) ==
  LET waits == OneMoreFrame(snd.wait_count)
  IN  /\ AwaitedFlowControl(f) /\ f.whole /\ f.status = "Wait"
      /\ snd' = IF WftMax # 0 /\ waits > WftMax
                THEN [snd EXCEPT !.wait_count = waits, !.result = "WaitOverrun",
                                 !.state = "Finished"]
                ELSE [snd EXCEPT !.wait_count = waits, !.deadline = N_Bs]
      /\ UNCHANGED outbox

PeerOverflow(f) ==
  /\ AwaitedFlowControl(f) /\ f.whole /\ f.status = "Overflow"
  /\ SenderFails("BufferOverflow")
  /\ UNCHANGED outbox

SenderOnFrame(f) ==
  \/ IgnoreFrame(f) \/ OutOfPlace(f) \/ MalformedFlowControl(f)
  \/ ContinueToSend(f) \/ KeepWaiting(f) \/ PeerOverflow(f)

(* One tick passes.                                                        *)
SenderAged(s) == [s EXCEPT !.deadline = OneTickLess(@), !.next_send = OneTickLess(@)]
SenderElapse == snd' = SenderAged(snd) /\ UNCHANGED outbox

-----------------------------------------------------------------------------
SenderNext ==
  \/ \E m \in Messages : Begin(m)
  \/ AbortSending
  \/ SenderPoll
  \/ \E f \in PeerFrames : SenderOnFrame(f)
  \/ SenderElapse

SenderSpec == SenderInit /\ [][SenderNext]_senderVars

-----------------------------------------------------------------------------
SenderMembers ==
  [state : SenderState, result : TransferResult, payload : Seq(Byte), offset : Nat,
   sequence : Nat, block_size : 0..(CountModulus - 1), st_min : Nat,
   frames_in_block : 0..(CountModulus - 1), wait_count : 0..(CountModulus - 1),
   deadline : Nat, next_send : Nat]
SenderTypeOK == snd \in SenderMembers /\ outbox \in Seq(DataPdu)

(* sent_bytes() never passes total_bytes(); while more frames are owed     *)
(* there is something left to put in them, so the unsigned subtraction     *)
(* "payload_.size() - offset_" cannot wrap and no empty frame goes out;    *)
(* and Ok is reported only once the whole message has been handed over,    *)
(* whatever the peer answered and whenever.                                *)
OkMeansAllSent ==
  /\ snd.offset <= Len(snd.payload)
  /\ snd.state \in {"WaitingFlowControl", "SendingConsecutive"}
       => snd.offset < Len(snd.payload)
  /\ snd.result = "Ok" => snd.offset = Len(snd.payload)

(* What is on the wire is the message: the frames returned so far fit a    *)
(* CAN frame (so poll() never writes past its 8-byte body) and carry,      *)
(* in order, the announced length and the bytes up to sent_bytes(), each   *)
(* Consecutive Frame full except the last, numbered from 1 modulo 16, and  *)
(* after the message's bytes nothing but padding.                          *)
Fits(frame) ==
  LET pciBytes == IF frame.pci # "FF" THEN 1 ELSE IF frame.num > ClassicMax THEN 6 ELSE 2
  IN  Header + pciBytes + Len(frame.data) <= FrameBytes

CarriesSlice(frame, m, from, count) ==
  /\ SubSeq(frame.data, 1, count) = SubSeq(m, from, from + count - 1)
  /\ \A i \in (count + 1)..Len(frame.data) : frame.data[i] = Pad

CarriesWhole(frames, m) ==
  /\ Len(frames) = 1 /\ frames[1].pci = "SF" /\ frames[1].num = Len(m)
  /\ Len(m) <= SingleMax
  /\ CarriesSlice(frames[1], m, 1, Len(m))

ReachedBy(k, size) == Smaller(FirstRoom(size) + (k - 1) * ConsecutiveRoom, size)

ConsecutiveFits(frame, m, k) ==
  LET from == ReachedBy(k - 1, Len(m))
      upto == ReachedBy(k, Len(m))
  IN  /\ frame.pci = "CF" /\ frame.num = (k - 1) % SnModulus
      /\ from < upto
      /\ CarriesSlice(frame, m, from + 1, upto - from)

CarriesSegments(frames, m) ==
  /\ Len(frames) > 0 /\ frames[1].pci = "FF" /\ frames[1].num = Len(m)
  /\ Len(m) > SingleMax
  /\ CarriesSlice(frames[1], m, 1, ReachedBy(1, Len(m)))
  /\ \A k \in 2..Len(frames) : ConsecutiveFits(frames[k], m, k)

WireCarriesMessage ==
  /\ \A k \in 1..Len(outbox) : Fits(outbox[k])
  /\ \/ outbox = <<>> /\ snd.offset = 0 /\ snd.result # "Ok"
     \/ CarriesWhole(outbox, snd.payload) /\ snd.offset = Len(snd.payload)
     \/ /\ CarriesSegments(outbox, snd.payload)
        /\ snd.offset = ReachedBy(Len(outbox), Len(snd.payload))
=============================================================================
