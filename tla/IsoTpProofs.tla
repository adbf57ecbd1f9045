----------------------------- MODULE IsoTpProofs -----------------------------
(***************************************************************************)
(* The sender and the receiver, each against every peer, for every value   *)
(* of the constants.                                                       *)
(*                                                                         *)
(* The sender: its members keep their types, it never runs past the end of *)
(* its message, never owes an empty frame, and reports Ok only for a       *)
(* message that has been handed over in full.  What the wire carries is    *)
(* the message; and a peer that watches it finds its Flow Controls obeyed, *)
(* and that it is given up on when it must be and not before.              *)
(*                                                                         *)
(* The receiver: its members keep their types, its buffer never outgrows   *)
(* the announced length, and what it reports as Ok is complete.            *)
(***************************************************************************)
EXTENDS IsoTpSenderWatch, IsoTpReceiver, Integers, SequenceTheorems, TLAPS


(* The strengthening that makes OkMeansAllSent inductive: a segmented      *)
(* message is too long for a Single Frame, so its First Frame leaves       *)
(* something over, and Ok is only ever reported together with Finished.    *)
SenderInv ==
  /\ OkMeansAllSent
  /\ snd.state = "SendingFirst" => Len(snd.payload) > SingleMax
  /\ snd.result = "Ok" => snd.state = "Finished"

-----------------------------------------------------------------------------
LEMMA SliceOfBytes ==
  ASSUME NEW s \in Seq(Byte), NEW m \in Nat \ {0}, NEW n \in Nat, n <= Len(s)
  PROVE  SubSeq(s, m, n) \in Seq(Byte)
<1>1. \A i \in m..n : s[i] \in Byte
  BY LenProperties, ElementOfSeq
<1> QED BY <1>1, SubSeqProperties

(* Padding a frame leaves a sequence of bytes.                             *)
LEMMA PaddedBytes ==
  ASSUME NEW data \in Seq(Byte), NEW pciBytes \in Nat
  PROVE  Padded(data, pciBytes) \in Seq(Byte)
<1> DEFINE room == FrameBytes - Header - pciBytes - Len(data)
           fill == [i \in 1..room |-> Pad]
<1>1. room \in Int
  BY ProtocolAssumption, LenProperties
<1> HIDE DEF room
<1>2. fill \in Seq(Byte)
  <2>1. \A n \in Nat : [i \in 1..n |-> Pad] \in Seq(Byte)
    <3>1. Pad \in Byte
      BY ConfigAssumption
    <3> QED BY <3>1
  <2>2. CASE room \in Nat
    BY <2>1, <2>2
  <2>3. CASE room \notin Nat
    <3>1. 1..room = 1..0
      BY <1>1, <2>3
    <3>2. fill = [i \in 1..0 |-> Pad]
      BY <3>1
    <3>3. [i \in 1..0 |-> Pad] \in Seq(Byte)
      BY <2>1
    <3> HIDE DEF fill
    <3> QED BY <3>2, <3>3
  <2> QED BY <2>2, <2>3
<1>3. data \o fill \in Seq(Byte)
  BY <1>2, ConcatProperties
<1>4. Padded(data, pciBytes) \in {data, data \o fill}
  BY DEF Padded, room
<1> QED BY <1>3, <1>4

(* What a First Frame takes of a message too long for a Single Frame, and  *)
(* what a Consecutive Frame takes of the rest.                             *)
LEMMA FirstRoomBound ==
  ASSUME NEW size \in Nat, size > SingleMax
  PROVE  /\ FirstPciBytes(size) \in Nat
         /\ FirstRoom(size) \in Nat
         /\ Smaller(FirstRoom(size), size) = FirstRoom(size)
         /\ FirstRoom(size) < size
BY ProtocolAssumption DEF FirstRoom, FirstPciBytes, SingleMax, Smaller

LEMMA ConsecutiveTake ==
  ASSUME SenderTypeOK, SenderInv, SendConsecutive
  PROVE  \E take \in Nat :
           /\ take = Smaller(ConsecutiveRoom, Len(snd.payload) - snd.offset)
           /\ snd.offset + take <= Len(snd.payload)
<1>1. /\ snd.offset \in Nat /\ Len(snd.payload) \in Nat
      /\ snd.offset < Len(snd.payload)
  BY LenProperties DEF SenderTypeOK, SenderMembers, SenderInv, OkMeansAllSent, SendConsecutive
<1>2. ConsecutiveRoom \in Nat
  BY ProtocolAssumption DEF ConsecutiveRoom
<1> QED BY <1>1, <1>2 DEF Smaller

LEMMA StMinTicksType ==
  ASSUME NEW raw \in 0..255
  PROVE  StMinTicks(raw) \in Nat
<1>1. StMinToNs(raw) \in Nat
  BY DEF StMinToNs, Millisecond, GridNs
<1> QED BY <1>1 DEF StMinTicks, GridNs

LEMMA FlowFields ==
  ASSUME NEW f \in PeerFrames, f.pci = "FC"
  PROVE  f.bs \in 0..(CountModulus - 1) /\ f.st \in 0..255
BY PortInputs DEF Pdu, DataPdu, FlowPdu, ForeignPdu

-----------------------------------------------------------------------------
(* Every frame poll() returns is a data PDU.                               *)
LEMMA FramesSent ==
  ASSUME SenderTypeOK, SenderInv, SenderPoll
  PROVE  outbox' \in Seq(DataPdu)
<1>0. snd.payload \in Seq(Byte) /\ Len(snd.payload) \in Nat /\ outbox \in Seq(DataPdu)
  BY LenProperties DEF SenderTypeOK, SenderMembers
<1>1. CASE SendSingle
  <2>1. Padded(snd.payload, 1) \in Seq(Byte)
    BY <1>0, PaddedBytes
  <2>2. SingleFrame(Len(snd.payload), Padded(snd.payload, 1)) \in DataPdu
    BY <1>0, <2>1 DEF SingleFrame, DataPdu
  <2> QED BY <1>0, <1>1, <2>2, AppendProperties DEF SendSingle, SingleSent, SingleFrameOf
<1>2. CASE SendFirst
  <2> DEFINE size == Len(snd.payload)
             take == Smaller(FirstRoom(size), size)
             slice == SubSeq(snd.payload, 1, take)
             data == Padded(slice, FirstPciBytes(size))
  <2>1. size > SingleMax
    BY <1>2 DEF SendFirst, FirstSent, FirstFrameOf, FirstTake, SenderInv
  <2>2. take \in Nat /\ take <= size /\ FirstPciBytes(size) \in Nat
    BY <1>0, <2>1, FirstRoomBound
  <2>3. slice \in Seq(Byte)
    BY <1>0, <2>2, SliceOfBytes
  <2>4. data \in Seq(Byte)
    BY <2>2, <2>3, PaddedBytes
  <2>5. FirstFrame(size, data) \in DataPdu
    BY <1>0, <2>4 DEF FirstFrame, DataPdu
  <2>6. outbox' = Append(outbox, FirstFrame(size, data))
    BY <1>2 DEF SendFirst, FirstSent, FirstFrameOf, FirstTake
  <2> QED BY <1>0, <2>5, <2>6, AppendProperties
<1>3. CASE FlowControlTimeout
  BY <1>0, <1>3 DEF FlowControlTimeout
<1>4. CASE SendConsecutive
  <2>1. PICK take \in Nat :
           /\ take = Smaller(ConsecutiveRoom, Len(snd.payload) - snd.offset)
           /\ snd.offset + take <= Len(snd.payload)
    BY <1>4, ConsecutiveTake
  <2> DEFINE slice == SubSeq(snd.payload, snd.offset + 1, snd.offset + take)
             data == Padded(slice, 1)
  <2>2. snd.offset \in Nat /\ snd.sequence \in Nat
    BY DEF SenderTypeOK, SenderMembers
  <2>3. slice \in Seq(Byte)
    BY <1>0, <2>1, <2>2, SliceOfBytes
  <2>4. data \in Seq(Byte)
    BY <2>3, PaddedBytes
  <2>5. ConsecutiveFrame(snd.sequence, data) \in DataPdu
    BY <2>2, <2>4 DEF ConsecutiveFrame, DataPdu
  <2>6. outbox' = Append(outbox, ConsecutiveFrame(snd.sequence, data))
    BY <1>4, <2>1 DEF SendConsecutive
  <2> QED BY <1>0, <2>5, <2>6, AppendProperties
<1> QED BY <1>1, <1>2, <1>3, <1>4 DEF SenderPoll

LEMMA SenderTypeStep ==
  ASSUME SenderTypeOK, SenderInv, [SenderNext]_senderVars
  PROVE  SenderTypeOK'
<1> USE DEF SenderState, TransferResult
<1>0. N_Bs \in Nat /\ N_Cs \in Nat /\ 0 \in 0..(CountModulus - 1)
  BY ConfigAssumption, ProtocolAssumption
<1>1. CASE UNCHANGED senderVars
  BY <1>1 DEF SenderTypeOK, SenderMembers, senderVars
<1>2. ASSUME NEW m \in Messages, Begin(m)
      PROVE  SenderTypeOK'
  <2>1. m \in Seq(Byte)
    BY SenderInputs
  <2>2. \E state \in {"SendingSingle", "SendingFirst"} :
          snd' = [snd EXCEPT !.payload = m, !.offset = 0, !.sequence = 0,
                    !.wait_count = 0, !.frames_in_block = 0,
                    !.result = "InProgress", !.next_send = 0, !.state = state]
    BY <1>2 DEF Begin, Begun
  <2>3. UNCHANGED outbox
    BY <1>2 DEF Begin
  <2>4. PICK state \in {"SendingSingle", "SendingFirst"} :
          snd' = [state |-> state, result |-> "InProgress", payload |-> m,
                  offset |-> 0, sequence |-> 0, block_size |-> snd.block_size,
                  st_min |-> snd.st_min, frames_in_block |-> 0, wait_count |-> 0,
                  deadline |-> snd.deadline, next_send |-> 0]
    BY <2>2 DEF SenderTypeOK, SenderMembers
  <2>5. /\ snd.block_size \in 0..(CountModulus - 1) /\ snd.st_min \in Nat
        /\ snd.deadline \in Nat /\ state \in SenderState
    BY DEF SenderTypeOK, SenderMembers
  <2> QED BY <1>0, <2>1, <2>3, <2>4, <2>5 DEF SenderTypeOK, SenderMembers
<1>3. CASE AbortSending
  BY <1>3 DEF AbortSending, SenderTypeOK, SenderMembers
<1>4. CASE SenderPoll
  <2>1. outbox' \in Seq(DataPdu)
    BY <1>4, FramesSent
  <2>2. CASE SendSingle
    <3>1. Len(snd.payload) \in Nat
      BY LenProperties DEF SenderTypeOK, SenderMembers
    <3> QED BY <2>1, <2>2, <3>1 DEF SendSingle, SingleSent, SingleFrameOf, SenderTypeOK, SenderMembers
  <2>3. CASE SendFirst
    <3> DEFINE take == Smaller(FirstRoom(Len(snd.payload)), Len(snd.payload))
    <3>1. take \in Nat
      BY <2>3, LenProperties, FirstRoomBound DEF SendFirst, FirstSent, FirstFrameOf, FirstTake, SenderInv, SenderTypeOK, SenderMembers
    <3>2. snd' = [snd EXCEPT !.offset = take, !.sequence = 1,
                             !.state = "WaitingFlowControl", !.deadline = N_Bs]
      BY <2>3 DEF SendFirst, FirstSent, FirstFrameOf, FirstTake
    <3> HIDE DEF take
    <3> QED BY <1>0, <2>1, <3>1, <3>2 DEF SenderTypeOK, SenderMembers
  <2>4. CASE FlowControlTimeout
    BY <2>1, <2>4 DEF FlowControlTimeout, SenderFails, SenderTypeOK, SenderMembers
  <2>5. CASE SendConsecutive
    <3>1. PICK take \in Nat :
             /\ take = Smaller(ConsecutiveRoom, Len(snd.payload) - snd.offset)
             /\ snd.offset + take <= Len(snd.payload)
      BY <2>5, ConsecutiveTake
    <3> DEFINE count == OneMoreFrame(snd.frames_in_block)
               next == NextSequence(snd.sequence)
               gone == snd.offset + take
    <3>2. count \in 0..(CountModulus - 1) /\ next \in Nat /\ gone \in Nat
      <4>1. /\ snd.frames_in_block \in Nat /\ snd.sequence \in Nat
            /\ snd.offset \in Nat
        BY ProtocolAssumption DEF SenderTypeOK, SenderMembers
      <4>2. count \in 0..(CountModulus - 1)
        BY <4>1, ProtocolAssumption DEF OneMoreFrame
      <4>3. next \in Nat
        BY <4>1, ProtocolAssumption DEF NextSequence
      <4> QED BY <4>1, <4>2, <4>3
    <3> DEFINE sent == [snd EXCEPT !.offset = gone, !.sequence = next,
                          !.frames_in_block = count, !.next_send = snd.st_min]
    <3>3. \/ snd' = [sent EXCEPT !.result = "Ok", !.state = "Finished"]
          \/ snd' = [sent EXCEPT !.frames_in_block = 0, !.deadline = N_Bs,
                                 !.state = "WaitingFlowControl"]
          \/ snd' = sent
      BY <2>5, <3>1 DEF SendConsecutive, AwaitingNextBlock
    <3> HIDE DEF count, next, gone
    <3>4. (snd \in SenderMembers => sent \in SenderMembers)
      BY <3>2 DEF SenderTypeOK, SenderMembers
    <3> HIDE DEF sent
    <3> QED BY <1>0, <2>1, <3>3, <3>4 DEF SenderTypeOK, SenderMembers
  <2> QED BY <1>4, <2>2, <2>3, <2>4, <2>5 DEF SenderPoll
<1>5. ASSUME NEW f \in PeerFrames, SenderOnFrame(f)
      PROVE  SenderTypeOK'
  <2>1. CASE IgnoreFrame(f)
    BY <2>1 DEF IgnoreFrame, senderVars, SenderTypeOK, SenderMembers
  <2>2. CASE OutOfPlace(f) \/ MalformedFlowControl(f) \/ PeerOverflow(f)
    BY <2>2 DEF OutOfPlace, MalformedFlowControl, PeerOverflow, SenderFails, SenderTypeOK, SenderMembers
  <2>3. CASE ContinueToSend(f)
    <3>1. f.bs \in 0..(CountModulus - 1) /\ StMinTicks(f.st) \in Nat
      BY <2>3, FlowFields, StMinTicksType DEF ContinueToSend, AwaitedFlowControl
    <3> QED BY <1>0, <2>3, <3>1 DEF ContinueToSend, SenderTypeOK, SenderMembers
  <2>4. CASE KeepWaiting(f)
    <3> DEFINE waits == OneMoreFrame(snd.wait_count)
    <3>1. waits \in 0..(CountModulus - 1)
      BY ProtocolAssumption DEF OneMoreFrame, SenderTypeOK, SenderMembers
    <3>2. /\ \/ snd' = [snd EXCEPT !.wait_count = waits, !.result = "WaitOverrun",
                                   !.state = "Finished"]
             \/ snd' = [snd EXCEPT !.wait_count = waits, !.deadline = N_Bs]
          /\ UNCHANGED outbox
      BY <2>4 DEF KeepWaiting
    <3> HIDE DEF waits
    <3> QED BY <1>0, <3>1, <3>2 DEF SenderTypeOK, SenderMembers
  <2> QED BY <1>5, <2>1, <2>2, <2>3, <2>4 DEF SenderOnFrame
<1>6. CASE SenderElapse
  <2> DEFINE d == OneTickLess(snd.deadline)
             due == OneTickLess(snd.next_send)
  <2>1. d \in Nat /\ due \in Nat
    BY DEF OneTickLess, SenderTypeOK, SenderMembers
  <2>2. snd' = [snd EXCEPT !.deadline = d, !.next_send = due] /\ UNCHANGED outbox
    BY <1>6 DEF SenderElapse, SenderAged
  <2> HIDE DEF d, due
  <2> QED BY <2>1, <2>2 DEF SenderTypeOK, SenderMembers
<1> QED BY <1>1, <1>2, <1>3, <1>4, <1>5, <1>6 DEF SenderNext

(* Every step keeps the strengthened invariant.                            *)
LEMMA SenderInvStep ==
  ASSUME SenderTypeOK, SenderInv, [SenderNext]_senderVars
  PROVE  SenderInv'
<1> USE DEF SenderInv, OkMeansAllSent
<1>0. Len(snd.payload) \in Nat /\ snd.offset \in Nat
  BY LenProperties DEF SenderTypeOK, SenderMembers
<1>1. CASE UNCHANGED senderVars
  BY <1>1 DEF senderVars
<1>2. ASSUME NEW m \in Messages, Begin(m)
      PROVE  SenderInv'
  <2>1. Len(m) \in Nat /\ SingleMax \in Nat
    BY SenderInputs, LenProperties, ProtocolAssumption DEF SingleMax
  <2>2. /\ snd'.payload = m /\ snd'.offset = 0 /\ snd'.result = "InProgress"
        /\ snd'.state = IF Len(m) <= SingleMax THEN "SendingSingle" ELSE "SendingFirst"
    BY <1>2 DEF Begin, Begun, SenderTypeOK, SenderMembers
  <2> QED BY <2>1, <2>2
<1>3. CASE AbortSending
  BY <1>3 DEF AbortSending, SenderTypeOK, SenderMembers
<1>4. CASE SendSingle
  BY <1>0, <1>4 DEF SendSingle, SingleSent, SingleFrameOf, SenderTypeOK, SenderMembers
<1>5. CASE SendFirst
  <2>1. Len(snd.payload) > SingleMax
    BY <1>5 DEF SendFirst, FirstSent, FirstFrameOf, FirstTake
  <2>2. /\ snd'.payload = snd.payload /\ snd'.state = "WaitingFlowControl"
        /\ snd'.offset = Smaller(FirstRoom(Len(snd.payload)), Len(snd.payload))
        /\ snd'.result = snd.result /\ snd.result # "Ok"
    BY <1>5 DEF SendFirst, FirstSent, FirstFrameOf, FirstTake, SenderTypeOK, SenderMembers
  <2>3. snd'.offset \in Nat /\ snd'.offset < Len(snd.payload)
    BY <1>0, <2>1, <2>2, FirstRoomBound
  <2> QED BY <1>0, <2>2, <2>3
<1>6. CASE FlowControlTimeout
  BY <1>6 DEF FlowControlTimeout, SenderFails, SenderTypeOK, SenderMembers
<1>7. CASE SendConsecutive
  <2>1. PICK take \in Nat :
           /\ take = Smaller(ConsecutiveRoom, Len(snd.payload) - snd.offset)
           /\ snd.offset + take <= Len(snd.payload)
    BY <1>7, ConsecutiveTake
  <2>2. /\ snd'.payload = snd.payload /\ snd'.offset = snd.offset + take
        /\ \/ /\ snd.offset + take >= Len(snd.payload)
              /\ snd'.result = "Ok" /\ snd'.state = "Finished"
           \/ /\ ~(snd.offset + take >= Len(snd.payload))
              /\ snd'.result = snd.result /\ snd.result # "Ok"
              /\ snd'.state \in {"WaitingFlowControl", "SendingConsecutive"}
    BY <1>7, <2>1 DEF SendConsecutive, AllSent, AwaitingNextBlock, SenderDone,
                      SenderTypeOK, SenderMembers
  <2> QED BY <1>0, <2>1, <2>2
<1>8. ASSUME NEW f \in PeerFrames, SenderOnFrame(f)
      PROVE  SenderInv'
  <2>1. CASE IgnoreFrame(f)
    BY <2>1 DEF IgnoreFrame, senderVars
  <2>2. CASE OutOfPlace(f) \/ MalformedFlowControl(f) \/ PeerOverflow(f)
    BY <2>2 DEF OutOfPlace, MalformedFlowControl, PeerOverflow, SenderFails,
                SenderTypeOK, SenderMembers
  <2>3. CASE ContinueToSend(f)
    BY <2>3 DEF ContinueToSend, AwaitedFlowControl, SenderTypeOK, SenderMembers
  <2>4. CASE KeepWaiting(f)
    BY <2>4 DEF KeepWaiting, AwaitedFlowControl, SenderTypeOK, SenderMembers
  <2> QED BY <1>8, <2>1, <2>2, <2>3, <2>4 DEF SenderOnFrame
<1>9. CASE SenderElapse
  BY <1>9 DEF SenderElapse, SenderAged, SenderTypeOK, SenderMembers
<1> QED
  BY <1>1, <1>2, <1>3, <1>4, <1>5, <1>6, <1>7, <1>8, <1>9 DEF SenderNext, SenderPoll

LEMMA SenderInductive == SenderSpec => [](SenderTypeOK /\ SenderInv)
<1>1. SenderInit => SenderTypeOK /\ SenderInv
  BY EmptySeq, ProtocolAssumption
     DEF SenderInit, FreshSender, SenderTypeOK, SenderMembers, SenderState,
         TransferResult, SenderInv, OkMeansAllSent
<1>2. SenderTypeOK /\ SenderInv /\ [SenderNext]_senderVars
        => (SenderTypeOK /\ SenderInv)'
  BY SenderTypeStep, SenderInvStep
<1> QED BY <1>1, <1>2, PTL DEF SenderSpec

-----------------------------------------------------------------------------
(* The members of Sender keep their types under every peer.                *)
THEOREM SenderTypeCorrect == SenderSpec => []SenderTypeOK
BY SenderInductive, PTL

(* sent_bytes() stays within the message, no empty frame is ever owed, and *)
(* Ok means that all of the message has been sent.                         *)
THEOREM OkMeansAllSentHolds == SenderSpec => []OkMeansAllSent
<1>1. SenderInv => OkMeansAllSent
  BY DEF SenderInv
<1> QED BY <1>1, SenderInductive, PTL

-----------------------------------------------------------------------------
(* What the frames carry.                                                  *)
WireInv ==
  /\ WireCarriesMessage
  /\ snd.state \in {"Idle", "SendingSingle", "SendingFirst"} => outbox = <<>>
  /\ snd.state = "SendingSingle" => Len(snd.payload) <= SingleMax
  /\ snd.state \in {"WaitingFlowControl", "SendingConsecutive"} =>
       /\ CarriesSegments(outbox, snd.payload)
       /\ snd.sequence = Len(outbox) % SnModulus

(* Residues, one after the other.                                          *)
LEMMA Residue ==
  ASSUME NEW M \in Nat, M > 1, NEW q \in Nat, NEW s \in 0..(M - 1)
  PROVE  (q * M + s) % M = s
OBVIOUS

LEMMA NextResidue ==
  ASSUME NEW M \in Nat, M > 1, NEW n \in Nat
  PROVE  (n + 1) % M = ((n % M) + 1) % M
<1> DEFINE q == n \div M
           r == n % M
<1>1. q \in Nat /\ r \in 0..(M - 1) /\ n = q * M + r
  OBVIOUS
<1> HIDE DEF q, r
<1>2. CASE r + 1 < M
  <2>1. n + 1 = q * M + (r + 1) /\ r + 1 \in 0..(M - 1)
    BY <1>1, <1>2
  <2>2. (q * M + (r + 1)) % M = r + 1
    BY <1>1, <2>1, Residue
  <2>3. (r + 1) % M = r + 1
    BY <2>1
  <2>4. (n + 1) % M = r + 1
    BY <2>1, <2>2
  <2> QED BY <2>3, <2>4 DEF r
<1>3. CASE r + 1 = M
  <2>1. n + 1 = (q + 1) * M + 0 /\ q + 1 \in Nat
    BY <1>1, <1>3
  <2>2. \A k \in Nat : (k * M + 0) % M = 0
    <3>1. 0 \in 0..(M - 1)
      OBVIOUS
    <3> QED BY <3>1, Residue
  <2>3. (r + 1) % M = 0
    BY <1>3
  <2>4. (n + 1) % M = 0
    <3>1. ((q + 1) * M + 0) % M = 0
      BY <2>1, <2>2
    <3> QED BY <2>1, <3>1
  <2> QED BY <2>3, <2>4 DEF r
<1> QED BY <1>1, <1>2, <1>3

(* A frame holds its slice of the message, then padding, and fits.         *)
LEMMA PaddedSlice ==
  ASSUME NEW data \in Seq(Byte), NEW pciBytes \in Nat,
         Header + pciBytes + Len(data) <= FrameBytes
  PROVE  /\ Header + pciBytes + Len(Padded(data, pciBytes)) <= FrameBytes
         /\ SubSeq(Padded(data, pciBytes), 1, Len(data)) = data
         /\ \A i \in (Len(data) + 1)..Len(Padded(data, pciBytes)) :
              Padded(data, pciBytes)[i] = Pad
<1> DEFINE size == Len(data)
           room == FrameBytes - Header - pciBytes - size
           fill == [i \in 1..room |-> Pad]
           all  == Padded(data, pciBytes)
<1>0. /\ size \in Nat /\ room \in Nat /\ FrameBytes \in Nat /\ Header \in Nat
      /\ Header + pciBytes + (size + room) = FrameBytes
  BY ProtocolAssumption, LenProperties
<1>1. all \in Seq(Byte)
  BY PaddedBytes
<1>2. CASE PadFrames /\ ~UseCanFd
  <2>1. all = data \o fill
    BY <1>2 DEF Padded
  <2>2. fill \in Seq(Byte) /\ Len(fill) = room
    <3>1. \A n \in Nat : [i \in 1..n |-> Pad] \in Seq(Byte) /\ Len([i \in 1..n |-> Pad]) = n
      BY ConfigAssumption
    <3> HIDE DEF room
    <3> QED BY <1>0, <3>1
  <2>3. \A i \in 1..room : fill[i] = Pad
    OBVIOUS
  <2> HIDE DEF fill, all, room
  <2>4. /\ Len(all) = size + room
        /\ \A i \in 1..size : all[i] = data[i]
        /\ \A i \in (size + 1)..(size + room) : all[i] = fill[i - size]
    BY <1>0, <2>1, <2>2, ConcatProperties
  <2>5. \A i \in (size + 1)..Len(all) : all[i] = Pad
    BY <1>0, <2>3, <2>4
  <2>6. SubSeq(all, 1, size) = data
    <3>1. 1..size \subseteq 1..Len(all)
      BY <1>0, <2>4
    <3>2. /\ SubSeq(all, 1, size) \in Seq(Byte) /\ Len(SubSeq(all, 1, size)) = size
          /\ \A i \in 1..size : SubSeq(all, 1, size)[i] = all[i]
      BY <1>0, <1>1, <2>4, SubSeqProperties, SliceOfBytes
    <3> QED BY <2>4, <3>2, SeqEqual
  <2> QED BY <1>0, <2>4, <2>5, <2>6 DEF all
<1>3. CASE ~(PadFrames /\ ~UseCanFd)
  <2>1. all = data
    BY <1>3 DEF Padded
  <2> HIDE DEF all
  <2>2. SubSeq(all, 1, size) = data
    <3>1. /\ SubSeq(all, 1, size) \in Seq(Byte) /\ Len(SubSeq(all, 1, size)) = size
          /\ \A i \in 1..size : SubSeq(all, 1, size)[i] = all[i]
      BY <1>0, <1>1, <2>1, SubSeqProperties, SliceOfBytes
    <3> QED BY <2>1, <3>1, SeqEqual
  <2> QED BY <1>0, <2>1, <2>2 DEF all
<1> QED BY <1>2, <1>3

LEMMA FrameCarries ==
  ASSUME NEW m \in Seq(Byte), NEW from \in Nat \ {0}, NEW count \in Nat,
         from + count - 1 <= Len(m), NEW pciBytes \in Nat,
         Header + pciBytes + count <= FrameBytes, NEW frame,
         frame.data = Padded(SubSeq(m, from, from + count - 1), pciBytes)
  PROVE  /\ CarriesSlice(frame, m, from, count)
         /\ Header + pciBytes + Len(frame.data) <= FrameBytes
<1> DEFINE upto == from + count - 1
           slice == SubSeq(m, from, upto)
<1>1. upto \in Nat /\ upto <= Len(m) /\ upto - from + 1 = count
  OBVIOUS
<1>2. slice \in Seq(Byte) /\ Len(slice) = count
  BY <1>1, SliceOfBytes, SubSeqProperties, LenProperties
<1> HIDE DEF slice
<1> QED BY <1>2, PaddedSlice DEF CarriesSlice, slice

LEMMA SegmentsGrow ==
  ASSUME NEW frames \in Seq(DataPdu), NEW m, CarriesSegments(frames, m),
         NEW f \in DataPdu, ConsecutiveFits(f, m, Len(frames) + 1)
  PROVE  CarriesSegments(Append(frames, f), m)
<1> DEFINE more == Append(frames, f)
           count == Len(frames)
<1>1. /\ count \in Nat /\ count > 0 /\ Len(more) = count + 1
      /\ more[count + 1] = f /\ \A i \in 1..count : more[i] = frames[i]
  BY AppendProperties, LenProperties DEF CarriesSegments
<1>2. ASSUME NEW k \in 2..Len(more)
      PROVE  ConsecutiveFits(more[k], m, k)
  <2>1. CASE k = count + 1
    BY <1>1, <2>1
  <2>2. CASE k # count + 1
    <3>1. k \in 2..count /\ k \in 1..count
      BY <1>1, <2>2
    <3>2. ConsecutiveFits(frames[k], m, k)
      BY <3>1 DEF CarriesSegments
    <3> QED BY <1>1, <3>1, <3>2
  <2> QED BY <2>1, <2>2
<1>3. more[1] = frames[1] /\ Len(more) > 0
  BY <1>1
<1> HIDE DEF more, count
<1> QED BY <1>2, <1>3 DEF CarriesSegments, more

(* How far the first k frames of a segmented message reach.                *)
LEMMA FirstReach ==
  ASSUME NEW size \in Nat, size > SingleMax
  PROVE  ReachedBy(1, size) = Smaller(FirstRoom(size), size)
<1>1. ConsecutiveRoom \in Nat /\ FirstRoom(size) \in Nat
  BY ProtocolAssumption, FirstRoomBound DEF ConsecutiveRoom
<1>2. FirstRoom(size) + (1 - 1) * ConsecutiveRoom = FirstRoom(size)
  BY <1>1
<1> QED BY <1>2 DEF ReachedBy

LEMMA NextReach ==
  ASSUME NEW size \in Nat, size > SingleMax, NEW k \in Nat \ {0},
         ReachedBy(k, size) < size
  PROVE  /\ ReachedBy(k, size) \in Nat
         /\ ReachedBy(k, size) < ReachedBy(k + 1, size)
         /\ ReachedBy(k + 1, size)
              = ReachedBy(k, size) + Smaller(ConsecutiveRoom, size - ReachedBy(k, size))
<1> DEFINE room == ConsecutiveRoom
           first == FirstRoom(size)
           here == first + (k - 1) * room
           next == first + ((k + 1) - 1) * room
<1>1. room \in Nat /\ room > 0 /\ first \in Nat
  BY ProtocolAssumption, FirstRoomBound DEF ConsecutiveRoom
<1>2. /\ ReachedBy(k, size) = Smaller(here, size)
      /\ ReachedBy(k + 1, size) = Smaller(next, size)
  BY DEF ReachedBy
<1> HIDE DEF room, first
<1>3. here \in Nat /\ next = here + room
  <2>1. \A a, b \in Nat : a * b \in Nat /\ (a + 1) * b = a * b + b
    OBVIOUS
  <2>2. k - 1 \in Nat /\ (k + 1) - 1 = (k - 1) + 1
    OBVIOUS
  <2>3. (k - 1) * room \in Nat /\ ((k - 1) + 1) * room = (k - 1) * room + room
    BY <1>1, <2>1, <2>2
  <2> DEFINE gone == (k - 1) * room
  <2>4. next = first + (gone + room)
    BY <2>2, <2>3
  <2> HIDE DEF gone, next
  <2> QED BY <1>1, <2>3, <2>4 DEF gone
<1> HIDE DEF here, next
<1> QED BY <1>1, <1>2, <1>3 DEF Smaller, room

(* Every frame that leaves keeps the wire true to the message.             *)
LEMMA SentWhole ==
  ASSUME SenderTypeOK, SenderInv, WireInv, SendSingle
  PROVE  WireInv'
<1> DEFINE m == snd.payload
           frame == SingleFrameOf(m)
<1>1. /\ m \in Seq(Byte) /\ Len(m) \in Nat /\ Len(m) <= SingleMax
      /\ outbox = <<>> /\ outbox' = Append(outbox, frame)
      /\ snd'.payload = m /\ snd'.offset = Len(m) /\ snd'.state = "Finished"
  BY LenProperties DEF SendSingle, SingleSent, WireInv, SenderTypeOK, SenderMembers
<1>2. frame.pci = "SF" /\ frame.num = Len(m) /\ frame.data = Padded(m, 1)
  BY DEF SingleFrameOf, SingleFrame
<1>3. Header + 1 + Len(m) <= FrameBytes
  <2> DEFINE size == Len(m)
  <2>1. size \in Nat /\ size <= FrameBytes - 1 - Header
    BY <1>1 DEF SingleMax
  <2> HIDE DEF size
  <2>2. Header + 1 + size <= FrameBytes
    BY <2>1, ProtocolAssumption
  <2> QED BY <2>2 DEF size
<1> HIDE DEF m, frame
<1>4. outbox' = <<frame>> /\ Len(outbox') = 1 /\ outbox'[1] = frame
  BY <1>1
<1>5. CarriesSlice(frame, m, 1, Len(m)) /\ Header + 1 + Len(frame.data) <= FrameBytes
  <2>1. SubSeq(m, 1, 1 + Len(m) - 1) = m
    <3>1. 1 + Len(m) - 1 = Len(m)
      BY <1>1
    <3>2. /\ SubSeq(m, 1, Len(m)) \in Seq(Byte) /\ Len(SubSeq(m, 1, Len(m))) = Len(m)
          /\ \A i \in 1..Len(m) : SubSeq(m, 1, Len(m))[i] = m[i]
      BY <1>1, SubSeqProperties, SliceOfBytes
    <3> QED BY <1>1, <3>1, <3>2, SeqEqual
  <2>2. 1 + Len(m) - 1 <= Len(m) /\ 1 \in Nat \ {0} /\ 1 \in Nat
    BY <1>1
  <2>3. frame.data = Padded(SubSeq(m, 1, 1 + Len(m) - 1), 1)
    BY <1>2, <2>1
  <2> QED BY <1>1, <1>3, <2>2, <2>3, FrameCarries
<1>6. Fits(frame)
  BY <1>2, <1>5 DEF Fits
<1>7. \A k \in 1..Len(outbox') : Fits(outbox'[k])
  BY <1>4, <1>6
<1>8. CarriesWhole(outbox', snd'.payload)
  BY <1>1, <1>2, <1>4, <1>5 DEF CarriesWhole
<1> QED BY <1>1, <1>7, <1>8 DEF WireInv, WireCarriesMessage

LEMMA SentFirst ==
  ASSUME SenderTypeOK, SenderInv, WireInv, SendFirst
  PROVE  WireInv'
<1> DEFINE m == snd.payload
           size == Len(m)
           take == FirstTake(m)
           pciBytes == FirstPciBytes(size)
           frame == FirstFrameOf(m)
<1>1. /\ m \in Seq(Byte) /\ size \in Nat /\ size > SingleMax
      /\ outbox = <<>> /\ outbox' = Append(outbox, frame)
      /\ snd'.payload = m /\ snd'.offset = take /\ snd'.state = "WaitingFlowControl"
      /\ snd'.sequence = 1
  BY LenProperties DEF SendFirst, FirstSent, SenderInv, WireInv, SenderTypeOK, SenderMembers
<1>2. /\ frame.pci = "FF" /\ frame.num = size
      /\ frame.data = Padded(SubSeq(m, 1, take), pciBytes)
  BY DEF FirstFrameOf, FirstFrame
<1>3. /\ take = FirstRoom(size) /\ take \in Nat /\ take <= size
      /\ take = ReachedBy(1, size) /\ pciBytes \in Nat
  BY <1>1, FirstRoomBound, FirstReach DEF FirstTake
<1>4. Header + pciBytes + take <= FrameBytes
  BY <1>1, <1>3, ProtocolAssumption DEF FirstRoom, FirstPciBytes
<1>5. pciBytes = IF frame.num > ClassicMax THEN 6 ELSE 2
  BY <1>1, <1>2, ProtocolAssumption DEF FirstPciBytes
<1> HIDE DEF m, size, take, pciBytes, frame
<1>6. outbox' = <<frame>> /\ Len(outbox') = 1 /\ outbox'[1] = frame
  BY <1>1
<1>7. CarriesSlice(frame, m, 1, take) /\ Header + pciBytes + Len(frame.data) <= FrameBytes
  <2>1. 1 + take - 1 = take /\ 1 \in Nat \ {0} /\ 1 + take - 1 <= Len(m)
    BY <1>1, <1>3 DEF size
  <2>2. frame.data = Padded(SubSeq(m, 1, 1 + take - 1), pciBytes)
    BY <1>2, <2>1
  <2> QED BY <1>1, <1>3, <1>4, <2>1, <2>2, FrameCarries
<1>8. Fits(frame)
  BY <1>2, <1>5, <1>7 DEF Fits
<1>9. \A k \in 1..Len(outbox') : Fits(outbox'[k])
  BY <1>6, <1>8
<1>10. CarriesSegments(outbox', snd'.payload)
  BY <1>1, <1>2, <1>3, <1>6, <1>7 DEF CarriesSegments, size
<1>11. snd'.sequence = Len(outbox') % SnModulus
  BY <1>1, <1>6, ProtocolAssumption
<1>12. snd'.offset = ReachedBy(Len(outbox'), Len(snd'.payload))
  BY <1>1, <1>3, <1>6 DEF size
<1> QED BY <1>1, <1>9, <1>10, <1>11, <1>12 DEF WireInv, WireCarriesMessage

LEMMA SentConsecutive ==
  ASSUME SenderTypeOK, SenderInv, WireInv, SendConsecutive
  PROVE  WireInv'
<1> DEFINE m == snd.payload
           size == Len(m)
           count == Len(outbox)
           from == snd.offset
           take == Smaller(ConsecutiveRoom, size - from)
           frame == ConsecutiveFrame(snd.sequence, Padded(SubSeq(m, from + 1, from + take), 1))
<1>1. /\ m \in Seq(Byte) /\ size \in Nat /\ from \in Nat /\ from < size
      /\ outbox \in Seq(DataPdu) /\ count \in Nat
      /\ CarriesSegments(outbox, m) /\ snd.sequence = count % SnModulus
      /\ WireCarriesMessage
  BY LenProperties DEF SendConsecutive, SenderInv, OkMeansAllSent, WireInv, SenderTypeOK, SenderMembers
<1>2. count > 0 /\ outbox[1].pci = "FF" /\ size > SingleMax
  BY <1>1 DEF CarriesSegments
<1>3. from = ReachedBy(count, size) /\ \A k \in 1..count : Fits(outbox[k])
  BY <1>1, <1>2 DEF WireCarriesMessage, CarriesWhole
<1>4. /\ from < ReachedBy(count + 1, size) /\ ReachedBy(count + 1, size) = from + take
  BY <1>1, <1>2, <1>3, NextReach
<1>5. take \in Nat /\ take <= ConsecutiveRoom /\ from + take <= size
  BY <1>1, ProtocolAssumption DEF Smaller, ConsecutiveRoom
<1>6. frame.pci = "CF" /\ frame.num = snd.sequence
      /\ frame.data = Padded(SubSeq(m, from + 1, from + take), 1)
  BY DEF ConsecutiveFrame
<1>7. outbox' = Append(outbox, frame)
  BY DEF SendConsecutive
<1>8. /\ snd'.payload = m /\ snd'.offset = from + take
      /\ snd'.state \in {"Finished", "WaitingFlowControl", "SendingConsecutive"}
      /\ snd'.sequence = NextSequence(snd.sequence)
  <2> HIDE DEF take
  <2> QED BY DEF SendConsecutive, AwaitingNextBlock, SenderTypeOK, SenderMembers, take
<1>9. frame \in DataPdu
  <2>1. SubSeq(m, from + 1, from + take) \in Seq(Byte)
    BY <1>1, <1>5, SliceOfBytes
  <2>2. snd.sequence \in Nat
    BY DEF SenderTypeOK, SenderMembers
  <2> QED BY <2>1, <2>2, PaddedBytes DEF ConsecutiveFrame, DataPdu
<1> HIDE DEF m, size, count, from, take, frame
<1>10. CarriesSlice(frame, m, from + 1, take) /\ Header + 1 + Len(frame.data) <= FrameBytes
  <2>1. /\ (from + 1) + take - 1 = from + take /\ from + 1 \in Nat \ {0}
        /\ (from + 1) + take - 1 <= Len(m) /\ 1 \in Nat
    BY <1>1, <1>5 DEF size
  <2>2. Header + 1 + take <= FrameBytes
    BY <1>5, ProtocolAssumption DEF ConsecutiveRoom
  <2>3. frame.data = Padded(SubSeq(m, from + 1, (from + 1) + take - 1), 1)
    BY <1>6, <2>1
  <2> QED BY <1>1, <1>5, <2>1, <2>2, <2>3, FrameCarries
<1>11. ConsecutiveFits(frame, m, count + 1)
  <2>1. (count + 1) - 1 = count /\ (from + take) - from = take
    BY <1>1, <1>5
  <2> QED BY <1>1, <1>3, <1>4, <1>6, <1>10, <2>1 DEF ConsecutiveFits, size
<1>12. CarriesSegments(outbox', m)
  BY <1>1, <1>7, <1>9, <1>11, SegmentsGrow DEF count
<1>13. /\ Len(outbox') = count + 1 /\ outbox'[count + 1] = frame
       /\ \A k \in 1..count : outbox'[k] = outbox[k]
  BY <1>1, <1>7, <1>9, AppendProperties DEF count
<1>14. Fits(frame)
  BY <1>6, <1>10 DEF Fits
<1>15. \A k \in 1..Len(outbox') : Fits(outbox'[k])
  BY <1>1, <1>3, <1>13, <1>14
<1>16. snd'.sequence = Len(outbox') % SnModulus
  BY <1>1, <1>8, <1>13, NextResidue, ProtocolAssumption DEF NextSequence
<1>17. snd'.offset = ReachedBy(Len(outbox'), Len(snd'.payload))
  BY <1>4, <1>8, <1>13 DEF size
<1> QED BY <1>8, <1>12, <1>15, <1>16, <1>17 DEF WireInv, WireCarriesMessage

(* A step that sends nothing and keeps the message, the bytes sent and the *)
(* sequence number.                                                        *)
LEMMA NothingSent ==
  ASSUME WireInv, UNCHANGED outbox, snd'.payload = snd.payload,
         snd'.offset = snd.offset, snd'.sequence = snd.sequence,
         snd'.result # "Ok" \/ snd'.result = snd.result,
         \/ snd'.state \in {snd.state, "Finished"}
         \/ /\ snd.state = "WaitingFlowControl" /\ snd'.state = "SendingConsecutive"
  PROVE  WireInv'
<1>1. \A k \in 1..Len(outbox') : Fits(outbox'[k])
  BY DEF WireInv, WireCarriesMessage
<1>2. WireCarriesMessage'
  BY <1>1 DEF WireInv, WireCarriesMessage
<1> QED BY <1>2 DEF WireInv

LEMMA WireStep ==
  ASSUME SenderTypeOK, SenderInv, WireInv, [SenderNext]_senderVars
  PROVE  WireInv'
<1>1. CASE UNCHANGED senderVars
  BY <1>1, NothingSent DEF senderVars
<1>2. ASSUME NEW m \in Messages, Begin(m)
      PROVE  WireInv'
  <2>1. outbox = <<>> /\ outbox' = <<>>
    BY <1>2 DEF Begin, WireInv
  <2>2. /\ snd'.payload = m /\ snd'.offset = 0 /\ snd'.result = "InProgress"
        /\ snd'.state = IF Len(m) <= SingleMax THEN "SendingSingle" ELSE "SendingFirst"
    BY <1>2 DEF Begin, Begun, SenderTypeOK, SenderMembers
  <2>3. \A k \in 1..Len(outbox') : Fits(outbox'[k])
    BY <2>1
  <2> QED BY <2>1, <2>2, <2>3 DEF WireInv, WireCarriesMessage
<1>3. CASE AbortSending
  BY <1>3, NothingSent DEF AbortSending, SenderTypeOK, SenderMembers
<1>4. CASE FlowControlTimeout
  BY <1>4, NothingSent DEF FlowControlTimeout, SenderFails, SenderTypeOK, SenderMembers
<1>5. ASSUME NEW f \in PeerFrames, SenderOnFrame(f)
      PROVE  WireInv'
  <2>1. CASE IgnoreFrame(f)
    BY <2>1, NothingSent DEF IgnoreFrame, senderVars
  <2>2. CASE OutOfPlace(f) \/ MalformedFlowControl(f) \/ PeerOverflow(f)
    BY <2>2, NothingSent DEF OutOfPlace, MalformedFlowControl, PeerOverflow, SenderFails,
                             SenderTypeOK, SenderMembers
  <2>3. CASE ContinueToSend(f)
    BY <2>3, NothingSent DEF ContinueToSend, AwaitedFlowControl, SenderTypeOK, SenderMembers
  <2>4. CASE KeepWaiting(f)
    BY <2>4, NothingSent DEF KeepWaiting, SenderTypeOK, SenderMembers
  <2> QED BY <1>5, <2>1, <2>2, <2>3, <2>4 DEF SenderOnFrame
<1>6. CASE SenderElapse
  BY <1>6, NothingSent DEF SenderElapse, SenderAged, SenderTypeOK, SenderMembers
<1> QED BY <1>1, <1>2, <1>3, <1>4, <1>5, <1>6, SentWhole, SentFirst, SentConsecutive
           DEF SenderNext, SenderPoll

LEMMA WireInductive == SenderSpec => [](SenderTypeOK /\ SenderInv /\ WireInv)
<1>1. SenderInit => WireInv
  <2>1. \A k \in 1..Len(<<>>) : FALSE
    OBVIOUS
  <2> QED BY <2>1 DEF SenderInit, FreshSender, WireInv, WireCarriesMessage
<1>2. SenderTypeOK /\ SenderInv /\ WireInv /\ [SenderNext]_senderVars => WireInv'
  BY WireStep
<1> QED BY <1>1, <1>2, SenderInductive, PTL DEF SenderSpec

(* Whatever the peer answers, the frames poll() hands over fit a CAN frame *)
(* and carry the message in order, each byte once, the frames numbered     *)
(* modulo 16 without a gap and nothing but padding behind the last byte.   *)
THEOREM WireCarriesMessageHolds == SenderSpec => []WireCarriesMessage
<1>1. WireInv => WireCarriesMessage
  BY DEF WireInv
<1> QED BY <1>1, WireInductive, PTL

-----------------------------------------------------------------------------
(* The sender under the eye of its peer.  What the peer remembers agrees   *)
(* with what the sender keeps: while it sends, the block it was granted,   *)
(* the frames used of it and the time that has to pass; while it waits,    *)
(* the time it has waited so far and the WAITs it was told.                *)
Memory ==
  [granted : BOOLEAN, allowed : 0..(CountModulus - 1), spacing : Nat, used : Nat,
   sinceFrame : Nat, silence : Nat, waits : Nat]

KeepsTheGrant ==
  ~SenderDone /\ snd.state = "SendingConsecutive" =>
    /\ watch.granted /\ watch.allowed = snd.block_size
    /\ snd.block_size # 0 => watch.used = snd.frames_in_block /\ watch.used < watch.allowed
    /\ watch.spacing = snd.st_min /\ watch.spacing <= WatchCap
    /\ watch.used > 0 => watch.sinceFrame + snd.next_send >= watch.spacing
    /\ watch.used = 0 => watch.silence + snd.next_send >= N_Cs

KeepsPatience ==
  ~SenderDone /\ snd.state = "WaitingFlowControl" => watch.silence + snd.deadline >= N_Bs

CountsWaits ==
  /\ WftMax # 0 /\ ~SenderDone =>
       watch.waits = snd.wait_count /\ snd.wait_count <= WftMax
  /\ snd.result = "WaitOverrun" => WftMax # 0 /\ watch.waits > WftMax

WatchInv == watch \in Memory /\ KeepsTheGrant /\ KeepsPatience

LEMMA OneMoreType ==
  ASSUME NEW n \in Nat
  PROVE  OneMore(n) \in Nat /\ OneMore(n) >= Smaller(n, WatchCap)
BY WatchAssumption DEF OneMore, Smaller

LEMMA WatchedRefines == [WatchedNext]_watchVars => [SenderNext]_senderVars
BY DEF WatchedNext, SenderNext, watchVars, senderVars

(* A poll() hands over at most one frame; only send_consecutive() makes it *)
(* a Consecutive Frame.                                                    *)
LEMMA FrameAppended ==
  ASSUME SenderTypeOK, NEW f, outbox' = Append(outbox, f)
  PROVE  outbox' # outbox /\ outbox'[Len(outbox')] = f
<1>1. outbox \in Seq(DataPdu) /\ Len(outbox) \in Nat
  BY LenProperties DEF SenderTypeOK
<1>2. Len(outbox') = Len(outbox) + 1 /\ outbox'[Len(outbox) + 1] = f
  BY <1>1
<1> QED BY <1>1, <1>2

LEMMA OnlyConsecutive ==
  ASSUME SenderTypeOK, [WatchedNext]_watchVars, SendsConsecutive
  PROVE  SendConsecutive /\ SeeFrames
<1>1. outbox' # outbox
  BY DEF SendsConsecutive
<1>2. SenderPoll /\ SeeFrames
  <2>1. ASSUME NEW f \in PeerFrames, SenderOnFrame(f) PROVE FALSE
    BY <1>1, <2>1 DEF SenderOnFrame, IgnoreFrame, OutOfPlace, MalformedFlowControl,
                 ContinueToSend, KeepWaiting, PeerOverflow, senderVars
  <2> QED BY <1>1, <2>1 DEF WatchedNext, watchVars, Begin, AbortSending, SenderElapse
<1>3. ~SendSingle
  <2>1. SUFFICES ASSUME SendSingle PROVE FALSE
    OBVIOUS
  <2>2. outbox'[Len(outbox')].pci = "SF"
    BY <2>1, FrameAppended DEF SendSingle, SingleFrameOf, SingleFrame
  <2> QED BY <2>2 DEF SendsConsecutive
<1>4. ~SendFirst
  <2>1. SUFFICES ASSUME SendFirst PROVE FALSE
    OBVIOUS
  <2>2. outbox'[Len(outbox')].pci = "FF"
    BY <2>1, FrameAppended DEF SendFirst, FirstFrameOf, FirstFrame
  <2> QED BY <2>2 DEF SendsConsecutive
<1>5. ~FlowControlTimeout
  BY <1>1 DEF FlowControlTimeout
<1> QED BY <1>2, <1>3, <1>4, <1>5 DEF SenderPoll

LEMMA WatchStep ==
  ASSUME SenderTypeOK, WatchInv, [WatchedNext]_watchVars
  PROVE  WatchInv'
<1>0. /\ snd \in SenderMembers /\ watch \in Memory
      /\ snd.deadline \in Nat /\ snd.next_send \in Nat /\ snd.st_min \in Nat
      /\ snd.block_size \in Nat /\ snd.frames_in_block \in Nat
      /\ watch.silence \in Nat /\ watch.sinceFrame \in Nat /\ watch.used \in Nat
      /\ watch.allowed \in Nat /\ watch.waits \in Nat /\ watch.spacing \in Nat
  BY ProtocolAssumption DEF SenderTypeOK, SenderMembers, WatchInv, Memory
<1>c. N_Bs \in Nat /\ N_Cs \in Nat /\ CountModulus \in Nat /\ 0 \in 0..(CountModulus - 1)
  BY ConfigAssumption, ProtocolAssumption
<1>1. CASE UNCHANGED watchVars
  BY <1>1 DEF watchVars, WatchInv, KeepsTheGrant, KeepsPatience, SenderDone
<1>2. ASSUME NEW m \in Messages, Begin(m), watch' = FreshWatch
      PROVE  WatchInv'
  <2>1. snd'.state \in {"SendingSingle", "SendingFirst"}
    BY <1>0, <1>2 DEF Begin, Begun, SenderMembers
  <2>2. watch' \in Memory
    BY <1>c, <1>2 DEF FreshWatch, Memory
  <2> QED BY <2>1, <2>2 DEF WatchInv, KeepsTheGrant, KeepsPatience
<1>3. CASE AbortSending /\ UNCHANGED watch
  <2>1. snd'.result = "Aborted"
    BY <1>0, <1>3 DEF AbortSending, SenderMembers
  <2> QED BY <1>3, <2>1 DEF WatchInv, KeepsTheGrant, KeepsPatience, SenderDone
<1>4. ASSUME SeeFrames, outbox' # outbox
      PROVE  /\ watch' \in Memory /\ watch'.used = watch.used + 1
             /\ watch'.sinceFrame = 0 /\ watch'.silence = 0
             /\ watch'.granted = watch.granted /\ watch'.allowed = watch.allowed
             /\ watch'.spacing = watch.spacing
  <2> DEFINE more == watch.used + 1
  <2>1. watch' = [watch EXCEPT !.used = more, !.sinceFrame = 0, !.silence = 0]
    BY <1>4 DEF SeeFrames
  <2>2. more \in Nat
    BY <1>0
  <2> HIDE DEF more
  <2>3. /\ watch' \in Memory /\ watch'.used = more
        /\ watch'.sinceFrame = 0 /\ watch'.silence = 0
        /\ watch'.granted = watch.granted /\ watch'.allowed = watch.allowed
        /\ watch'.spacing = watch.spacing
    BY <1>0, <2>1, <2>2 DEF Memory
  <2> QED BY <2>3 DEF more
<1>5. CASE SendSingle /\ SeeFrames
  <2>1. snd'.state = "Finished"
    BY <1>0, <1>5 DEF SendSingle, SingleSent, SenderMembers
  <2>2. outbox' # outbox
    BY <1>5, FrameAppended DEF SendSingle
  <2> QED BY <1>4, <1>5, <2>1, <2>2 DEF WatchInv, KeepsTheGrant, KeepsPatience
<1>6. CASE SendFirst /\ SeeFrames
  <2>1. snd'.state = "WaitingFlowControl" /\ snd'.deadline = N_Bs
    BY <1>0, <1>6 DEF SendFirst, FirstSent, SenderMembers
  <2>2. outbox' # outbox
    BY <1>6, FrameAppended DEF SendFirst
  <2> QED BY <1>c, <1>4, <1>6, <2>1, <2>2 DEF WatchInv, KeepsTheGrant, KeepsPatience
<1>7. CASE FlowControlTimeout /\ SeeFrames
  <2>1. snd'.state = "Finished" /\ watch' = watch
    BY <1>0, <1>7 DEF FlowControlTimeout, SenderFails, SeeFrames, SenderMembers
  <2> QED BY <1>0, <2>1 DEF WatchInv, KeepsTheGrant, KeepsPatience
<1>8. CASE SendConsecutive /\ SeeFrames
  <2>1. outbox' # outbox
    BY <1>8, FrameAppended DEF SendConsecutive
  <2>2. /\ ~SenderDone /\ snd.state = "SendingConsecutive"
    BY <1>8 DEF SendConsecutive
  <2> DEFINE block == snd.block_size
             frames == OneMoreFrame(snd.frames_in_block)
  <2>3. \/ snd'.state = "Finished"
        \/ snd'.state = "WaitingFlowControl" /\ snd'.deadline = N_Bs
        \/ /\ snd'.state = "SendingConsecutive" /\ snd'.block_size = block
           /\ ~(block # 0 /\ frames >= block)
           /\ snd'.frames_in_block = frames /\ snd'.st_min = snd.st_min
           /\ snd'.next_send = snd.st_min
    BY <1>0, <1>8 DEF SendConsecutive, BlockSent, AwaitingNextBlock, SenderMembers
  <2>4. CASE snd'.state = "Finished"
    BY <1>4, <1>8, <2>1, <2>4 DEF WatchInv, KeepsTheGrant, KeepsPatience
  <2>5. CASE snd'.state = "WaitingFlowControl" /\ snd'.deadline = N_Bs
    BY <1>c, <1>4, <1>8, <2>1, <2>5 DEF WatchInv, KeepsTheGrant, KeepsPatience
  <2>6. CASE /\ snd'.state = "SendingConsecutive" /\ snd'.block_size = block
             /\ ~(block # 0 /\ frames >= block)
             /\ snd'.frames_in_block = frames /\ snd'.st_min = snd.st_min
             /\ snd'.next_send = snd.st_min
    <3>1. /\ watch.granted /\ watch.allowed = block
          /\ block # 0 => watch.used = snd.frames_in_block /\ watch.used < block
          /\ watch.spacing = snd.st_min /\ watch.spacing <= WatchCap
      BY <2>2 DEF WatchInv, KeepsTheGrant
    <3>2. block # 0 => frames = snd.frames_in_block + 1
      <4>1. block < CountModulus
        BY <1>0, <1>c DEF SenderMembers
      <4> QED BY <1>0, <1>c, <3>1, <4>1, ProtocolAssumption DEF OneMoreFrame
    <3>3. frames \in Nat
      BY <1>0, <1>c, ProtocolAssumption DEF OneMoreFrame
    <3> HIDE DEF frames, block
    <3>4. /\ watch'.granted /\ watch'.allowed = snd'.block_size
          /\ watch'.spacing = snd'.st_min /\ watch'.spacing <= WatchCap
      BY <1>4, <1>8, <2>1, <2>6, <3>1
    <3>5. snd'.block_size # 0 =>
            watch'.used = snd'.frames_in_block /\ watch'.used < watch'.allowed
      BY <1>0, <1>4, <1>8, <2>1, <2>6, <3>1, <3>2, <3>3 DEF block
    <3>6. watch'.used > 0 /\ watch'.sinceFrame + snd'.next_send >= watch'.spacing
      BY <1>0, <1>4, <1>8, <2>1, <2>6, <3>1
    <3> QED BY <1>0, <1>4, <1>8, <2>1, <2>6, <3>4, <3>5, <3>6
               DEF WatchInv, KeepsTheGrant, KeepsPatience
  <2> QED BY <2>3, <2>4, <2>5, <2>6
<1>9. ASSUME NEW f \in PeerFrames, SenderOnFrame(f), SeeAnswer(f)
      PROVE  WatchInv'
  <2>1. watch' \in Memory
    <3>1. CASE SenderDone \/ f.pci # "FC"
      BY <1>0, <1>9, <3>1 DEF SeeAnswer
    <3>2. CASE ~(SenderDone \/ f.pci # "FC")
      <4>1. f.bs \in 0..(CountModulus - 1) /\ StMinTicks(f.st) \in Nat
        BY <3>2, FlowFields, StMinTicksType
      <4>2. OneMore(watch.waits) \in Nat
        BY <1>0, OneMoreType
      <4> QED BY <1>0, <1>9, <3>2, <4>1, <4>2 DEF SeeAnswer, Memory
    <3> QED BY <3>1, <3>2
  <2>2. CASE IgnoreFrame(f)
    <3>1. watch' = watch
      BY <1>9, <2>2 DEF IgnoreFrame, SenderHears, SeeAnswer
    <3> QED BY <2>1, <2>2, <3>1
            DEF IgnoreFrame, senderVars, WatchInv, KeepsTheGrant, KeepsPatience, SenderDone
  <2>3. CASE OutOfPlace(f) \/ MalformedFlowControl(f) \/ PeerOverflow(f)
    <3>1. snd'.state = "Finished"
      BY <1>0, <2>3 DEF OutOfPlace, MalformedFlowControl, PeerOverflow, SenderFails, SenderMembers
    <3> QED BY <2>1, <3>1 DEF WatchInv, KeepsTheGrant, KeepsPatience
  <2>4. CASE ContinueToSend(f)
    <3>1. /\ f.pci = "FC" /\ ~SenderDone /\ f.status = "ContinueToSend"
      BY <2>4 DEF ContinueToSend, AwaitedFlowControl, SenderHears
    <3>2. /\ snd'.state = "SendingConsecutive" /\ snd'.block_size = f.bs
          /\ snd'.st_min = StMinTicks(f.st) /\ snd'.frames_in_block = 0
          /\ snd'.next_send = N_Cs
      BY <1>0, <2>4 DEF ContinueToSend, SenderMembers
    <3>3. /\ watch'.granted /\ watch'.allowed = f.bs /\ watch'.used = 0
          /\ watch'.spacing = StMinTicks(f.st) /\ watch'.silence = 0
      BY <1>0, <1>9, <3>1 DEF SeeAnswer, Memory
    <3>4. f.bs \in Nat /\ StMinTicks(f.st) <= WatchCap
      BY <1>c, <3>1, FlowFields, WatchAssumption
    <3> QED BY <1>c, <2>1, <3>2, <3>3, <3>4 DEF WatchInv, KeepsTheGrant, KeepsPatience
  <2>5. CASE KeepWaiting(f)
    <3>1. /\ f.pci = "FC" /\ ~SenderDone /\ f.status = "Wait"
          /\ snd.state = "WaitingFlowControl"
      BY <2>5 DEF KeepWaiting, AwaitedFlowControl, SenderHears
    <3>2. \/ snd'.state = "Finished"
          \/ snd'.state = "WaitingFlowControl" /\ snd'.deadline = N_Bs
      BY <1>0, <2>5, <3>1 DEF KeepWaiting, SenderMembers
    <3>3. watch'.silence = 0
      BY <1>0, <1>9, <3>1 DEF SeeAnswer, Memory
    <3> QED BY <1>c, <2>1, <3>2, <3>3 DEF WatchInv, KeepsTheGrant, KeepsPatience
  <2> QED BY <1>9, <2>2, <2>3, <2>4, <2>5 DEF SenderOnFrame
<1>10. CASE SenderElapse /\ SeeTick
  <2> DEFINE d == OneTickLess(snd.deadline)
             due == OneTickLess(snd.next_send)
             since == OneMore(watch.sinceFrame)
             quiet == OneMore(watch.silence)
  <2>1. /\ snd'.state = snd.state /\ snd'.result = snd.result
        /\ snd'.block_size = snd.block_size /\ snd'.frames_in_block = snd.frames_in_block
        /\ snd'.st_min = snd.st_min /\ snd'.deadline = d /\ snd'.next_send = due
    BY <1>0, <1>10 DEF SenderElapse, SenderAged, SenderMembers
  <2>2. SenderDone' <=> SenderDone
    BY <2>1 DEF SenderDone
  <2>3. CASE SenderDone
    BY <1>0, <1>10, <2>2, <2>3 DEF SeeTick, WatchInv, KeepsTheGrant, KeepsPatience
  <2>4. CASE ~SenderDone
    <3>1. watch' = [watch EXCEPT !.sinceFrame = since, !.silence = quiet]
      BY <1>10, <2>4 DEF SeeTick
    <3>2. since \in Nat /\ quiet \in Nat /\ d \in Nat /\ due \in Nat
      BY <1>0, OneMoreType DEF OneTickLess
    <3>3. \A bound \in Nat : bound <= WatchCap =>
            /\ watch.silence + snd.deadline >= bound => quiet + d >= bound
            /\ watch.silence + snd.next_send >= bound => quiet + due >= bound
            /\ watch.sinceFrame + snd.next_send >= bound => since + due >= bound
      <4>1. \A bound, now, left \in Nat : bound <= WatchCap /\ now + left >= bound
               => OneMore(now) + OneTickLess(left) >= bound
        BY WatchAssumption DEF OneMore, Smaller, OneTickLess
      <4> QED BY <1>0, <4>1
    <3> HIDE DEF since, quiet, d, due
    <3>4. /\ watch' \in Memory /\ watch'.used = watch.used
          /\ watch'.granted = watch.granted /\ watch'.allowed = watch.allowed
          /\ watch'.spacing = watch.spacing
          /\ watch'.sinceFrame = since /\ watch'.silence = quiet
      BY <1>0, <3>1, <3>2 DEF Memory
    <3>5. N_Bs <= WatchCap /\ N_Cs <= WatchCap
      BY <1>c, WatchAssumption
    <3>6. KeepsPatience'
      BY <1>c, <2>1, <2>2, <3>3, <3>4, <3>5 DEF WatchInv, KeepsPatience
    <3>7. KeepsTheGrant'
      BY <1>0, <1>c, <2>1, <2>2, <3>3, <3>4, <3>5 DEF WatchInv, KeepsTheGrant
    <3> QED BY <3>4, <3>6, <3>7 DEF WatchInv
  <2> QED BY <2>3, <2>4
<1> QED BY <1>1, <1>2, <1>3, <1>5, <1>6, <1>7, <1>8, <1>9, <1>10 DEF WatchedNext, SenderPoll

LEMMA WatchInductive == WatchedSpec => [](SenderTypeOK /\ SenderInv /\ WatchInv)
<1>1. WatchedSpec => SenderSpec
  BY WatchedRefines, PTL DEF WatchedSpec, SenderSpec, WatchedInit
<1>2. WatchedInit => WatchInv
  BY ProtocolAssumption DEF WatchedInit, SenderInit, FreshSender, FreshWatch, WatchInv, Memory,
                            KeepsTheGrant, KeepsPatience
<1>3. SenderTypeOK /\ WatchInv /\ [WatchedNext]_watchVars => WatchInv'
  BY WatchStep
<1> QED BY <1>1, <1>2, <1>3, SenderInductive, PTL DEF WatchedSpec

(* Against every peer, a Consecutive Frame leaves only under a grant,      *)
(* within its block size, at least STmin after the frame before it and     *)
(* N_Cs after the Flow Control: poll() and on_frame() never outrun a peer. *)
THEOREM FlowControlIsObeyed == WatchedSpec => FlowControlObeyed
<1>1. ASSUME SenderTypeOK, WatchInv, [WatchedNext]_watchVars, SendsConsecutive
      PROVE  /\ watch.granted
             /\ watch.allowed = 0 \/ watch.used < watch.allowed
             /\ IF watch.used > 0 THEN watch.sinceFrame >= watch.spacing
                                  ELSE watch.silence >= N_Cs
  <2>1. /\ ~SenderDone /\ snd.state = "SendingConsecutive" /\ snd.next_send = 0
    BY <1>1, OnlyConsecutive DEF SendConsecutive
  <2>2. /\ watch.used \in Nat /\ watch.sinceFrame \in Nat /\ watch.silence \in Nat
    BY <1>1 DEF WatchInv, Memory
  <2>3. watch.granted /\ (watch.allowed = 0 \/ watch.used < watch.allowed)
    BY <1>1, <2>1 DEF WatchInv, KeepsTheGrant
  <2>4. /\ watch.used > 0 => watch.sinceFrame + 0 >= watch.spacing
        /\ watch.used = 0 => watch.silence + 0 >= N_Cs
    BY <1>1, <2>1 DEF WatchInv, KeepsTheGrant
  <2> QED BY <2>2, <2>3, <2>4
<1>2. SenderTypeOK /\ WatchInv /\ [WatchedNext]_watchVars
        => [SendsConsecutive => /\ watch.granted
                                /\ watch.allowed = 0 \/ watch.used < watch.allowed]_watchVars
  BY <1>1
<1>3. SenderTypeOK /\ WatchInv /\ [WatchedNext]_watchVars
        => [SendsConsecutive => IF watch.used > 0 THEN watch.sinceFrame >= watch.spacing
                                                  ELSE watch.silence >= N_Cs]_watchVars
  BY <1>1
<1> QED BY <1>2, <1>3, WatchInductive, PTL
        DEF WatchedSpec, FlowControlObeyed, GrantRespected, SpacingRespected

LEMMA WaitStep ==
  ASSUME WftMax + 1 < CountModulus, SenderTypeOK, WatchInv, CountsWaits,
         [WatchedNext]_watchVars
  PROVE  CountsWaits'
<1>0. /\ snd \in SenderMembers /\ watch \in Memory
      /\ snd.wait_count \in Nat /\ watch.waits \in Nat /\ WftMax \in Nat
      /\ WatchCap \in Nat /\ WatchCap > WftMax /\ CountModulus \in Nat
  BY ProtocolAssumption, ConfigAssumption, WatchAssumption
     DEF SenderTypeOK, SenderMembers, WatchInv, Memory
<1>1. ASSUME watch'.waits = watch.waits, snd'.wait_count = snd.wait_count,
             snd'.result # "WaitOverrun" \/ snd'.result = snd.result,
             SenderDone => SenderDone'
      PROVE  CountsWaits'
  BY <1>1 DEF CountsWaits, SenderDone
<1>2. ASSUME snd'.result \notin {"InProgress", "WaitOverrun"}
      PROVE  CountsWaits'
  BY <1>2 DEF CountsWaits, SenderDone
<1>3. CASE UNCHANGED watchVars
  BY <1>1, <1>3 DEF watchVars, SenderDone
<1>4. ASSUME NEW m \in Messages, Begin(m), watch' = FreshWatch
      PROVE  CountsWaits'
  <2>1. snd'.wait_count = 0 /\ snd'.result = "InProgress" /\ watch'.waits = 0
    BY <1>0, <1>4 DEF Begin, Begun, FreshWatch, SenderMembers
  <2> QED BY <1>0, <2>1 DEF CountsWaits
<1>5. CASE AbortSending /\ UNCHANGED watch
  BY <1>0, <1>2, <1>5 DEF AbortSending, SenderMembers
<1>6. CASE SenderPoll /\ SeeFrames
  <2>1. watch'.waits = watch.waits
    BY <1>0, <1>6 DEF SeeFrames, Memory
  <2>2. ~SenderDone /\ snd'.wait_count = snd.wait_count /\ snd'.result # "WaitOverrun"
    BY <1>0, <1>6 DEF SenderPoll, SendSingle, SingleSent, SendFirst, FirstSent,
         FlowControlTimeout, SenderFails, SendConsecutive, AwaitingNextBlock, SenderDone,
         SenderMembers
  <2> QED BY <1>1, <2>1, <2>2
<1>7. ASSUME NEW f \in PeerFrames, SenderOnFrame(f), SeeAnswer(f)
      PROVE  CountsWaits'
  <2>1. CASE IgnoreFrame(f)
    <3>1. watch' = watch
      BY <1>7, <2>1 DEF IgnoreFrame, SenderHears, SeeAnswer
    <3> QED BY <1>1, <2>1, <3>1 DEF IgnoreFrame, senderVars, SenderDone
  <2>2. CASE OutOfPlace(f) \/ MalformedFlowControl(f) \/ PeerOverflow(f)
    BY <1>0, <1>2, <2>2
       DEF OutOfPlace, MalformedFlowControl, PeerOverflow, SenderFails, SenderMembers
  <2>3. CASE ContinueToSend(f)
    <3>1. f.pci = "FC" /\ ~SenderDone /\ f.status = "ContinueToSend"
      BY <2>3 DEF ContinueToSend, AwaitedFlowControl, SenderHears
    <3>2. snd'.wait_count = 0 /\ snd'.result = snd.result /\ watch'.waits = 0
      BY <1>0, <1>7, <2>3, <3>1 DEF ContinueToSend, SeeAnswer, SenderMembers, Memory
    <3> QED BY <1>0, <3>1, <3>2 DEF CountsWaits, SenderDone
  <2>4. CASE KeepWaiting(f)
    <3>1. f.pci = "FC" /\ ~SenderDone /\ f.status = "Wait"
      BY <2>4 DEF KeepWaiting, AwaitedFlowControl, SenderHears
    <3> DEFINE waits == OneMoreFrame(snd.wait_count)
    <3>2. watch'.waits = OneMore(watch.waits)
      BY <1>0, <1>7, <3>1 DEF SeeAnswer, Memory
    <3>3. /\ snd'.wait_count = waits
          /\ IF WftMax # 0 /\ waits > WftMax THEN snd'.result = "WaitOverrun"
                                             ELSE snd'.result = snd.result
      BY <1>0, <2>4 DEF KeepWaiting, SenderMembers
    <3>4. WftMax # 0 => /\ watch.waits = snd.wait_count /\ snd.wait_count <= WftMax
      BY <3>1 DEF CountsWaits
    <3>5. WftMax # 0 => waits = snd.wait_count + 1 /\ OneMore(watch.waits) = waits
      BY <1>0, <3>4 DEF OneMoreFrame, OneMore, Smaller
    <3> HIDE DEF waits
    <3> QED BY <1>0, <3>1, <3>2, <3>3, <3>4, <3>5 DEF CountsWaits, SenderDone
  <2> QED BY <1>7, <2>1, <2>2, <2>3, <2>4 DEF SenderOnFrame
<1>8. CASE SenderElapse /\ SeeTick
  <2>1. watch'.waits = watch.waits
    BY <1>0, <1>8 DEF SeeTick, Memory
  <2>2. snd'.wait_count = snd.wait_count /\ snd'.result = snd.result
    BY <1>0, <1>8 DEF SenderElapse, SenderAged, SenderMembers
  <2> QED BY <1>1, <2>1, <2>2 DEF SenderDone
<1> QED BY <1>3, <1>4, <1>5, <1>6, <1>7, <1>8 DEF WatchedNext

(* Against every peer, N_Bs is given in full before the sender gives up,   *)
(* exactly wft_max WAITs in a row are tolerated, and nothing revives a     *)
(* transfer that has ended.  The eight-bit wait counter of on_frame() has  *)
(* to be able to pass wft_max, which leaves out wft_max = 255.             *)
THEOREM TransferEndsOnTime ==
  ASSUME WftMax + 1 < CountModulus
  PROVE  WatchedSpec => EndsOnTime
<1>1. WatchedInit => CountsWaits
  BY ConfigAssumption DEF WatchedInit, SenderInit, FreshSender, FreshWatch, CountsWaits
<1>2. SenderTypeOK /\ WatchInv /\ CountsWaits /\ [WatchedNext]_watchVars => CountsWaits'
  BY WaitStep
<1>3. WatchedSpec => []CountsWaits
  BY <1>1, <1>2, WatchInductive, PTL DEF WatchedSpec
<1>4. ASSUME SenderTypeOK, WatchInv, [WatchedNext]_watchVars,
             snd.result # "TimeoutBs", snd'.result = "TimeoutBs"
      PROVE  watch.silence >= N_Bs
  <2>1. ASSUME NEW f \in PeerFrames, SenderOnFrame(f)
        PROVE  snd'.result # "TimeoutBs"
    BY <1>4, <2>1 DEF SenderOnFrame, IgnoreFrame, OutOfPlace, MalformedFlowControl, ContinueToSend,
             KeepWaiting, PeerOverflow, SenderFails, senderVars, SenderTypeOK, SenderMembers
  <2>2. FlowControlTimeout
    BY <1>4, <2>1 DEF WatchedNext, watchVars, Begin, Begun, AbortSending, SenderElapse, SenderAged,
             SenderPoll, SendSingle, SingleSent, SendFirst, FirstSent, SendConsecutive,
             AwaitingNextBlock, SenderTypeOK, SenderMembers
  <2>3. ~SenderDone /\ snd.state = "WaitingFlowControl" /\ snd.deadline = 0
    BY <2>2 DEF FlowControlTimeout
  <2>4. watch.silence + 0 >= N_Bs /\ watch.silence \in Nat
    BY <1>4, <2>3 DEF WatchInv, KeepsPatience, Memory
  <2> QED BY <2>4
<1>5. SenderTypeOK /\ WatchInv /\ [WatchedNext]_watchVars
        => [snd.result # "TimeoutBs" /\ snd'.result = "TimeoutBs"
              => watch.silence >= N_Bs]_watchVars
  BY <1>4
<1>6. CountsWaits' /\ watch' \in Memory
        => /\ snd'.result = "WaitOverrun" => WftMax # 0 /\ watch'.waits > WftMax
           /\ WftMax # 0 /\ watch'.waits > WftMax => SenderDone'
  <2>1. watch' \in Memory => watch'.waits \in Nat
    BY DEF Memory
  <2> QED BY <2>1, ConfigAssumption DEF CountsWaits, SenderDone
<1>7. CountsWaits' /\ WatchInv'
        => [/\ snd'.result = "WaitOverrun" => WftMax # 0 /\ watch'.waits > WftMax
            /\ WftMax # 0 /\ watch'.waits > WftMax => SenderDone']_watchVars
  BY <1>6 DEF WatchInv
<1>8. ASSUME SenderTypeOK, [WatchedNext]_watchVars, SenderDone, snd.state # "Idle"
      PROVE  outbox' = outbox /\ snd'.result \in {snd.result, "Aborted"}
  <2>1. ASSUME NEW f \in PeerFrames, SenderOnFrame(f)
        PROVE  UNCHANGED senderVars
    BY <1>8, <2>1 DEF SenderOnFrame, IgnoreFrame, OutOfPlace, MalformedFlowControl, ContinueToSend,
             KeepWaiting, PeerOverflow, AwaitedFlowControl, SenderHears
  <2>2. ~SenderPoll /\ \A m \in Messages : ~Begin(m)
    BY <1>8 DEF SenderPoll, SendSingle, SendFirst, FlowControlTimeout, SendConsecutive, Begin
  <2> QED BY <1>8, <2>1, <2>2 DEF WatchedNext, watchVars, senderVars, AbortSending, SenderElapse,
             SenderAged, SenderTypeOK, SenderMembers
<1>9. SenderTypeOK /\ [WatchedNext]_watchVars
        => [SenderDone /\ snd.state # "Idle" =>
              /\ outbox' = outbox
              /\ snd'.result \in {snd.result, "Aborted"}]_watchVars
  BY <1>8
<1> QED BY <1>3, <1>5, <1>7, <1>9, WatchInductive, PTL
        DEF WatchedSpec, EndsOnTime, GivesUpOnTime, WaitsTolerated, EndedIsEnded

-----------------------------------------------------------------------------
(* The strengthening that makes the two invariants inductive: only a       *)
(* finished receiver has a result, an idle one has an empty buffer, and a  *)
(* reception that goes on has been checked against the buffer limit.       *)
UnderWay == rcv.state \in {"SendFlowControl", "Receiving"}
ReceiverInv ==
  /\ NeverPastTheAnnouncedLength
  /\ OkIsComplete
  /\ rcv.state # "Finished" => rcv.result = "InProgress"
  /\ rcv.state = "Idle" => rcv.payload = <<>>
  /\ UnderWay => rcv.expected > 0
  /\ UnderWay /\ rcv.pending = "ContinueToSend" => rcv.expected <= MaxReceive
  /\ rcv.state = "Receiving" => rcv.pending = "ContinueToSend"

-----------------------------------------------------------------------------
LEMMA PrefixOfBytes ==
  ASSUME NEW s \in Seq(Byte), NEW n \in 0..Len(s)
  PROVE  SubSeq(s, 1, n) \in Seq(Byte) /\ Len(SubSeq(s, 1, n)) = n
<1>1. \A i \in 1..n : s[i] \in Byte
  BY LenProperties, ElementOfSeq
<1> QED BY <1>1, SubSeqProperties, LenProperties

(* The fields of a PDU, once its kind is known.                            *)
LEMMA PduFields ==
  ASSUME NEW f \in PeerFrames
  PROVE  f.pci \in {"SF", "FF", "CF"} => f.num \in Nat /\ f.data \in Seq(Byte)
BY PortInputs DEF Pdu, DataPdu, FlowPdu, ForeignPdu

(* The counters stay within the fields the code keeps them in.             *)
LEMMA CountersInRange ==
  ASSUME NEW n \in Nat
  PROVE  /\ OneMoreFrame(n) \in 0..(CountModulus - 1)
         /\ NextSequence(n) \in 0..(SnModulus - 1)
<1>1. OneMoreFrame(n) \in 0..(CountModulus - 1)
  BY ProtocolAssumption DEF OneMoreFrame
<1>2. NextSequence(n) \in 0..(SnModulus - 1)
  BY ProtocolAssumption DEF NextSequence
<1> QED BY <1>1, <1>2

LEMMA ReceiverTypeInit == ReceiverInit => ReceiverTypeOK
BY ConfigAssumption, EmptySeq, ProtocolAssumption
   DEF ReceiverInit, FreshReceiver, ReceiverTypeOK, ReceiverState, TransferResult, FlowPdu

(* The two steps that put bytes in the buffer keep it a sequence of bytes. *)
LEMMA AcceptedBytes ==
  ASSUME ReceiverTypeOK, NEW f \in PeerFrames
  PROVE  /\ AcceptSingle(f) => /\ rcv'.payload \in Seq(Byte)
                               /\ Len(rcv'.payload) = f.num
         /\ AcceptFirst(f) => /\ rcv'.payload \in Seq(Byte)
                              /\ Len(rcv'.payload) <= f.num
         /\ AcceptConsecutive(f) /\ Len(rcv.payload) <= rcv.expected
              => /\ rcv'.payload \in Seq(Byte)
                 /\ Len(rcv'.payload) <= rcv.expected
<1>1. ASSUME AcceptSingle(f)
      PROVE  rcv'.payload \in Seq(Byte) /\ Len(rcv'.payload) = f.num
  <2>1. f.num \in 0..Len(f.data) /\ f.data \in Seq(Byte)
    BY <1>1, PduFields, LenProperties DEF AcceptSingle, AcceptsSingle, Starts, BadSingle
  <2>2. rcv'.payload = SubSeq(f.data, 1, f.num)
    BY <1>1 DEF AcceptSingle, AcceptsSingle, ReceiverTypeOK
  <2> QED BY <2>1, <2>2, PrefixOfBytes
<1>2. ASSUME AcceptFirst(f)
      PROVE  rcv'.payload \in Seq(Byte) /\ Len(rcv'.payload) <= f.num
  <2> DEFINE take == Smaller(Len(f.data), f.num)
  <2>1. f.data \in Seq(Byte) /\ take \in 0..Len(f.data) /\ take <= f.num
    BY <1>2, PduFields, LenProperties DEF AcceptFirst, Starts, Smaller
  <2>2. rcv'.payload = SubSeq(f.data, 1, take)
    BY <1>2 DEF AcceptFirst, ReceiverTypeOK
  <2> HIDE DEF take
  <2> QED BY <2>1, <2>2, PrefixOfBytes
<1>3. ASSUME AcceptConsecutive(f), Len(rcv.payload) <= rcv.expected
      PROVE  rcv'.payload \in Seq(Byte) /\ Len(rcv'.payload) <= rcv.expected
  <2> DEFINE take == BytesTaken(f)
  <2>1. /\ f.data \in Seq(Byte) /\ rcv.payload \in Seq(Byte)
        /\ take \in 0..Len(f.data) /\ Len(rcv.payload) + take <= rcv.expected
    BY <1>3, PduFields, LenProperties
       DEF AcceptConsecutive, AcceptsConsecutive, Taken, BytesTaken, Smaller, ReceiverTypeOK
  <2> DEFINE added == SubSeq(f.data, 1, take)
  <2>2. rcv'.payload = rcv.payload \o added
    BY <1>3 DEF AcceptConsecutive, AcceptsConsecutive, Taken, ReceiverTypeOK
  <2> HIDE DEF take
  <2>3. added \in Seq(Byte) /\ Len(added) = take
    BY <2>1, PrefixOfBytes
  <2> HIDE DEF added
  <2>4. /\ rcv'.payload \in Seq(Byte)
        /\ Len(rcv'.payload) = Len(rcv.payload) + take
    BY <2>1, <2>2, <2>3, ConcatProperties
  <2> QED BY <2>1, <2>4
<1> QED BY <1>1, <1>2, <1>3

(* A Flow Control appended to the controls is a Flow Control PDU.            *)
LEMMA FlowControlSent ==
  ASSUME ReceiverTypeOK, SendFlowControl
  PROVE  controls' \in Seq(FlowPdu)
<1>1. FlowControl(rcv.pending, BlockSize, StMinRaw) \in FlowPdu
  BY ConfigAssumption DEF FlowControl, FlowPdu, FlowStatus, ReceiverTypeOK
<1> QED BY <1>1, AppendProperties DEF SendFlowControl, ReceiverTypeOK

-----------------------------------------------------------------------------
(* Every step keeps the types; the buffer bound is needed because the CF   *)
(* handler subtracts the buffer's length from the announced one.           *)
LEMMA ReceiverTypeStep ==
  ASSUME ReceiverTypeOK, Len(rcv.payload) <= rcv.expected,
         [ReceiverNext]_receiverVars
  PROVE  ReceiverTypeOK'
<1> N_Cr \in Nat /\ N_Br \in Nat
  BY ConfigAssumption
<1>1. CASE UNCHANGED receiverVars
  BY <1>1 DEF ReceiverTypeOK, receiverVars
<1>2. CASE Reset
  <2>1. rcv' = [state |-> "Idle", result |-> "InProgress", payload |-> <<>>,
                expected |-> 0, sequence |-> 0, frames_in_block |-> 0,
                deadline |-> 0, fc_due |-> 0, pending |-> rcv.pending]
    BY <1>2 DEF Reset, FreshReceiver
  <2>2. rcv.pending \in {"ContinueToSend", "Overflow"} /\ <<>> \in Seq(Byte)
        /\ 0 \in 0..(CountModulus - 1) /\ 0 \in 0..(SnModulus - 1)
    BY EmptySeq, ProtocolAssumption DEF ReceiverTypeOK
  <2>3. UNCHANGED controls
    BY <1>2 DEF Reset
  <2> QED BY <2>1, <2>2, <2>3 DEF ReceiverTypeOK, ReceiverState, TransferResult
<1>3. CASE SendFlowControl
  <2>1. controls' \in Seq(FlowPdu) /\ 0 \in 0..(CountModulus - 1)
    BY <1>3, FlowControlSent, ProtocolAssumption
  <2>2. \/ rcv' = [rcv EXCEPT !.result = "BufferOverflow", !.state = "Finished"]
        \/ rcv' = [rcv EXCEPT !.state = "Receiving", !.frames_in_block = 0,
                              !.deadline = N_Cr]
    BY <1>3 DEF SendFlowControl, ReceiverFails
  <2> QED BY <2>1, <2>2 DEF ReceiverTypeOK, ReceiverState, TransferResult
<1>4. CASE ConsecutiveTimeout
  BY <1>4 DEF ConsecutiveTimeout, ReceiverFails, ReceiverTypeOK, ReceiverState, TransferResult
<1>5. ASSUME NEW f \in PeerFrames, ReceiverOnFrame(f)
      PROVE  ReceiverTypeOK'
  <2>1. CASE IgnorePdu(f)
    BY <2>1 DEF IgnorePdu, ReceiverTypeOK, receiverVars
  <2>2. CASE UnexpectedPdu(f) \/ InvalidPdu(f) \/ WrongSequence(f)
    BY <2>2 DEF UnexpectedPdu, InvalidPdu, WrongSequence, ReceiverFails,
                ReceiverTypeOK, ReceiverState, TransferResult
  <2>3. CASE AcceptSingle(f)
    <3>1. rcv'.payload \in Seq(Byte) /\ f.num \in Nat
      BY <2>3, AcceptedBytes, PduFields DEF AcceptSingle, AcceptsSingle, Starts
    <3>2. rcv' = [rcv EXCEPT !.payload = rcv'.payload, !.expected = f.num,
                             !.result = "Ok", !.state = "Finished"]
      BY <2>3 DEF AcceptSingle, AcceptsSingle, ReceiverTypeOK
    <3> QED BY <2>3, <3>1, <3>2
            DEF AcceptSingle, AcceptsSingle, ReceiverTypeOK, ReceiverState, TransferResult
  <2>4. CASE RefuseFirst(f)
    BY <2>4, PduFields
       DEF RefuseFirst, Starts, ReceiverTypeOK, ReceiverState, TransferResult
  <2>5. CASE AcceptFirst(f)
    <3>0. 1 \in 0..(SnModulus - 1)
      BY ProtocolAssumption
    <3>1. rcv'.payload \in Seq(Byte) /\ f.num \in Nat
      BY <2>5, AcceptedBytes, PduFields DEF AcceptFirst, Starts
    <3>2. rcv' = [rcv EXCEPT !.expected = f.num, !.payload = rcv'.payload,
                             !.sequence = 1, !.pending = "ContinueToSend",
                             !.state = "SendFlowControl", !.fc_due = N_Br]
      BY <2>5 DEF AcceptFirst, ReceiverTypeOK
    <3> QED BY <2>5, <3>0, <3>1, <3>2
            DEF AcceptFirst, ReceiverTypeOK, ReceiverState, TransferResult
  <2>6. CASE AcceptConsecutive(f)
    <3> DEFINE count == OneMoreFrame(rcv.frames_in_block)
               next == NextSequence(rcv.sequence)
    <3>1. rcv'.payload \in Seq(Byte)
      BY <2>6, AcceptedBytes
    <3>2. count \in 0..(CountModulus - 1) /\ next \in 0..(SnModulus - 1)
      <4>1. rcv.frames_in_block \in Nat /\ rcv.sequence \in Nat
        BY ProtocolAssumption DEF ReceiverTypeOK
      <4> QED BY <4>1, CountersInRange
    <3>3. \/ rcv' = [rcv EXCEPT !.sequence = next, !.payload = rcv'.payload,
                                !.frames_in_block = count,
                                !.result = "Ok", !.state = "Finished"]
          \/ rcv' = [rcv EXCEPT !.sequence = next, !.payload = rcv'.payload,
                                !.frames_in_block = count, !.deadline = N_Cr,
                                !.pending = "ContinueToSend",
                                !.state = "SendFlowControl", !.fc_due = N_Br]
          \/ rcv' = [rcv EXCEPT !.sequence = next, !.payload = rcv'.payload,
                                !.frames_in_block = count, !.deadline = N_Cr]
      BY <2>6 DEF AcceptConsecutive, AcceptsConsecutive, Taken, ReceiverTypeOK
    <3> HIDE DEF count, next
    <3>4. UNCHANGED controls
      BY <2>6 DEF AcceptConsecutive, AcceptsConsecutive, Taken
    <3> QED BY <3>1, <3>2, <3>3, <3>4
            DEF ReceiverTypeOK, ReceiverState, TransferResult
  <2> QED
    BY <1>5, <2>1, <2>2, <2>3, <2>4, <2>5, <2>6 DEF ReceiverOnFrame
<1>6. CASE ReceiverElapse
  <2> DEFINE d == OneTickLess(rcv.deadline)
             due == OneTickLess(rcv.fc_due)
  <2>1. d \in Nat /\ due \in Nat
    BY DEF OneTickLess, ReceiverTypeOK
  <2>2. rcv' = [rcv EXCEPT !.deadline = d, !.fc_due = due] /\ UNCHANGED controls
    BY <1>6 DEF ReceiverElapse, ReceiverAged
  <2> HIDE DEF d, due
  <2> QED BY <2>1, <2>2 DEF ReceiverTypeOK
<1> QED
  BY <1>1, <1>2, <1>3, <1>4, <1>5, <1>6 DEF ReceiverNext, ReceiverPoll

(* Every step keeps the strengthened invariant.                            *)
LEMMA ReceiverInvStep ==
  ASSUME ReceiverTypeOK, ReceiverInv, [ReceiverNext]_receiverVars
  PROVE  ReceiverInv'
<1> USE DEF ReceiverInv, NeverPastTheAnnouncedLength, OkIsComplete, UnderWay
<1>1. CASE UNCHANGED receiverVars
  BY <1>1 DEF receiverVars
<1>2. CASE Reset
  BY <1>2, EmptySeq DEF Reset, FreshReceiver
<1>3. CASE SendFlowControl
  BY <1>3 DEF SendFlowControl, ReceiverFails, ReceiverTypeOK
<1>4. CASE ConsecutiveTimeout
  BY <1>4 DEF ConsecutiveTimeout, ReceiverFails, ReceiverTypeOK
<1>5. ASSUME NEW f \in PeerFrames, ReceiverOnFrame(f)
      PROVE  ReceiverInv'
  <2>1. CASE IgnorePdu(f)
    BY <2>1 DEF IgnorePdu, receiverVars
  <2>2. CASE UnexpectedPdu(f) \/ InvalidPdu(f) \/ WrongSequence(f)
    BY <2>2 DEF UnexpectedPdu, InvalidPdu, WrongSequence, ReceiverFails, ReceiverTypeOK
  <2>3. CASE AcceptSingle(f)
    <3>1. Len(rcv'.payload) = f.num
      BY <2>3, AcceptedBytes
    <3>2. f.num \in Nat /\ f.num > 0
      BY <2>3, PduFields DEF AcceptSingle, AcceptsSingle, Starts, BadSingle
    <3>3. /\ rcv'.expected = f.num /\ rcv'.result = "Ok" /\ rcv'.state = "Finished"
      BY <2>3 DEF AcceptSingle, AcceptsSingle, ReceiverTypeOK
    <3> QED BY <3>1, <3>2, <3>3
  <2>4. CASE RefuseFirst(f)
    BY <2>4, PduFields, EmptySeq, ProtocolAssumption
       DEF RefuseFirst, Starts, BadFirst, SingleMax, ReceiverTypeOK
  <2>5. CASE AcceptFirst(f)
    <3>1. Len(rcv'.payload) <= f.num
      BY <2>5, AcceptedBytes
    <3>2. f.num \in Nat /\ f.num > 0 /\ f.num <= MaxReceive
      BY <2>5, PduFields, ProtocolAssumption
         DEF AcceptFirst, Starts, BadFirst, SingleMax
    <3>3. /\ rcv'.expected = f.num /\ rcv'.result = rcv.result
          /\ rcv'.state = "SendFlowControl" /\ rcv.state = "Idle"
      BY <2>5 DEF AcceptFirst, Starts, ReceiverTypeOK
    <3> QED BY <3>1, <3>2, <3>3
  <2>6. CASE AcceptConsecutive(f)
    <3>1. /\ Len(rcv'.payload) <= rcv.expected /\ Len(rcv'.payload) \in Nat
          /\ rcv.expected \in Nat /\ rcv.state = "Receiving"
      BY <2>6, AcceptedBytes, LenProperties DEF AcceptConsecutive, AcceptsConsecutive, Taken, ReceiverTypeOK
    <3>2. /\ rcv'.expected = rcv.expected
          /\ \/ /\ Len(rcv'.payload) >= rcv.expected
                /\ rcv'.result = "Ok" /\ rcv'.state = "Finished"
             \/ /\ rcv'.result = rcv.result /\ rcv'.state = "SendFlowControl"
                /\ rcv'.pending = "ContinueToSend"
             \/ /\ rcv'.result = rcv.result /\ rcv'.state = "Receiving"
                /\ rcv'.pending = rcv.pending
      BY <2>6 DEF AcceptConsecutive, AcceptsConsecutive, Taken, AllReceived, ReceiverTypeOK
    <3> QED BY <3>1, <3>2
  <2> QED
    BY <1>5, <2>1, <2>2, <2>3, <2>4, <2>5, <2>6 DEF ReceiverOnFrame
<1>6. CASE ReceiverElapse
  BY <1>6 DEF ReceiverElapse, ReceiverAged, ReceiverTypeOK
<1> QED
  BY <1>1, <1>2, <1>3, <1>4, <1>5, <1>6 DEF ReceiverNext, ReceiverPoll

LEMMA ReceiverInductive == ReceiverSpec => [](ReceiverTypeOK /\ ReceiverInv)
<1>1. ReceiverInit => ReceiverTypeOK /\ ReceiverInv
  BY ReceiverTypeInit, EmptySeq
     DEF ReceiverInit, FreshReceiver, ReceiverInv, NeverPastTheAnnouncedLength,
         OkIsComplete, UnderWay
<1>2. ReceiverTypeOK /\ ReceiverInv /\ [ReceiverNext]_receiverVars
        => (ReceiverTypeOK /\ ReceiverInv)'
  BY ReceiverTypeStep, ReceiverInvStep DEF ReceiverInv, NeverPastTheAnnouncedLength
<1> QED BY <1>1, <1>2, PTL DEF ReceiverSpec

-----------------------------------------------------------------------------
(* The members of Receiver keep their types under every peer.              *)
THEOREM ReceiverTypeCorrect == ReceiverSpec => []ReceiverTypeOK
BY ReceiverInductive, PTL

(* No sequence of frames makes "expected_ - payload_.size()" wrap, nor a   *)
(* segmented message be buffered beyond max_receive_length, and            *)
(* has_message() never offers an incomplete message.                       *)
THEOREM ReceivedWholeHolds == ReceiverSpec => []ReceivedWhole
<1>1. ReceiverInv => ReceivedWhole
  BY DEF ReceiverInv, ReceivedWhole
<1> QED BY <1>1, ReceiverInductive, PTL
=============================================================================
