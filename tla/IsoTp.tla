------------------------------- MODULE IsoTp -------------------------------
(***************************************************************************)
(* What the two halves of the ISO 15765-2 transport share: the byte        *)
(* tokens, the shape of a protocol data unit, the sizes of its fields      *)
(* and the configuration.                                                  *)
(*                                                                         *)
(* A PDU is what is left of a CAN frame after on_frame() has checked its   *)
(* identifier and address extension and split off the PCI.  Time is        *)
(* counted in ticks of 100 microseconds, the grid of the STmin encoding,   *)
(* whose two conversions are at the end.                                   *)
(***************************************************************************)
EXTENDS Naturals, Sequences

CONSTANTS
  Byte,         \* the byte tokens messages are made of
  Pad,          \* Config::padding_byte
  FrameBytes,   \* 8: the code segments into classic sized frames only
  Header,       \* Address::header_size(): 1 with extended addressing, else 0
  SnModulus,    \* 16: sequence numbers are a nibble
  ClassicMax,   \* 4095: kClassicMaxLength, the largest 12 bit length
  CountModulus, \* 256: the block and wait counters are uint8_t
  PadFrames,    \* Config::pad_frames
  UseCanFd,     \* Config::use_can_fd
  N_Bs, N_Cr,   \* timeouts, in ticks
  N_Br, N_Cs,   \* deliberate delays, in ticks
  BlockSize,    \* Config::block_size, what a receiver offers
  StMinRaw,     \* Config::st_min_raw, what a receiver offers
  WftMax,       \* Config::wft_max
  MaxReceive,   \* Config::max_receive_length
  PeerFrames    \* the PDUs an arbitrary peer may send; none where the peer is modelled

(* The widths of the fields the code was written for.  The room left in a  *)
(* First Frame with the 32-bit length must stay positive.                  *)
ASSUME ProtocolAssumption ==
  /\ FrameBytes \in Nat /\ Header \in {0, 1} /\ FrameBytes > Header + 6
  /\ SnModulus \in Nat /\ SnModulus > 1
  /\ ClassicMax \in Nat /\ ClassicMax >= FrameBytes
  /\ CountModulus \in Nat /\ CountModulus > 1

(* A Config as its member types admit it: begin() validates it, a Receiver *)
(* never does.                                                             *)
ASSUME ConfigAssumption ==
  /\ Pad \in Byte
  /\ PadFrames \in BOOLEAN /\ UseCanFd \in BOOLEAN
  /\ N_Bs \in Nat /\ N_Cr \in Nat /\ N_Br \in Nat /\ N_Cs \in Nat
  /\ BlockSize \in 0..(CountModulus - 1)
  /\ StMinRaw \in 0..255
  /\ WftMax \in 0..(CountModulus - 1)
  /\ MaxReceive \in Nat

-----------------------------------------------------------------------------
(* Config::validate.                                                       *)
ConfigValid ==
  /\ N_Bs # 0 /\ N_Cr # 0
  /\ 10 * N_Br < 9 * N_Bs
  /\ 10 * N_Cs < 9 * N_Cr
  /\ MaxReceive # 0

-----------------------------------------------------------------------------
(* A PDU.  "whole" says that the frame is long enough to hold the fields   *)
(* its PCI announces; "num" is the length of a Single or First Frame and   *)
(* the sequence number of a Consecutive Frame; "data" is the rest of the   *)
(* frame, the padding included.                                            *)
DataPdu == [pci : {"SF", "FF", "CF", "Reserved"}, whole : BOOLEAN,
            num : Nat, data : Seq(Byte)]
FlowStatus == {"ContinueToSend", "Wait", "Overflow", "Reserved"}
FlowPdu == [pci : {"FC"}, whole : BOOLEAN, status : FlowStatus,
            bs : 0..(CountModulus - 1), st : 0..255]

(* A frame with another identifier or extension, or with no PCI byte.      *)
ForeignPdu == [pci : {"Foreign"}]
Pdu == DataPdu \cup FlowPdu \cup ForeignPdu

ASSUME PortInputs == PeerFrames \subseteq Pdu

SingleFrame(len, data) == [pci |-> "SF", whole |-> TRUE, num |-> len, data |-> data]
FirstFrame(len, data) == [pci |-> "FF", whole |-> TRUE, num |-> len, data |-> data]
ConsecutiveFrame(sn, data) == [pci |-> "CF", whole |-> TRUE, num |-> sn, data |-> data]
FlowControl(status, bs, st) ==
  [pci |-> "FC", whole |-> TRUE, status |-> status, bs |-> bs, st |-> st]
Foreign == [pci |-> "Foreign"]

(* The largest Single Frame, and what a First and a Consecutive Frame hold.*)
(* The First Frame spends 2 bytes on a 12-bit length, 6 on a 32-bit one.   *)
SingleMax == FrameBytes - 1 - Header
FirstPciBytes(size) == IF size <= ClassicMax THEN 2 ELSE 6
FirstRoomSlip(size) == FrameBytes - Header - 2   \* forgets the 32-bit length
FirstRoom(size) == FrameBytes - Header - FirstPciBytes(size)
ConsecutiveRoom == FrameBytes - Header - 1

(* make_frame: padding fills a classic frame; a CAN FD frame of at most 8  *)
(* bytes is already a legal length and is sent as it is.                   *)
Padded(data, pciBytes) ==
  IF PadFrames /\ ~UseCanFd
  THEN data \o [i \in 1..(FrameBytes - Header - pciBytes - Len(data)) |-> Pad]
  ELSE data

-----------------------------------------------------------------------------
(* A deadline in the code is a time point that poll() compares with now;   *)
(* here it is the number of ticks left, and it has passed when none are.   *)
OneTickLess(left) == IF left = 0 THEN 0 ELSE left - 1

(* A sequence number is a nibble, a frame counter a uint8_t.               *)
NextSequence(sn) == (sn + 1) % SnModulus
OneMoreFrame(count) == (count + 1) % CountModulus

Smaller(a, b) == IF a <= b THEN a ELSE b
TransferResult == {"InProgress", "Ok", "TimeoutBs", "TimeoutCr", "WaitOverrun",
                   "BufferOverflow", "UnexpectedPdu", "WrongSequence",
                   "InvalidPdu", "Aborted"}
-----------------------------------------------------------------------------
(* The one-byte STmin encoding.  A receiver's owner picks the separation   *)
(* time it needs in nanoseconds, encodes it into its Flow Controls, and    *)
(* the sender decodes it.                                                  *)
Millisecond == 1000000
GridNs == 100000   \* the sub-millisecond encodings count 100 us
Raw == 0..255

(* st_min_to_ns: 0..0x7F are milliseconds, 0xF1..0xF9 hundreds of          *)
(* microseconds, and every reserved value is read as the slowest rate.     *)
StMinToNs(raw) ==
  IF raw <= 127 THEN raw * Millisecond
  ELSE IF raw \in 241..249 THEN (raw - 240) * GridNs
  ELSE 127 * Millisecond

(* The same, in the 100 us ticks the protocol modules count.               *)
StMinTicks(raw) == StMinToNs(raw) \div GridNs

(* ns_to_st_min: round up to the grid, capped at 0xF9 below a millisecond  *)
(* and at 127 ms above.                                                    *)
Capped(n, cap) == IF n <= cap THEN n ELSE cap
RoundedDown(ns, unit) == ns \div unit              \* a slip: truncates
RoundedUp(ns, unit) == (ns + (unit - 1)) \div unit
NsToStMin(ns) ==
  IF ns = 0 THEN 0
  ELSE IF ns < Millisecond THEN 240 + Capped(RoundedUp(ns, GridNs), 9)
  ELSE Capped(RoundedUp(ns, Millisecond), 127)

Meaningful == (0..127) \cup (241..249)

(* Encoding what was decoded gives the byte back, and any reserved byte    *)
(* becomes 0x7F, the slowest rate (the round trip of ns_to_st_min).        *)
RoundTrips ==
  \A raw \in Raw :
    NsToStMin(StMinToNs(raw)) = IF raw \in Meaningful THEN raw ELSE 127

(* The peer is never told to go faster than the caller asked, with two     *)
(* exceptions: between 900 us and a millisecond ns_to_st_min keeps to the  *)
(* sub-millisecond range and answers 900 us, and beyond 127 ms there is    *)
(* nothing slower to ask for.                                              *)
NotTooFast(ns) ==
  LET given == StMinToNs(NsToStMin(ns))
  IN  \/ given >= ns
      \/ ns \in 900001..999999 /\ given = 900000
      \/ ns > 127 * Millisecond /\ given = 127 * Millisecond

(* Nor slower than need be: no other encoding that honours the request is  *)
(* quicker than the one chosen.                                            *)
NotTooSlow(ns) ==
  \A raw \in Raw : StMinToNs(raw) >= ns => StMinToNs(raw) >= StMinToNs(NsToStMin(ns))
=============================================================================
