------------------------------ MODULE CanFrame ------------------------------
(***************************************************************************)
(* CAN identifiers, data length codes and the ways to build a frame.       *)
(*                                                                         *)
(* A word that the code takes apart bit by bit, such as a packed           *)
(* identifier or a mask, is the set of the positions of its one bits.  The *)
(* payload of a frame is left out; its length follows from the DLC.        *)
(***************************************************************************)
EXTENDS Integers, Sequences, FiniteSetsExt

CONSTANTS BaseBits, ExtBits   \* 11 and 18

(* The last conjunct says only that a power is a number.                   *)
ASSUME IdWidths ==
  /\ BaseBits \in Nat \ {0} /\ ExtBits \in Nat \ {0}
  /\ 2^ExtBits \in Nat \ {0}

(* The fields of the SocketCAN identifier word.                            *)
IdField == 0..(BaseBits + ExtBits - 1)
ErrBit == BaseBits + ExtBits
RtrBit == ErrBit + 1
EffBit == ErrBit + 2

OneBits(n) == {i \in IdField : (n \div 2^i) % 2 = 1}
Number(bits) == MapThenSumSet(LAMBDA i : 2^i, bits)

Good(v) == [ok |-> TRUE, value |-> v]
Bad(code) == [ok |-> FALSE, code |-> code]

-----------------------------------------------------------------------------
(* Identifiers.                                                            *)
CanId == [extended : {FALSE}, value : 0..(2^BaseBits - 1)]
           \cup [extended : {TRUE}, value : 0..(2^(BaseBits + ExtBits) - 1)]

Identifier(extended, n) ==
  IF n < (IF extended THEN 2^(BaseBits + ExtBits) ELSE 2^BaseBits)
  THEN Good([extended |-> extended, value |-> n])
  ELSE Bad("FrameBadIdentifier")

Packed(id) == OneBits(id.value) \cup (IF id.extended THEN {EffBit} ELSE {})
FromPacked(word) == Identifier(EffBit \in word, Number(word \cap IdField))

(* The base decides, then the standard frame wins, then the extension.     *)
ArbitrationKey(id) ==
  IF id.extended
  THEN (id.value \div 2^ExtBits) * (2 * 2^ExtBits) + 2^ExtBits + (id.value % 2^ExtBits)
  ELSE id.value * (2 * 2^ExtBits)

-----------------------------------------------------------------------------
(* Data length codes.                                                      *)
FdLengths == <<0, 1, 2, 3, 4, 5, 6, 7, 8, 12, 16, 20, 24, 32, 48, 64>>

DlcToLength(dlc, fd) ==
  IF dlc > 15 THEN 0
  ELSE IF fd THEN FdLengths[dlc + 1]
  ELSE IF dlc > 8 THEN 8 ELSE dlc

LengthToDlc(len, fd) ==
  IF len > (IF fd THEN 64 ELSE 8) THEN Bad("FramePayloadTooLarge")
  ELSE LET dlc == IF fd THEN Min({d \in 0..15 : FdLengths[d + 1] >= len}) ELSE len
           length == IF fd THEN FdLengths[dlc + 1] ELSE len
       IN  Good([dlc |-> dlc, length |-> length, padding |-> length - len])

-----------------------------------------------------------------------------
(* Frames.                                                                 *)
Flag == {"Rtr", "Error", "Fd", "Brs", "Esi"}

FlagsValid(flags, capacity) ==
  /\ "Fd" \in flags => capacity >= 64 /\ "Rtr" \notin flags
  /\ "Fd" \notin flags => flags \cap {"Brs", "Esi"} = {}

FrameOf(id, dlc, flags) == [id |-> id, dlc |-> dlc, flags |-> flags]
Size(f) == IF "Rtr" \in f.flags THEN 0 ELSE DlcToLength(f.dlc, "Fd" \in f.flags)

Make(id, len, flags, capacity) ==
  LET fit == LengthToDlc(len, "Fd" \in flags)
  IN  IF ~FlagsValid(flags, capacity) \/ ("Rtr" \in flags /\ len # 0)
      THEN Bad("FrameBadFlags")
      ELSE IF len > capacity THEN Bad("FramePayloadTooLarge")
      ELSE IF ~fit.ok THEN fit
      ELSE IF fit.value.padding # 0 THEN Bad("FrameBadDlc")
      ELSE Good(FrameOf(id, fit.value.dlc, flags))

MakeRemote(id, requested) ==
  IF requested > 8 THEN Bad("FrameBadDlc") ELSE Good(FrameOf(id, requested, {"Rtr"}))

FromWire(id, dlc, flags, capacity) ==
  IF ~FlagsValid(flags, capacity) THEN Bad("FrameBadFlags")
  ELSE IF dlc > 15 THEN Bad("FrameBadDlc")
  ELSE IF DlcToLength(dlc, "Fd" \in flags) > capacity THEN Bad("FramePayloadTooLarge")
  ELSE Good(FrameOf(id, dlc, flags))

-----------------------------------------------------------------------------
(* Acceptance filters: a filter compares the bits that its mask selects.   *)
Compared(f) == IF f.match_format THEN f.mask ELSE f.mask \cap IdField
Accepts(f, id) == (Packed(id) \cap Compared(f) = f.id \cap Compared(f)) # f.invert

AcceptedBy(filters, id) == filters = <<>> \/ \E i \in DOMAIN filters : Accepts(filters[i], id)
=============================================================================
