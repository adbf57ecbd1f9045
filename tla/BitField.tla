------------------------------ MODULE BitField ------------------------------
(***************************************************************************)
(* The bit fields of a payload: how a signal of 1 to 64 bits is read from  *)
(* and written to its bytes, eight bytes at a time (extract_intel() and    *)
(* its three siblings) and, as the definition, one bit at a time (the      *)
(* functions the source calls reference).                                  *)
(*                                                                         *)
(* A 64-bit word is the set of the positions of its ones, a byte likewise, *)
(* and a payload a function from 0..n-1 to bytes.                          *)
(***************************************************************************)
EXTENDS Integers

Byte == SUBSET (0..7)
Word == SUBSET (0..63)
Payload(n) == [0..(n - 1) -> Byte]

ByteOrder == {"Intel", "Motorola"}

BitMask(len) == 0..(len - 1)
Shl(w, s) == {k \in 0..63 : k - s \in w}
Shr(w, s) == {k \in 0..63 : k + s \in w}

-----------------------------------------------------------------------------
(* The canonical position of the first bit, and one past the last.         *)
CanonicalStart(l) ==
  IF l.order = "Intel" THEN l.start ELSE (8 * (l.start \div 8)) + (7 - (l.start % 8))
CanonicalEnd(l) == CanonicalStart(l) + l.length
Fits(l, bytes) == l.length \in 1..64 /\ CanonicalEnd(l) <= 8 * bytes

LoadLe(d, first, n) == {k \in 0..63 : k < 8 * n /\ k % 8 \in d[first + (k \div 8)]}
LoadBe(d, first, n) == {k \in 0..63 : k < 8 * n /\ k % 8 \in d[first + (n - 1 - (k \div 8))]}
StoreLe(d, first, n, w) ==
  [i \in DOMAIN d |->
     IF first <= i /\ i < first + n THEN {b \in 0..7 : (8 * (i - first)) + b \in w} ELSE d[i]]
StoreBe(d, first, n, w) ==
  [i \in DOMAIN d |->
     IF first <= i /\ i < first + n
     THEN {b \in 0..7 : (8 * (n - 1 - (i - first))) + b \in w} ELSE d[i]]

SpannedBytes(off, len) == (off + len + 7) \div 8

-----------------------------------------------------------------------------
ExtractIntel(d, q0, len) ==
  LET first == q0 \div 8
      off == q0 % 8
      nb == SpannedBytes(off, len)
      head == IF nb < 8 THEN nb ELSE 8
      low == Shr(LoadLe(d, first, head), off)
  IN  (IF nb = 9 THEN low \cup Shl(d[first + 8], 64 - off) ELSE low) \cap BitMask(len)

(* The slip: the whole of the ninth byte is written.                       *)
InsertIntelSlip(d, q0, len, value) ==
  LET first == q0 \div 8
      off == q0 % 8
      nb == SpannedBytes(off, len)
      head == IF nb < 8 THEN nb ELSE 8
      v == value \cap BitMask(len)
      window == Shl(BitMask(len), off)
      headed == StoreLe(d, first, head,
                        (LoadLe(d, first, head) \ window) \cup (Shl(v, off) \cap window))
  IN  IF nb = 9 THEN [headed EXCEPT ![first + 8] = Shr(v, len - ((off + len) - 64))] ELSE headed

InsertIntel(d, q0, len, value) ==
  LET first == q0 \div 8
      off == q0 % 8
      nb == SpannedBytes(off, len)
      head == IF nb < 8 THEN nb ELSE 8
      v == value \cap BitMask(len)
      window == Shl(BitMask(len), off)
      headed == StoreLe(d, first, head,
                        (LoadLe(d, first, head) \ window) \cup (Shl(v, off) \cap window))
      tail == BitMask((off + len) - 64)
  IN  IF nb = 9
      THEN [headed EXCEPT ![first + 8] =
              (@ \ tail) \cup (Shr(v, len - ((off + len) - 64)) \cap tail)]
      ELSE headed

ExtractMotorola(d, q0, len) ==
  LET first == q0 \div 8
      off == q0 % 8
      nb == SpannedBytes(off, len)
      tail == (off + len) - 64
  IN  (IF nb <= 8
       THEN Shr(LoadBe(d, first, nb), ((8 * nb) - off) - len)
       ELSE Shl(LoadBe(d, first, 8), tail) \cup Shr(d[first + 8], 8 - tail)) \cap BitMask(len)

InsertMotorola(d, q0, len, value) ==
  LET first == q0 \div 8
      off == q0 % 8
      nb == SpannedBytes(off, len)
      v == value \cap BitMask(len)
      shift == ((8 * nb) - off) - len
      window == Shl(BitMask(len), shift)
      tail == (off + len) - 64
      headMask == BitMask(len - tail)
      tailMask == (8 - tail)..7
      headed == StoreBe(d, first, 8,
                        (LoadBe(d, first, 8) \ headMask) \cup (Shr(v, tail) \cap headMask))
  IN  IF nb <= 8
      THEN StoreBe(d, first, nb,
                   (LoadBe(d, first, nb) \ window) \cup (Shl(v, shift) \cap window))
      ELSE [headed EXCEPT ![first + 8] = (@ \ tailMask) \cup (Shl(v, 8 - tail) \cap tailMask)]

DecodeRaw(l, d) ==
  IF l.order = "Intel" THEN ExtractIntel(d, CanonicalStart(l), l.length)
                       ELSE ExtractMotorola(d, CanonicalStart(l), l.length)

EncodeRaw(l, raw, d) ==
  IF l.order = "Intel" THEN InsertIntel(d, CanonicalStart(l), l.length, raw)
                       ELSE InsertMotorola(d, CanonicalStart(l), l.length, raw)

-----------------------------------------------------------------------------
(* One bit at a time: the bit of a byte that has a canonical position, and *)
(* the bit of the word that belongs there.                                 *)
BitOf(q, order) == IF order = "Intel" THEN q % 8 ELSE 7 - (q % 8)
Significance(l, q) ==
  IF l.order = "Intel" THEN q - CanonicalStart(l) ELSE (CanonicalEnd(l) - 1) - q

DecodeRawReference(l, d) ==
  {k \in 0..63 : \E q \in CanonicalStart(l)..(CanonicalEnd(l) - 1) :
                   k = Significance(l, q) /\ BitOf(q, l.order) \in d[q \div 8]}

EncodeRawReference(l, raw, d) ==
  [i \in DOMAIN d |->
     {b \in 0..7 :
        LET q == (8 * i) + (IF l.order = "Intel" THEN b ELSE 7 - b)
        IN  IF CanonicalStart(l) <= q /\ q < CanonicalEnd(l)
            THEN Significance(l, q) \in raw ELSE b \in d[i]}]
=============================================================================
