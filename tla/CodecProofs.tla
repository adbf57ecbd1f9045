----------------------------- MODULE CodecProofs ----------------------------
(***************************************************************************)
(* Proofs about the codec.  Bit fields first: each of the four fast        *)
(* routines is taken to what one bit of its result is, by the cases of its *)
(* code: the signal in up to eight bytes, or reaching into a ninth.  Bit   *)
(* by bit the results are then those of the definition, and the two facts  *)
(* that a user of the codec relies on follow from the definition alone.    *)
(*                                                                         *)
(* Then multiplexing: the sets of signals that are there by how many       *)
(* switches may be asked grow to a set that no further question changes,   *)
(* the least one of its kind; and the frames that the codec composes,      *)
(* changes and cuts stay payloads, so both hold in all of its states.      *)
(*                                                                         *)
(* Then values: the bits of a number are that number again, rounding and   *)
(* then saturating is nearest to what saturating gives, and the frame goes *)
(* on carrying the word of every value that nothing has been written over. *)
(***************************************************************************)
EXTENDS Codec, TLAPS, NaturalsInduction, WellFoundedInduction, SequenceTheorems,
        FiniteSetTheorems

(* The bytes that a run of len bits from q0 touches are in the payload.    *)

LEMMA Spanned ==
  ASSUME NEW n \in Nat, NEW q0 \in Nat, NEW len \in 1..64, q0 + len <= 8 * n
  PROVE  /\ q0 = (8 * (q0 \div 8)) + (q0 % 8)
         /\ q0 % 8 \in 0..7 /\ q0 \div 8 \in Nat
         /\ SpannedBytes(q0 % 8, len) \in 1..9
         /\ 8 * SpannedBytes(q0 % 8, len) >= (q0 % 8) + len
         /\ 8 * SpannedBytes(q0 % 8, len) < (q0 % 8) + len + 8
         /\ (q0 \div 8) + SpannedBytes(q0 % 8, len) <= n
BY DEF SpannedBytes

(* One bit of what extract_intel() returns.                                *)
LEMMA ExtractIntelBit ==
  ASSUME NEW n \in Nat, NEW d \in Payload(n), NEW q0 \in Nat, NEW len \in 1..64,
         q0 + len <= 8 * n, NEW k \in 0..63
  PROVE  k \in ExtractIntel(d, q0, len) <=>
           k < len /\ (q0 + k) % 8 \in d[(q0 + k) \div 8]
<1> DEFINE first == q0 \div 8
           off == q0 % 8
           nb == SpannedBytes(off, len)
           head == IF nb < 8 THEN nb ELSE 8
           low == Shr(LoadLe(d, first, head), off)
<1>1. /\ q0 = (8 * first) + off /\ off \in 0..7 /\ first \in Nat
      /\ nb \in 1..9 /\ 8 * nb >= off + len /\ 8 * nb < off + len + 8
      /\ first + nb <= n
  BY Spanned
<1> HIDE DEF first, off, nb
<1>2. (k + off) \div 8 = ((q0 + k) \div 8) - first /\ (k + off) % 8 = (q0 + k) % 8
  BY <1>1
<1>3. k \in low <=> /\ k + off < 64 /\ k + off < 8 * head
                    /\ (q0 + k) % 8 \in d[(q0 + k) \div 8]
  <2>1. k \in low <=> k + off \in LoadLe(d, first, head)
    BY DEF Shr
  <2>2. k + off \in LoadLe(d, first, head) <=>
          k + off \in 0..63 /\ k + off < 8 * head /\ (k + off) % 8 \in d[first + ((k + off) \div 8)]
    BY DEF LoadLe
  <2>3. first + ((k + off) \div 8) = (q0 + k) \div 8
    BY <1>1, <1>2
  <2> QED BY <1>1, <1>2, <2>1, <2>2, <2>3
<1>4. k \in BitMask(len) <=> k < len
  BY DEF BitMask
<1>5. CASE nb # 9
  <2>1. k < len => k + off < 64 /\ k + off < 8 * head
    BY <1>1, <1>5
  <2>2. k \in ExtractIntel(d, q0, len) <=> k \in low /\ k \in BitMask(len)
    BY <1>5 DEF ExtractIntel, first, off, nb
  <2> QED BY <1>3, <1>4, <2>1, <2>2
<1>6. CASE nb = 9
  <2>1. k \in ExtractIntel(d, q0, len) <=>
          (k \in low \/ k \in Shl(d[first + 8], 64 - off)) /\ k \in BitMask(len)
    BY <1>6 DEF ExtractIntel, first, off, nb
  <2>2. k \in Shl(d[first + 8], 64 - off) <=> k - (64 - off) \in d[first + 8]
    BY DEF Shl
  <2>3. d[first + 8] \subseteq 0..7
    BY <1>1, <1>6 DEF Payload, Byte
  <2>4. CASE k + off < 64
    <3>1. k \notin Shl(d[first + 8], 64 - off)
      BY <2>2, <2>3, <2>4, <1>1
    <3> QED BY <1>3, <1>4, <1>6, <2>1, <2>4, <3>1
  <2>5. CASE k + off >= 64 /\ k < len
    <3>1. (k + off) \div 8 = 8 /\ (k + off) % 8 = k - (64 - off)
      BY <2>5, <1>1, <1>6
    <3>2. (q0 + k) \div 8 = first + 8 /\ (q0 + k) % 8 = k - (64 - off)
      BY <3>1, <1>2, <1>1
    <3>3. k \notin low
      BY <1>3, <2>5, <1>1
    <3> QED BY <1>4, <2>1, <2>2, <2>5, <3>2, <3>3
  <2>6. CASE k >= len
    BY <2>1, <2>6, <1>4
  <2> QED BY <2>4, <2>5, <2>6, <1>1
<1> QED BY <1>5, <1>6

(* One bit of what insert_intel() leaves in byte i.                        *)
LEMMA InsertIntelBit ==
  ASSUME NEW n \in Nat, NEW d \in Payload(n), NEW q0 \in Nat, NEW len \in 1..64,
         q0 + len <= 8 * n, NEW value, NEW i \in 0..(n - 1), NEW b \in 0..7
  PROVE  b \in InsertIntel(d, q0, len, value)[i] <=>
           IF q0 <= (8 * i) + b /\ (8 * i) + b < q0 + len
           THEN ((8 * i) + b) - q0 \in value ELSE b \in d[i]
<1> DEFINE first == q0 \div 8
           off == q0 % 8
           nb == SpannedBytes(off, len)
           head == IF nb < 8 THEN nb ELSE 8
           v == value \cap BitMask(len)
           window == Shl(BitMask(len), off)
           word == (LoadLe(d, first, head) \ window) \cup (Shl(v, off) \cap window)
           headed == StoreLe(d, first, head, word)
           inside == q0 <= (8 * i) + b /\ (8 * i) + b < q0 + len
           at == (8 * (i - first)) + b
<1>1. /\ q0 = (8 * first) + off /\ off \in 0..7 /\ first \in Nat
      /\ nb \in 1..9 /\ 8 * nb >= off + len /\ 8 * nb < off + len + 8
      /\ first + nb <= n
  BY Spanned
<1>2. DOMAIN d = 0..(n - 1)
  BY DEF Payload
<1>3. InsertIntel(d, q0, len, value) =
        IF nb = 9
        THEN [headed EXCEPT ![first + 8] =
                (@ \ BitMask((off + len) - 64))
                  \cup (Shr(v, len - ((off + len) - 64)) \cap BitMask((off + len) - 64))]
        ELSE headed
  BY DEF InsertIntel
<1> HIDE DEF first, off, nb
<1>4. /\ at \in Int /\ (8 * i) + b = (8 * first) + at /\ at - off = ((8 * i) + b) - q0
      /\ (first <= i => at \div 8 = i - first /\ at % 8 = b)
      /\ (inside <=> off <= at /\ at < off + len)
  BY <1>1
<1>5. ASSUME first <= i, i < first + head
      PROVE  b \in headed[i] <=> IF inside THEN at - off \in value ELSE b \in d[i]
  <2>1. at \in 0..63 /\ at < 8 * head
    BY <1>1, <1>4, <1>5
  <2>2. b \in headed[i] <=> at \in word
    BY <1>2, <1>5, <1>1 DEF StoreLe
  <2>3. at \in LoadLe(d, first, head) <=> b \in d[i]
    BY <2>1, <1>4, <1>5, <1>1 DEF LoadLe
  <2>4. at \in window <=> off <= at /\ at < off + len
    BY <2>1, <1>1 DEF Shl, BitMask
  <2>5. at \in Shl(v, off) <=> at - off \in value /\ off <= at /\ at < off + len
    BY <2>1, <1>1 DEF Shl, BitMask
  <2> QED BY <2>2, <2>3, <2>4, <2>5, <1>4
<1>6. ASSUME ~(first <= i /\ i < first + head)
      PROVE  headed[i] = d[i]
  BY <1>2, <1>6 DEF StoreLe
<1>7. CASE nb # 9 \/ i # first + 8
  <2>1. InsertIntel(d, q0, len, value)[i] = headed[i]
    BY <1>3, <1>7, <1>2 DEF StoreLe
  <2>2. CASE first <= i /\ i < first + head
    BY <2>1, <2>2, <1>5, <1>4
  <2>3. CASE ~(first <= i /\ i < first + head)
    <3>1. ~inside
      BY <2>3, <1>1, <1>4, <1>7
    <3> QED BY <2>1, <2>3, <1>6, <3>1
  <2> QED BY <2>2, <2>3
<1>8. CASE nb = 9 /\ i = first + 8
  <2> DEFINE tail == (off + len) - 64
  <2>1. tail \in 1..7 /\ at = 64 + b /\ head = 8
    BY <1>1, <1>8
  <2>2. headed[i] = d[i]
    BY <1>6, <1>8, <2>1
  <2>3. InsertIntel(d, q0, len, value)[i] =
          (d[i] \ BitMask(tail)) \cup (Shr(v, len - tail) \cap BitMask(tail))
    BY <1>3, <1>8, <1>2, <2>2 DEF StoreLe
  <2>4. b \in BitMask(tail) <=> inside
    BY <2>1, <1>4, <1>1 DEF BitMask
  <2>5. b + (len - tail) = at - off
    BY <2>1, <1>1
  <2>6. inside => (b \in Shr(v, len - tail) <=> at - off \in value)
    BY <2>5, <1>4, <1>1 DEF Shr, BitMask
  <2> QED BY <2>3, <2>4, <2>6, <1>4
<1> QED BY <1>7, <1>8

(* One bit of what extract_motorola() returns.                             *)
LEMMA ExtractMotorolaBit ==
  ASSUME NEW n \in Nat, NEW d \in Payload(n), NEW q0 \in Nat, NEW len \in 1..64,
         q0 + len <= 8 * n, NEW k \in 0..63
  PROVE  k \in ExtractMotorola(d, q0, len) <=>
           /\ k < len
           /\ 7 - (((q0 + len) - 1 - k) % 8) \in d[((q0 + len) - 1 - k) \div 8]
<1> DEFINE first == q0 \div 8
           off == q0 % 8
           nb == SpannedBytes(off, len)
           shift == ((8 * nb) - off) - len
           tail == (off + len) - 64
           q == (q0 + len) - 1 - k
<1>1. /\ q0 = (8 * first) + off /\ off \in 0..7 /\ first \in Nat
      /\ nb \in 1..9 /\ 8 * nb >= off + len /\ 8 * nb < off + len + 8
      /\ first + nb <= n
  BY Spanned
<1>2. ExtractMotorola(d, q0, len) =
        (IF nb <= 8 THEN Shr(LoadBe(d, first, nb), shift)
         ELSE Shl(LoadBe(d, first, 8), tail) \cup Shr(d[first + 8], 8 - tail)) \cap BitMask(len)
  BY DEF ExtractMotorola
<1> HIDE DEF first, off, nb
<1>3. k \in BitMask(len) <=> k < len
  BY DEF BitMask
<1>4. CASE nb <= 8 /\ k < len
  <2> DEFINE at == k + shift
  <2>1. /\ at \in 0..63 /\ at < 8 * nb
        /\ q = (8 * first) + ((8 * nb) - 1 - at)
    BY <1>1, <1>4
  <2>2. 7 - (q % 8) = at % 8 /\ q \div 8 = first + (nb - 1 - (at \div 8))
    BY <2>1, <1>1
  <2>3. k \in Shr(LoadBe(d, first, nb), shift) <=> at \in LoadBe(d, first, nb)
    BY DEF Shr
  <2>4. at \in LoadBe(d, first, nb) <=> at % 8 \in d[first + (nb - 1 - (at \div 8))]
    BY <2>1 DEF LoadBe
  <2> QED BY <1>2, <1>3, <1>4, <2>2, <2>3, <2>4
<1>5. CASE nb = 9 /\ k < len
  <2>1. tail \in 1..7
    BY <1>1, <1>5
  <2>2. d[first + 8] \subseteq 0..7
    BY <1>1, <1>5 DEF Payload, Byte
  <2>3. k \in Shl(LoadBe(d, first, 8), tail) <=> k - tail \in LoadBe(d, first, 8)
    BY DEF Shl
  <2>4. k \in Shr(d[first + 8], 8 - tail) <=> k + (8 - tail) \in d[first + 8]
    BY DEF Shr
  <2>5. CASE k >= tail
    <3> DEFINE at == k - tail
    <3>1. at \in 0..63 /\ q = (8 * first) + (63 - at)
      BY <2>1, <2>5, <1>1, <1>5
    <3>2. 7 - (q % 8) = at % 8 /\ q \div 8 = first + (8 - 1 - (at \div 8))
      BY <3>1, <1>1
    <3>3. at \in LoadBe(d, first, 8) <=> at % 8 \in d[first + (8 - 1 - (at \div 8))]
      BY <3>1 DEF LoadBe
    <3>4. k \notin Shr(d[first + 8], 8 - tail)
      BY <2>1, <2>2, <2>4, <2>5
    <3> QED BY <1>2, <1>3, <1>5, <2>3, <3>2, <3>3, <3>4
  <2>6. CASE k < tail
    <3>1. q = (8 * first) + 64 + (tail - 1 - k)
      BY <1>1, <1>5, <2>1
    <3>2. q \div 8 = first + 8 /\ 7 - (q % 8) = k + (8 - tail)
      BY <3>1, <2>1, <2>6, <1>1
    <3>3. k \notin Shl(LoadBe(d, first, 8), tail)
      BY <2>1, <2>3, <2>6 DEF LoadBe
    <3> QED BY <1>2, <1>3, <1>5, <2>4, <3>2, <3>3
  <2> QED BY <2>5, <2>6, <2>1
<1>6. CASE k >= len
  BY <1>2, <1>3, <1>6
<1> QED BY <1>4, <1>5, <1>6, <1>1

(* One bit of what insert_motorola() leaves in byte i.                     *)
LEMMA InsertMotorolaBit ==
  ASSUME NEW n \in Nat, NEW d \in Payload(n), NEW q0 \in Nat, NEW len \in 1..64,
         q0 + len <= 8 * n, NEW value, NEW i \in 0..(n - 1), NEW b \in 0..7
  PROVE  b \in InsertMotorola(d, q0, len, value)[i] <=>
           IF q0 <= (8 * i) + (7 - b) /\ (8 * i) + (7 - b) < q0 + len
           THEN ((q0 + len) - 1) - ((8 * i) + (7 - b)) \in value ELSE b \in d[i]
<1> DEFINE first == q0 \div 8
           off == q0 % 8
           nb == SpannedBytes(off, len)
           v == value \cap BitMask(len)
           shift == ((8 * nb) - off) - len
           window == Shl(BitMask(len), shift)
           tail == (off + len) - 64
           headMask == BitMask(len - tail)
           short == StoreBe(d, first, nb,
                            (LoadBe(d, first, nb) \ window) \cup (Shl(v, shift) \cap window))
           headed == StoreBe(d, first, 8,
                             (LoadBe(d, first, 8) \ headMask) \cup (Shr(v, tail) \cap headMask))
           tailMask == (8 - tail)..7
           q == (8 * i) + (7 - b)
           inside == q0 <= q /\ q < q0 + len
           low == ((q0 + len) - 1) - q
<1>1. /\ q0 = (8 * first) + off /\ off \in 0..7 /\ first \in Nat
      /\ nb \in 1..9 /\ 8 * nb >= off + len /\ 8 * nb < off + len + 8
      /\ first + nb <= n
  BY Spanned
<1>2. DOMAIN d = 0..(n - 1)
  BY DEF Payload
<1>3. InsertMotorola(d, q0, len, value) =
        IF nb <= 8 THEN short
        ELSE [headed EXCEPT ![first + 8] = (@ \ tailMask) \cup (Shl(v, 8 - tail) \cap tailMask)]
  BY DEF InsertMotorola
<1> HIDE DEF first, off, nb
<1>4. CASE nb <= 8
  <2> DEFINE at == (8 * (nb - 1 - (i - first))) + b
             word == (LoadBe(d, first, nb) \ window) \cup (Shl(v, shift) \cap window)
  <2>1. CASE first <= i /\ i < first + nb
    <3>1. /\ at \in 0..63 /\ at < 8 * nb /\ at - shift = low
          /\ at \div 8 = nb - 1 - (i - first) /\ at % 8 = b
          /\ (inside <=> shift <= at /\ at < shift + len)
      BY <1>1, <1>4, <2>1
    <3>2. b \in short[i] <=> at \in word
      BY <1>1, <1>2, <2>1 DEF StoreBe
    <3>3. at \in LoadBe(d, first, nb) <=> b \in d[i]
      BY <3>1, <2>1, <1>1 DEF LoadBe
    <3>4. at \in window <=> inside
      BY <3>1, <1>1 DEF Shl, BitMask
    <3>5. inside => (at \in Shl(v, shift) <=> low \in value)
      BY <3>1, <1>1 DEF Shl, BitMask
    <3> QED BY <1>3, <1>4, <3>2, <3>3, <3>4, <3>5
  <2>2. CASE ~(first <= i /\ i < first + nb)
    <3>1. ~inside
      BY <1>1, <2>2
    <3>2. short[i] = d[i]
      BY <1>2, <2>2 DEF StoreBe
    <3> QED BY <1>3, <1>4, <3>1, <3>2
  <2> QED BY <2>1, <2>2
<1>5. CASE nb = 9
  <2>1. tail \in 1..7 /\ ~(nb <= 8)
    BY <1>1, <1>5
  <2> DEFINE last == (headed[first + 8] \ tailMask) \cup (Shl(v, 8 - tail) \cap tailMask)
  <2>5. InsertMotorola(d, q0, len, value) = [headed EXCEPT ![first + 8] = last]
    BY <1>3, <2>1
  <2>6. DOMAIN headed = 0..(n - 1)
    BY <1>2 DEF StoreBe
  <2> HIDE DEF headed, last
  <2>7. i # first + 8 => InsertMotorola(d, q0, len, value)[i] = headed[i]
    BY <2>5, <2>6
  <2> USE DEF headed, last
  <2>2. CASE first <= i /\ i < first + 8
    <3> DEFINE at == (8 * (7 - (i - first))) + b
               word == (LoadBe(d, first, 8) \ headMask) \cup (Shr(v, tail) \cap headMask)
    <3>1. /\ at \in 0..63 /\ at + tail = low
          /\ at \div 8 = 7 - (i - first) /\ at % 8 = b
          /\ (inside <=> at < len - tail)
      BY <1>1, <1>5, <2>1, <2>2
    <3>2. InsertMotorola(d, q0, len, value)[i] = headed[i]
      BY <1>1, <2>2, <2>7
    <3>3. b \in headed[i] <=> at \in word
      BY <1>1, <1>2, <2>2 DEF StoreBe
    <3>4. at \in LoadBe(d, first, 8) <=> b \in d[i]
      BY <3>1, <2>2, <1>1 DEF LoadBe
    <3>5. at \in headMask <=> inside
      BY <3>1, <1>1, <2>1 DEF BitMask
    <3>6. inside => (at \in Shr(v, tail) <=> low \in value)
      BY <3>1, <1>1, <2>1 DEF Shr, BitMask
    <3> QED BY <3>2, <3>3, <3>4, <3>5, <3>6
  <2>3. CASE i = first + 8
    <3>1. headed[i] = d[i]
      BY <1>1, <1>2, <2>3 DEF StoreBe
    <3>2. InsertMotorola(d, q0, len, value)[i] =
            (d[i] \ tailMask) \cup (Shl(v, 8 - tail) \cap tailMask)
      BY <1>2, <1>3, <2>1, <2>3, <3>1 DEF StoreBe
    <3>3. b \in tailMask <=> inside
      BY <1>1, <1>5, <2>1, <2>3
    <3>4. b - (8 - tail) = low
      BY <1>1, <1>5, <2>1, <2>3
    <3>5. inside => (b \in Shl(v, 8 - tail) <=> low \in value)
      BY <3>4, <1>1, <1>5, <2>1, <2>3 DEF Shl, BitMask
    <3> QED BY <3>2, <3>3, <3>5
  <2>4. CASE ~(first <= i /\ i <= first + 8)
    <3>1. ~inside
      BY <1>1, <1>5, <2>4
    <3>2. InsertMotorola(d, q0, len, value)[i] = d[i]
      <4>1. headed[i] = d[i]
        BY <1>1, <1>2, <2>4 DEF StoreBe
      <4> QED BY <1>1, <2>4, <2>7, <4>1
    <3> QED BY <3>1, <3>2
  <2> QED BY <2>2, <2>3, <2>4, <1>1
<1> QED BY <1>4, <1>5, <1>1

-----------------------------------------------------------------------------
(* A signal that fits ends within the payload.                             *)
LEMMA CanonicalRange ==
  ASSUME NEW n \in Nat, NEW l, l.start \in Nat, l.order \in ByteOrder, Fits(l, n)
  PROVE  /\ CanonicalStart(l) \in Nat /\ l.length \in 1..64
         /\ CanonicalEnd(l) = CanonicalStart(l) + l.length
         /\ CanonicalStart(l) + l.length <= 8 * n
<1>1. CanonicalStart(l) \in Nat
  BY DEF CanonicalStart, ByteOrder
<1> QED BY <1>1 DEF Fits, CanonicalEnd

(* One bit of what decode_raw_reference() returns.                         *)
LEMMA ReferenceBit ==
  ASSUME NEW n \in Nat, NEW d \in Payload(n), NEW l, l.start \in Nat, l.order \in ByteOrder,
         Fits(l, n), NEW k \in 0..63
  PROVE  k \in DecodeRawReference(l, d) <=>
           /\ k < l.length
           /\ LET q == IF l.order = "Intel" THEN CanonicalStart(l) + k
                       ELSE ((CanonicalStart(l) + l.length) - 1) - k
              IN  BitOf(q, l.order) \in d[q \div 8]
<1> DEFINE q0 == CanonicalStart(l)
           q == IF l.order = "Intel" THEN q0 + k ELSE ((q0 + l.length) - 1) - k
<1>1. q0 \in Nat /\ l.length \in 1..64 /\ CanonicalEnd(l) = q0 + l.length
  BY CanonicalRange
<1> HIDE DEF q0
<1>2. \A p \in q0..(CanonicalEnd(l) - 1) : k = Significance(l, p) <=> p = q
  BY <1>1 DEF Significance, q0
<1>3. q \in q0..(CanonicalEnd(l) - 1) <=> k < l.length
  BY <1>1
<1>4. k \in DecodeRawReference(l, d) <=>
        \E p \in q0..(CanonicalEnd(l) - 1) :
          k = Significance(l, p) /\ BitOf(p, l.order) \in d[p \div 8]
  BY DEF DecodeRawReference, q0
<1> HIDE DEF q
<1>5. k \in DecodeRawReference(l, d) <=> k < l.length /\ BitOf(q, l.order) \in d[q \div 8]
  BY <1>2, <1>3, <1>4
<1> QED BY <1>5 DEF q, q0

(* Reading a signal eight bytes at a time, and a ninth where it reaches    *)
(* into one, gives what reading it bit by bit gives: for every layout that *)
(* fits, every payload and both byte orders (SignalLayout::decode_raw(),   *)
(* decode_raw_reference()).                                                *)
THEOREM DecodeIsTheDefinition ==
  ASSUME NEW n \in Nat, NEW d \in Payload(n), NEW l, l.start \in Nat, l.order \in ByteOrder,
         Fits(l, n)
  PROVE  DecodeRaw(l, d) = DecodeRawReference(l, d)
<1> DEFINE q0 == CanonicalStart(l)
           len == l.length
<1>1. q0 \in Nat /\ len \in 1..64 /\ q0 + len <= 8 * n
  BY CanonicalRange
<1> HIDE DEF q0, len
<1>2. DecodeRawReference(l, d) \subseteq 0..63
  BY DEF DecodeRawReference
<1>3. DecodeRaw(l, d) \subseteq 0..63
  <2>1. BitMask(len) \subseteq 0..63
    BY <1>1 DEF BitMask
  <2>2. ExtractIntel(d, q0, len) \subseteq BitMask(len)
    BY DEF ExtractIntel
  <2>3. ExtractMotorola(d, q0, len) \subseteq BitMask(len)
    BY DEF ExtractMotorola
  <2> QED BY <2>1, <2>2, <2>3 DEF DecodeRaw, q0, len
<1>4. ASSUME NEW k \in 0..63
      PROVE  k \in DecodeRaw(l, d) <=> k \in DecodeRawReference(l, d)
  <2>1. CASE l.order = "Intel"
    <3>1. k \in DecodeRaw(l, d) <=> k < len /\ (q0 + k) % 8 \in d[(q0 + k) \div 8]
      BY <1>1, <2>1, ExtractIntelBit DEF DecodeRaw, q0, len
    <3>2. k \in DecodeRawReference(l, d) <=> k < len /\ (q0 + k) % 8 \in d[(q0 + k) \div 8]
      BY <2>1, ReferenceBit DEF BitOf, q0, len
    <3> QED BY <3>1, <3>2
  <2>2. CASE l.order # "Intel"
    <3>1. k \in DecodeRaw(l, d) <=>
            k < len /\ 7 - (((q0 + len) - 1 - k) % 8) \in d[((q0 + len) - 1 - k) \div 8]
      BY <1>1, <2>2, ExtractMotorolaBit DEF DecodeRaw, q0, len
    <3>2. k \in DecodeRawReference(l, d) <=>
            k < len /\ 7 - (((q0 + len) - 1 - k) % 8) \in d[((q0 + len) - 1 - k) \div 8]
      BY <2>2, ReferenceBit DEF BitOf, q0, len
    <3> QED BY <3>1, <3>2
  <2> QED BY <2>1, <2>2
<1> QED BY <1>2, <1>3, <1>4

(* A store makes bytes of bytes.                                           *)
LEMMA StoresArePayloads ==
  ASSUME NEW n \in Nat, NEW d \in Payload(n), NEW first, NEW count, NEW w
  PROVE  StoreLe(d, first, count, w) \in Payload(n) /\ StoreBe(d, first, count, w) \in Payload(n)
<1>1. DOMAIN d = 0..(n - 1) /\ \A i \in 0..(n - 1) : d[i] \in Byte
  BY DEF Payload
<1>2. StoreLe(d, first, count, w) \in Payload(n)
  BY <1>1 DEF StoreLe, Payload, Byte
<1>3. StoreBe(d, first, count, w) \in Payload(n)
  BY <1>1 DEF StoreBe, Payload, Byte
<1> QED BY <1>2, <1>3

(* So does changing the bits of one byte under a mask.                     *)
LEMMA BytePut ==
  ASSUME NEW n \in Nat, NEW e \in Payload(n), NEW i, NEW mask, NEW bits,
         i \in 0..(n - 1) => mask \subseteq 0..7
  PROVE  [e EXCEPT ![i] = (@ \ mask) \cup (bits \cap mask)] \in Payload(n)
<1>1. i \in 0..(n - 1) => (e[i] \ mask) \cup (bits \cap mask) \in Byte
  BY DEF Payload, Byte
<1> DEFINE new == (e[i] \ mask) \cup (bits \cap mask)
<1> HIDE DEF new
<1>2. [e EXCEPT ![i] = new] \in Payload(n)
  BY <1>1 DEF Payload, new
<1> QED BY <1>2 DEF new

(* encode_raw() keeps the payload a payload.                               *)
LEMMA EncodeIsAPayload ==
  ASSUME NEW n \in Nat, NEW d \in Payload(n), NEW l, l.start \in Nat, l.order \in ByteOrder,
         Fits(l, n), NEW raw
  PROVE  EncodeRaw(l, raw, d) \in Payload(n)
<1> DEFINE q0 == CanonicalStart(l)
           len == l.length
           off == q0 % 8
           nb == SpannedBytes(off, len)
           first == q0 \div 8
<1>1. q0 \in Nat /\ len \in 1..64 /\ q0 + len <= 8 * n
  BY CanonicalRange
<1> HIDE DEF q0, len
<1>2. off \in 0..7 /\ nb \in 1..9 /\ 8 * nb < off + len + 8 /\ 8 * nb >= off + len
  BY <1>1, Spanned
<1>3. nb = 9 => (off + len) - 64 \in 1..7
  BY <1>2, <1>1
<1>4. CASE l.order = "Intel"
  <2>1. nb = 9 => BitMask((off + len) - 64) \subseteq 0..7
    BY <1>3 DEF BitMask
  <2>2. InsertIntel(d, q0, len, raw) \in Payload(n)
    <3> DEFINE head == IF nb < 8 THEN nb ELSE 8
               value == Shl(raw \cap BitMask(len), off)
               window == Shl(BitMask(len), off)
               headed == StoreLe(d, first, head, (LoadLe(d, first, head) \ window) \cup (value \cap window))
               tail == BitMask((off + len) - 64)
               rest == Shr(raw \cap BitMask(len), len - ((off + len) - 64))
               tailed == [headed EXCEPT ![first + 8] = (@ \ tail) \cup (rest \cap tail)]
    <3>1. InsertIntel(d, q0, len, raw) = IF nb = 9 THEN tailed ELSE headed
      BY DEF InsertIntel
    <3>2. headed \in Payload(n)
      BY StoresArePayloads
    <3> HIDE DEF headed, rest
    <3>3. nb = 9 => tailed \in Payload(n)
      BY <2>1, <3>2, BytePut
    <3> HIDE DEF tailed
    <3> QED BY <3>1, <3>2, <3>3
  <2>3. EncodeRaw(l, raw, d) = InsertIntel(d, q0, len, raw)
    BY <1>4 DEF EncodeRaw, q0, len
  <2> QED BY <2>2, <2>3
<1>5. CASE l.order # "Intel"
  <2>1. ~(nb <= 8) => (8 - ((off + len) - 64))..7 \subseteq 0..7
    BY <1>2, <1>3
  <2>2. InsertMotorola(d, q0, len, raw) \in Payload(n)
    <3> DEFINE v == raw \cap BitMask(len)
               shift == ((8 * nb) - off) - len
               past == (off + len) - 64
               window == Shl(BitMask(len), shift)
               short == StoreBe(d, first, nb, (LoadBe(d, first, nb) \ window) \cup (Shl(v, shift) \cap window))
               heads == BitMask(len - past)
               tail == (8 - past)..7
               rest == Shl(v, 8 - past)
               headed == StoreBe(d, first, 8, (LoadBe(d, first, 8) \ heads) \cup (Shr(v, past) \cap heads))
               tailed == [headed EXCEPT ![first + 8] = (@ \ tail) \cup (rest \cap tail)]
    <3>1. InsertMotorola(d, q0, len, raw) = IF nb <= 8 THEN short ELSE tailed
      BY DEF InsertMotorola
    <3>2. short \in Payload(n) /\ headed \in Payload(n)
      BY StoresArePayloads
    <3> HIDE DEF short, headed, rest
    <3>3. ~(nb <= 8) => tailed \in Payload(n)
      BY <2>1, <3>2, BytePut
    <3> HIDE DEF tailed
    <3> QED BY <3>1, <3>2, <3>3
  <2> QED BY <1>5, <2>2 DEF EncodeRaw, q0, len
<1> QED BY <1>4, <1>5

(* One bit of what encode_raw() and its definition leave in byte i.        *)
LEMMA EncodedBit ==
  ASSUME NEW n \in Nat, NEW d \in Payload(n), NEW l, l.start \in Nat, l.order \in ByteOrder,
         Fits(l, n), NEW raw, NEW i \in 0..(n - 1), NEW b \in 0..7
  PROVE  b \in EncodeRaw(l, raw, d)[i] <=> b \in EncodeRawReference(l, raw, d)[i]
<1> DEFINE q0 == CanonicalStart(l)
           len == l.length
           q == (8 * i) + (IF l.order = "Intel" THEN b ELSE 7 - b)
           inside == q0 <= q /\ q < q0 + len
<1>1. q0 \in Nat /\ len \in 1..64 /\ CanonicalEnd(l) = q0 + len /\ q0 + len <= 8 * n
  BY CanonicalRange
<1>2. DOMAIN d = 0..(n - 1)
  BY DEF Payload
<1> HIDE DEF q0, len
<1>3. b \in EncodeRawReference(l, raw, d)[i] <=>
        IF inside THEN Significance(l, q) \in raw ELSE b \in d[i]
  BY <1>1, <1>2 DEF EncodeRawReference, q0, len
<1>4. CASE l.order = "Intel"
  <2>1. b \in EncodeRaw(l, raw, d)[i] <=> IF inside THEN q - q0 \in raw ELSE b \in d[i]
    <3>1. EncodeRaw(l, raw, d) = InsertIntel(d, q0, len, raw)
      BY <1>4 DEF EncodeRaw, q0, len
    <3>2. q = (8 * i) + b
      BY <1>4
    <3> HIDE DEF q
    <3>3. b \in InsertIntel(d, q0, len, raw)[i] <=>
            IF q0 <= q /\ q < q0 + len THEN q - q0 \in raw ELSE b \in d[i]
      BY <1>1, <3>2, InsertIntelBit
    <3> QED BY <3>1, <3>3
  <2>2. Significance(l, q) = q - q0
    BY <1>4 DEF Significance, q0
  <2> QED BY <1>3, <2>1, <2>2
<1>5. CASE l.order # "Intel"
  <2>1. b \in EncodeRaw(l, raw, d)[i] <=>
          IF inside THEN ((q0 + len) - 1) - q \in raw ELSE b \in d[i]
    <3>1. EncodeRaw(l, raw, d) = InsertMotorola(d, q0, len, raw)
      BY <1>5 DEF EncodeRaw, q0, len
    <3>2. q = (8 * i) + (7 - b)
      BY <1>5
    <3> HIDE DEF q
    <3>3. b \in InsertMotorola(d, q0, len, raw)[i] <=>
            IF q0 <= q /\ q < q0 + len THEN ((q0 + len) - 1) - q \in raw ELSE b \in d[i]
      BY <1>1, <3>2, InsertMotorolaBit
    <3> QED BY <3>1, <3>3
  <2>2. Significance(l, q) = ((q0 + len) - 1) - q
    BY <1>1, <1>5 DEF Significance
  <2> QED BY <1>3, <2>1, <2>2
<1> QED BY <1>4, <1>5

(* Writing a signal eight bytes at a time, and a ninth, writes what        *)
(* writing it bit by bit writes, and leaves every other bit of the payload *)
(* as it was (SignalLayout::encode_raw(), encode_raw_reference()).         *)
THEOREM EncodeIsTheDefinition ==
  ASSUME NEW n \in Nat, NEW d \in Payload(n), NEW l, l.start \in Nat, l.order \in ByteOrder,
         Fits(l, n), NEW raw
  PROVE  EncodeRaw(l, raw, d) = EncodeRawReference(l, raw, d)
<1>1. EncodeRaw(l, raw, d) \in Payload(n)
  BY EncodeIsAPayload
<1>2. EncodeRawReference(l, raw, d) \in Payload(n)
  BY DEF EncodeRawReference, Payload, Byte
<1>3. ASSUME NEW i \in 0..(n - 1)
      PROVE  EncodeRaw(l, raw, d)[i] = EncodeRawReference(l, raw, d)[i]
  <2>1. EncodeRaw(l, raw, d)[i] \subseteq 0..7 /\ EncodeRawReference(l, raw, d)[i] \subseteq 0..7
    BY <1>1, <1>2 DEF Payload, Byte
  <2>2. \A b \in 0..7 : b \in EncodeRaw(l, raw, d)[i] <=> b \in EncodeRawReference(l, raw, d)[i]
    BY EncodedBit
  <2> QED BY <2>1, <2>2
<1> QED BY <1>1, <1>2, <1>3 DEF Payload

(* What was written is read again, cut to the width of the signal.         *)
THEOREM ReadsBack ==
  ASSUME NEW n \in Nat, NEW d \in Payload(n), NEW l, l.start \in Nat, l.order \in ByteOrder,
         Fits(l, n), NEW raw \in Word
  PROVE  DecodeRaw(l, EncodeRaw(l, raw, d)) = raw \cap BitMask(l.length)
<1> DEFINE e == EncodeRawReference(l, raw, d)
           q0 == CanonicalStart(l)
           len == l.length
<1>1. EncodeRaw(l, raw, d) = e /\ e \in Payload(n)
  BY EncodeIsTheDefinition, EncodeIsAPayload
<1>2. DecodeRaw(l, e) = DecodeRawReference(l, e)
  BY <1>1, DecodeIsTheDefinition
<1>3. q0 \in Nat /\ len \in 1..64 /\ CanonicalEnd(l) = q0 + len /\ q0 + len <= 8 * n
  BY CanonicalRange
<1>4. DOMAIN d = 0..(n - 1)
  BY DEF Payload
<1> HIDE DEF q0, len
<1>5. ASSUME NEW k \in 0..63
      PROVE  k \in DecodeRawReference(l, e) <=> k \in raw \cap BitMask(len)
  <2> DEFINE q == IF l.order = "Intel" THEN q0 + k ELSE ((q0 + len) - 1) - k
             i == q \div 8
             b == BitOf(q, l.order)
  <2>1. CASE k < len
    <3>1. q \in Nat /\ q0 <= q /\ q < q0 + len /\ q < 8 * n
      BY <2>1, <1>3
    <3>2. i \in 0..(n - 1) /\ b \in 0..7 /\ q = (8 * i) + (IF l.order = "Intel" THEN b ELSE 7 - b)
      <4> HIDE DEF q
      <4> QED BY <3>1 DEF BitOf
    <3>3. Significance(l, q) = k
      BY <1>3 DEF Significance, q0
    <3> HIDE DEF q, i, b
    <3>4. b \in e[i] <=> k \in raw
      BY <1>3, <1>4, <3>1, <3>2, <3>3 DEF EncodeRawReference, q0
    <3>5. k \in DecodeRawReference(l, e) <=> k < len /\ b \in e[i]
      BY <1>1, ReferenceBit DEF q, i, b, q0, len
    <3> QED BY <2>1, <1>3, <3>4, <3>5 DEF BitMask
  <2>2. CASE ~(k < len)
    <3>1. k \notin DecodeRawReference(l, e)
      BY <2>2, <1>1, ReferenceBit DEF len
    <3> QED BY <2>2, <3>1, <1>3 DEF BitMask
  <2> QED BY <2>1, <2>2
<1>6. DecodeRawReference(l, e) \subseteq 0..63
  BY DEF DecodeRawReference
<1> QED BY <1>1, <1>2, <1>5, <1>6 DEF Word, len

(* Writing one signal changes no signal that shares no bit with it,        *)
(* whatever byte orders the two have and however their bytes overlap.      *)
THEOREM OthersAreLeftAlone ==
  ASSUME NEW n \in Nat, NEW d \in Payload(n), NEW raw,
         NEW l, l.start \in Nat, l.order \in ByteOrder, Fits(l, n),
         NEW m, m.start \in Nat, m.order \in ByteOrder, Fits(m, n),
         \A p \in CanonicalStart(l)..(CanonicalEnd(l) - 1) :
           \A q \in CanonicalStart(m)..(CanonicalEnd(m) - 1) :
             <<p \div 8, BitOf(p, l.order)>> # <<q \div 8, BitOf(q, m.order)>>
  PROVE  DecodeRaw(m, EncodeRaw(l, raw, d)) = DecodeRaw(m, d)
<1> DEFINE e == EncodeRawReference(l, raw, d)
<1>1. EncodeRaw(l, raw, d) = e /\ e \in Payload(n)
  BY EncodeIsTheDefinition, EncodeIsAPayload
<1>2. DecodeRaw(m, e) = DecodeRawReference(m, e) /\ DecodeRaw(m, d) = DecodeRawReference(m, d)
  BY <1>1, DecodeIsTheDefinition
<1>3. CanonicalStart(l) \in Nat /\ CanonicalStart(m) \in Nat
      /\ CanonicalEnd(l) \in Nat /\ CanonicalEnd(m) \in Nat /\ CanonicalEnd(m) <= 8 * n
  BY CanonicalRange
<1>4. DOMAIN d = 0..(n - 1)
  BY DEF Payload
<1>5. ASSUME NEW q \in CanonicalStart(m)..(CanonicalEnd(m) - 1)
      PROVE  BitOf(q, m.order) \in e[q \div 8] <=> BitOf(q, m.order) \in d[q \div 8]
  <2> DEFINE i == q \div 8
             b == BitOf(q, m.order)
             p == (8 * i) + (IF l.order = "Intel" THEN b ELSE 7 - b)
  <2>1. i \in 0..(n - 1) /\ b \in 0..7
    BY <1>3, <1>5 DEF BitOf
  <2>2. b \in e[i] <=> IF CanonicalStart(l) <= p /\ p < CanonicalEnd(l)
                       THEN Significance(l, p) \in raw ELSE b \in d[i]
    <3> HIDE DEF b, i
    <3> QED BY <1>4, <2>1 DEF EncodeRawReference
  <2>3. p \in Nat /\ p \div 8 = i /\ BitOf(p, l.order) = b
    <3> HIDE DEF b, i
    <3> QED BY <2>1 DEF BitOf
  <2>4. ~(CanonicalStart(l) <= p /\ p < CanonicalEnd(l))
    <3> HIDE DEF p
    <3> QED BY <1>3, <1>5, <2>3
  <2> QED BY <2>2, <2>4
<1> QED BY <1>1, <1>2, <1>5 DEF DecodeRawReference

(* So the fast path is the definition in every state in which the frame is *)
(* a payload: for every message and every word.                            *)
LEMMA FastPathHolds ==
  ASSUME CodecTypeOK, message \in Messages
  PROVE  FastPathIsTheDefinition
<1>1. PayloadSize(frame) \in Nat /\ frame \in Payload(PayloadSize(frame))
  BY DEF CodecTypeOK
<1>2. ASSUME NEW i \in Fitting
      PROVE  /\ LayoutOf(i).start \in Nat /\ LayoutOf(i).order \in ByteOrder
             /\ Fits(LayoutOf(i), PayloadSize(frame))
  BY MessagesAreBuilt DEF Fitting, LayoutOf, SignalsOf, MessagesAreBuilt
<1>3. ASSUME NEW i \in Fitting
      PROVE  DecodeRaw(LayoutOf(i), frame) = DecodeRawReference(LayoutOf(i), frame)
  BY <1>1, <1>2, DecodeIsTheDefinition
<1>4. ASSUME NEW i \in Fitting, NEW w
      PROVE  EncodeRaw(LayoutOf(i), w, frame) = EncodeRawReference(LayoutOf(i), w, frame)
  BY <1>1, <1>2, EncodeIsTheDefinition
<1> QED BY <1>3, <1>4 DEF FastPathIsTheDefinition

-----------------------------------------------------------------------------
(* Induction, as a statement about sets of numbers.                        *)
LEMMA SetInduction ==
  ASSUME NEW T \in SUBSET Nat, 0 \in T, \A n \in T : n + 1 \in T
  PROVE  Nat \subseteq T
<1> DEFINE R == {ss \in Nat \X Nat : ss[1] < ss[2]}
<1>1. IsWellFoundedOn(R, Nat)
  BY NatLessThanWellFounded DEF OpToRel
<1>2. SUFFICES ASSUME Nat \ T # {} PROVE FALSE
  OBVIOUS
<1>3. \E x \in Nat \ T : \A y \in Nat \ T : ~(<<y, x>> \in R)
  <2> HIDE DEF R
  <2> QED BY <1>1, <1>2, WFMin
<1>4. PICK x \in Nat \ T : \A y \in Nat \ T : ~(<<y, x>> \in R)
  BY <1>3
<1>5. x # 0 /\ x - 1 \in Nat /\ <<x - 1, x>> \in R
  OBVIOUS
<1>6. x - 1 \in T
  BY <1>4, <1>5
<1> QED BY <1>6, <1>4

-----------------------------------------------------------------------------
(* A payload of n bytes, and what is left of it when fewer arrive.         *)
LEMMA PayloadSizeIs ==
  ASSUME NEW n \in Nat, NEW d \in Payload(n)
  PROVE  PayloadSize(d) = n
<1>1. DOMAIN d = 0..(n - 1)
  BY DEF Payload
<1>2. CASE n = 0
  BY <1>1, <1>2 DEF PayloadSize
<1>3. CASE n # 0
  <2>1. n - 1 \in 0..(n - 1) /\ \A k \in 0..(n - 1) : k <= n - 1
    BY <1>3
  <2>4. DOMAIN d # {} /\ n - 1 \in DOMAIN d /\ \A k \in DOMAIN d : k <= n - 1
    BY <1>1, <2>1
  <2> DEFINE last == CHOOSE x \in DOMAIN d : \A k \in DOMAIN d : k <= x
  <2>2. last \in DOMAIN d /\ \A k \in DOMAIN d : k <= last
    BY <2>4
  <2>3. PayloadSize(d) = 1 + last
    BY <2>4 DEF PayloadSize
  <2> HIDE DEF last
  <2> QED BY <1>1, <1>3, <2>4, <2>2, <2>3
<1> QED BY <1>2, <1>3

Front(d, n) == [k \in 0..(n - 1) |-> d[k]]

LEMMA FrontIsAPayload ==
  ASSUME NEW n \in Nat, NEW d \in Payload(n), NEW k \in 0..n
  PROVE  Front(d, k) \in Payload(k)
BY DEF Front, Payload

LEMMA FrontReads ==
  ASSUME NEW n \in Nat, NEW d \in Payload(n), NEW k \in 0..n,
         NEW l, l.start \in Nat, l.order \in ByteOrder, Fits(l, k)
  PROVE  Fits(l, n) /\ DecodeRaw(l, Front(d, k)) = DecodeRaw(l, d)
<1>1. Fits(l, n)
  <2>1. CanonicalStart(l) \in Nat /\ l.length \in 1..64
        /\ CanonicalEnd(l) = CanonicalStart(l) + l.length
        /\ CanonicalStart(l) + l.length <= 8 * k
    BY CanonicalRange
  <2> QED BY <2>1 DEF Fits
<1>2. DecodeRaw(l, Front(d, k)) = DecodeRawReference(l, Front(d, k))
  BY FrontIsAPayload, DecodeIsTheDefinition
<1>3. DecodeRaw(l, d) = DecodeRawReference(l, d)
  BY <1>1, DecodeIsTheDefinition
<1>4. CanonicalStart(l) \in Nat /\ CanonicalEnd(l) \in Nat /\ CanonicalEnd(l) <= 8 * k
  BY CanonicalRange
<1>5. ASSUME NEW q \in CanonicalStart(l)..(CanonicalEnd(l) - 1)
      PROVE  Front(d, k)[q \div 8] = d[q \div 8]
  <2>1. q \div 8 \in 0..(k - 1)
    BY <1>4
  <2> QED BY <2>1 DEF Front
<1>6. DecodeRawReference(l, Front(d, k)) = DecodeRawReference(l, d)
  BY <1>5 DEF DecodeRawReference
<1> QED BY <1>1, <1>2, <1>3, <1>6

(* A list of signals has a first one of any kind.                          *)
LEMMA LeastOfIndices ==
  ASSUME NEW N, NEW set \in SUBSET (1..N), set # {}
  PROVE  \E j \in set : \A k \in set : j <= k
<1> DEFINE R == {ss \in Nat \X Nat : ss[1] < ss[2]}
<1>1. IsWellFoundedOn(R, Nat)
  BY NatLessThanWellFounded DEF OpToRel
<1>2. set \subseteq Nat
  OBVIOUS
<1> HIDE DEF R
<1>3. PICK x \in set : \A y \in set : ~(<<y, x>> \in R)
  BY <1>1, <1>2, WFMin
<1>4. ASSUME NEW y \in set PROVE x <= y
  <2>1. x \in Nat /\ y \in Nat
    BY <1>2
  <2>2. y < x => <<y, x>> \in R
    BY <2>1 DEF R
  <2> QED BY <1>3, <2>1, <2>2
<1> QED BY <1>3, <1>4

-----------------------------------------------------------------------------
(* Which signals are there, by how many switches may be asked.             *)
SignalIsAlways(m, i) ==
  \/ m.signals[i].role = "None"
  \/ m.signals[i].role = "Multiplexor" /\ m.signals[i].switch = NoName
SwitchSelects(m, d, i) ==
  /\ Fits(m.signals[SwitchOf(m, i)].layout, PayloadSize(d))
  /\ IsPresentFor(m.signals[i], SwitchValue(m, SwitchOf(m, i), d))

WalkedUp(f, n, m, d) ==
  f = [left \in 0..n |->
         [i \in DOMAIN m.signals |->
            \/ SignalIsAlways(m, i)
            \/ /\ left > 0 /\ SwitchOf(m, i) \notin {0, i}
               /\ f[left - 1][SwitchOf(m, i)] /\ SwitchSelects(m, d, i)]]

LEMMA WalkExists ==
  ASSUME NEW m, NEW d
  PROVE  \A n \in Nat : \E f : WalkedUp(f, n, m, d)
<1> DEFINE T == {n \in Nat : \E f : WalkedUp(f, n, m, d)}
           Row(left, row) ==
             [i \in DOMAIN m.signals |->
                \/ SignalIsAlways(m, i)
                \/ /\ left > 0 /\ SwitchOf(m, i) \notin {0, i}
                   /\ row[SwitchOf(m, i)] /\ SwitchSelects(m, d, i)]
<1>1. ASSUME NEW f, NEW n
      PROVE  WalkedUp(f, n, m, d) <=> f = [left \in 0..n |-> Row(left, f[left - 1])]
  BY DEF WalkedUp
<1>2. ASSUME NEW row, NEW other PROVE Row(0, row) = Row(0, other)
  OBVIOUS
<1> HIDE DEF Row
<1>3. 0 \in T
  <2> DEFINE f == [left \in 0..0 |-> Row(left, <<>>)]
  <2>1. f = [left \in 0..0 |-> Row(left, f[left - 1])]
    <3>1. \A left \in 0..0 : Row(left, <<>>) = Row(left, f[left - 1])
      BY <1>2
    <3> QED BY <3>1
  <2> QED BY <1>1, <2>1
<1>4. ASSUME NEW n \in T PROVE n + 1 \in T
  <2>1. PICK f : f = [left \in 0..n |-> Row(left, f[left - 1])]
    BY <1>1
  <2> DEFINE g == [left \in 0..(n + 1) |-> IF left <= n THEN f[left] ELSE Row(left, f[n])]
  <2>2. ASSUME NEW left \in 0..(n + 1) PROVE g[left] = Row(left, g[left - 1])
    <3>1. CASE left = 0
      <4>1. g[left] = Row(0, f[0 - 1])
        BY <2>1, <3>1
      <4> QED BY <1>2, <3>1, <4>1
    <3>2. CASE left # 0 /\ left <= n
      <4>1. g[left] = Row(left, f[left - 1])
        BY <2>1, <3>2
      <4>2. g[left - 1] = f[left - 1]
        BY <3>2
      <4> QED BY <4>1, <4>2
    <3>3. CASE left = n + 1
      BY <3>3
    <3> QED BY <3>1, <3>2, <3>3
  <2>3. g = [left \in 0..(n + 1) |-> Row(left, g[left - 1])]
    BY <2>2
  <2>4. WalkedUp(g, n + 1, m, d)
    BY <1>1, <2>3
  <2> QED BY <2>4
<1>5. Nat \subseteq T
  BY <1>3, <1>4, SetInduction
<1> QED BY <1>5

(* The sets of signals that are there, by how many switches may be asked.  *)
Climb(S, m, d) ==
  /\ S[0] = {i \in DOMAIN m.signals : SignalIsAlways(m, i)}
  /\ \A n \in 0..MaxDepth :
       S[n + 1] = {i \in DOMAIN m.signals :
                     \/ SignalIsAlways(m, i)
                     \/ /\ SwitchOf(m, i) \notin {0, i} /\ SwitchOf(m, i) \in S[n]
                        /\ SwitchSelects(m, d, i)}
  /\ ActiveSignals(m, d) = S[MaxDepth + 1]

LEMMA ActiveIs ==
  ASSUME NEW m, NEW d,
         \A i \in DOMAIN m.signals : SwitchOf(m, i) \in {0} \cup DOMAIN m.signals
  PROVE  \E S : Climb(S, m, d)
<1> DEFINE a == CHOOSE f : WalkedUp(f, MaxDepth + 1, m, d)
           S == [n \in 0..(MaxDepth + 1) |-> {i \in DOMAIN m.signals : a[n][i]}]
<1>1. MaxDepth + 1 \in Nat /\ MaxDepth \in Nat
  BY DEF MaxDepth
<1>2. WalkedUp(a, MaxDepth + 1, m, d)
  BY <1>1, WalkExists
<1>3. ActiveSignals(m, d) = {i \in DOMAIN m.signals : a[MaxDepth + 1][i]}
  BY DEF ActiveSignals, WalkedUp, SignalIsAlways, SwitchSelects
<1> HIDE DEF a
<1>4. ASSUME NEW n \in 0..(MaxDepth + 1), NEW i \in DOMAIN m.signals
      PROVE  a[n][i] <=> \/ SignalIsAlways(m, i)
                         \/ /\ n > 0 /\ SwitchOf(m, i) \notin {0, i}
                            /\ a[n - 1][SwitchOf(m, i)] /\ SwitchSelects(m, d, i)
  BY <1>2 DEF WalkedUp
<1>5. S[0] = {i \in DOMAIN m.signals : SignalIsAlways(m, i)}
  BY <1>1, <1>4
<1>6. ASSUME NEW n \in 0..MaxDepth
      PROVE  S[n + 1] = {i \in DOMAIN m.signals :
                           \/ SignalIsAlways(m, i)
                           \/ /\ SwitchOf(m, i) \notin {0, i} /\ SwitchOf(m, i) \in S[n]
                              /\ SwitchSelects(m, d, i)}
  <2>1. n + 1 \in 0..(MaxDepth + 1) /\ n \in 0..(MaxDepth + 1) /\ n + 1 > 0 /\ (n + 1) - 1 = n
    BY <1>1
  <2>2. S[n + 1] = {i \in DOMAIN m.signals : a[n + 1][i]}
    BY <2>1
  <2>3. S[n] = {i \in DOMAIN m.signals : a[n][i]}
    BY <2>1
  <2>4. ASSUME NEW i \in DOMAIN m.signals
        PROVE  a[n + 1][i] <=>
                 \/ SignalIsAlways(m, i)
                 \/ /\ SwitchOf(m, i) \notin {0, i} /\ SwitchOf(m, i) \in S[n]
                    /\ SwitchSelects(m, d, i)
    <3>1. a[n + 1][i] <=> \/ SignalIsAlways(m, i)
                          \/ /\ SwitchOf(m, i) \notin {0, i}
                             /\ a[n][SwitchOf(m, i)] /\ SwitchSelects(m, d, i)
      BY <1>4, <2>1
    <3>2. SwitchOf(m, i) \notin {0, i} =>
            (a[n][SwitchOf(m, i)] <=> SwitchOf(m, i) \in S[n])
      BY <2>3
    <3> QED BY <3>1, <3>2
  <2> HIDE DEF S
  <2> QED BY <2>2, <2>4
<1>7. S[MaxDepth + 1] = ActiveSignals(m, d)
  BY <1>1, <1>3
<1> HIDE DEF S
<1> QED BY <1>5, <1>6, <1>7 DEF Climb

(* Of a message that is built, a name is of one of its signals, or of none. *)
LEMMA FoundSignalIsOne ==
  ASSUME NEW m \in Messages, NEW name
  PROVE  FindSignal(m, name) \in {0} \cup DOMAIN m.signals
<1>0. DOMAIN m.signals = 1..Len(m.signals)
  BY MessagesAreBuilt DEF MessagesAreBuilt
<1> DEFINE found == {j \in DOMAIN m.signals : m.signals[j].name = name}
<1>1. CASE found = {}
  BY <1>1 DEF FindSignal
<1>2. CASE found # {}
  <2>1. \E j \in found : \A k \in found : j <= k
    BY <1>0, <1>2, LeastOfIndices
  <2>2. FindSignal(m, name) = CHOOSE j \in found : \A k \in found : j <= k
    BY <1>2 DEF FindSignal
  <2>3. FindSignal(m, name) \in found
    BY <2>1, <2>2
  <2> QED BY <2>3
<1> QED BY <1>1, <1>2

(* Of a message that is built, a switch is one of its signals, or none.    *)
LEMMA SwitchIsASignal ==
  ASSUME NEW m \in Messages, NEW i \in DOMAIN m.signals
  PROVE  SwitchOf(m, i) \in {0} \cup DOMAIN m.signals
<1>1. DOMAIN m.signals = 1..Len(m.signals)
  BY MessagesAreBuilt DEF MessagesAreBuilt
<1>3. Multiplexor(m) \in {0} \cup DOMAIN m.signals
  <2> DEFINE all == {j \in DOMAIN m.signals : m.signals[j].role = "Multiplexor"}
             roots == {j \in all : m.signals[j].switch = NoName}
  <2>1. ASSUME NEW set \in SUBSET DOMAIN m.signals, set # {}
        PROVE  (CHOOSE j \in set : \A k \in set : j <= k) \in DOMAIN m.signals
    <3>1. \E j \in set : \A k \in set : j <= k
      BY <1>1, <2>1, LeastOfIndices
    <3> QED BY <3>1
  <2>2. CASE roots # {}
    <3>1. Multiplexor(m) = CHOOSE j \in roots : \A k \in roots : j <= k
      BY <2>2 DEF Multiplexor
    <3> QED BY <2>1, <2>2, <3>1
  <2>3. CASE roots = {} /\ all # {}
    <3>1. Multiplexor(m) = CHOOSE j \in all : \A k \in all : j <= k
      BY <2>3 DEF Multiplexor
    <3> QED BY <2>1, <2>3, <3>1
  <2>4. CASE roots = {} /\ all = {}
    BY <2>4 DEF Multiplexor
  <2> QED BY <2>2, <2>3, <2>4
<1> QED BY <1>3, FoundSignalIsOne DEF SwitchOf

LEMMA ActiveClimbs ==
  ASSUME NEW m \in Messages, NEW d
  PROVE  \E S : Climb(S, m, d)
BY SwitchIsASignal, ActiveIs

LEMMA ClimbIsOfSignals ==
  ASSUME NEW m, NEW d, NEW S, Climb(S, m, d), NEW n \in 0..(MaxDepth + 1)
  PROVE  S[n] \subseteq DOMAIN m.signals
<1>1. CASE n = 0
  BY <1>1 DEF Climb
<1>2. CASE n # 0
  <2>1. n - 1 \in 0..MaxDepth /\ (n - 1) + 1 = n
    BY <1>2 DEF MaxDepth
  <2>2. S[(n - 1) + 1] \subseteq DOMAIN m.signals
    BY <2>1 DEF Climb
  <2> QED BY <2>1, <2>2
<1> QED BY <1>1, <1>2

(* Who is there after some steps is there after more.                      *)
LEMMA ClimbGrows ==
  ASSUME NEW m, NEW d, NEW S, Climb(S, m, d)
  PROVE  \A n \in 0..MaxDepth : S[n] \subseteq S[n + 1]
<1> DEFINE T == {n \in Nat : n <= MaxDepth => S[n] \subseteq S[n + 1]}
<1>1. MaxDepth \in Nat
  BY DEF MaxDepth
<1>2. 0 \in T
  <2>1. 0 \in 0..MaxDepth
    BY <1>1
  <2>2. S[0] \subseteq S[0 + 1]
    BY <2>1 DEF Climb
  <2> QED BY <2>2
<1>3. ASSUME NEW n \in T PROVE n + 1 \in T
  <2> SUFFICES ASSUME n + 1 <= MaxDepth PROVE S[n + 1] \subseteq S[(n + 1) + 1]
    OBVIOUS
  <2>1. n \in 0..MaxDepth /\ n + 1 \in 0..MaxDepth
    BY <1>1
  <2>2. S[n] \subseteq S[n + 1]
    BY <2>1
  <2> HIDE DEF T
  <2> QED BY <2>1, <2>2 DEF Climb
<1>4. Nat \subseteq T
  BY <1>2, <1>3, SetInduction
<1> QED BY <1>1, <1>4

LEMMA ClimbGrowsFar ==
  ASSUME NEW m, NEW d, NEW S, Climb(S, m, d), NEW n \in 0..(MaxDepth + 1)
  PROVE  \A k \in n..(MaxDepth + 1) : S[n] \subseteq S[k]
<1> DEFINE T == {k \in Nat : n + k <= MaxDepth + 1 => S[n] \subseteq S[n + k]}
<1>1. MaxDepth \in Nat
  BY DEF MaxDepth
<1>2. 0 \in T
  OBVIOUS
<1>3. ASSUME NEW k \in T PROVE k + 1 \in T
  <2> SUFFICES ASSUME n + (k + 1) <= MaxDepth + 1 PROVE S[n] \subseteq S[n + (k + 1)]
    OBVIOUS
  <2>1. n + k \in 0..MaxDepth /\ (n + k) + 1 = n + (k + 1) /\ n + k <= MaxDepth + 1
    BY <1>1
  <2>2. S[n] \subseteq S[n + k]
    BY <2>1
  <2>3. S[n + k] \subseteq S[(n + k) + 1]
    BY <2>1, ClimbGrows
  <2> QED BY <2>1, <2>2, <2>3
<1>4. Nat \subseteq T
  BY <1>2, <1>3, SetInduction
<1> SUFFICES ASSUME NEW k \in n..(MaxDepth + 1) PROVE S[n] \subseteq S[k]
  OBVIOUS
<1>5. k - n \in T /\ n + (k - n) = k /\ k <= MaxDepth + 1
  BY <1>1, <1>4
<1> QED BY <1>5

-----------------------------------------------------------------------------
(* A frame that arrives short.                                             *)
LEMMA ShortFramesSelectLess ==
  ASSUME NEW m \in Messages, NEW n \in Nat, NEW d \in Payload(n), NEW k \in 0..n
  PROVE  \A i \in Decoded(m, Front(d, k)) :
           i \in Decoded(m, d) /\ RawOf(m, i, Front(d, k)) = RawOf(m, i, d)
<1> DEFINE e == Front(d, k)
<1>1. PayloadSize(d) = n /\ PayloadSize(e) = k
  BY FrontIsAPayload, PayloadSizeIs
<1> HIDE DEF e
<1>2. ASSUME NEW i \in DOMAIN m.signals, Fits(m.signals[i].layout, k)
      PROVE  /\ Fits(m.signals[i].layout, n)
             /\ DecodeRaw(m.signals[i].layout, e) = DecodeRaw(m.signals[i].layout, d)
  <2>1. m.signals[i].layout.start \in Nat /\ m.signals[i].layout.order \in ByteOrder
    BY MessagesAreBuilt DEF MessagesAreBuilt
  <2> QED BY <1>2, <2>1, FrontReads DEF e
<1>3. PICK S : Climb(S, m, e)
  BY ActiveClimbs
<1>4. PICK U : Climb(U, m, d)
  BY ActiveClimbs
<1> DEFINE T == {j \in Nat : j <= MaxDepth + 1 => S[j] \subseteq U[j]}
<1>5. MaxDepth \in Nat
  BY DEF MaxDepth
<1>6. 0 \in T
  BY <1>3, <1>4 DEF Climb
<1>7. ASSUME NEW j \in T PROVE j + 1 \in T
  <2> SUFFICES ASSUME j + 1 <= MaxDepth + 1, NEW i \in S[j + 1] PROVE i \in U[j + 1]
    OBVIOUS
  <2>1. j \in 0..MaxDepth /\ S[j] \subseteq U[j]
    BY <1>5
  <2>2. /\ i \in DOMAIN m.signals
        /\ \/ SignalIsAlways(m, i)
           \/ /\ SwitchOf(m, i) \notin {0, i} /\ SwitchOf(m, i) \in S[j]
              /\ SwitchSelects(m, e, i)
    BY <1>3, <2>1 DEF Climb
  <2>3. CASE SignalIsAlways(m, i)
    BY <1>4, <2>1, <2>2, <2>3 DEF Climb
  <2>4. CASE /\ SwitchOf(m, i) \notin {0, i} /\ SwitchOf(m, i) \in S[j]
             /\ SwitchSelects(m, e, i)
    <3>1. SwitchOf(m, i) \in DOMAIN m.signals
      BY <2>2, <2>4, SwitchIsASignal
    <3>2. SwitchSelects(m, d, i)
      BY <1>1, <1>2, <2>4, <3>1 DEF SwitchSelects, SwitchValue
    <3> QED BY <1>4, <2>1, <2>2, <2>4, <3>2 DEF Climb
  <2> QED BY <2>2, <2>3, <2>4
<1>8. Nat \subseteq T
  BY <1>6, <1>7, SetInduction
<1>9. ActiveSignals(m, e) \subseteq ActiveSignals(m, d)
  <2>1. MaxDepth + 1 \in T
    BY <1>5, <1>8
  <2>2. S[MaxDepth + 1] \subseteq U[MaxDepth + 1]
    BY <1>5, <2>1
  <2> QED BY <1>3, <1>4, <2>2 DEF Climb
<1>10. ActiveSignals(m, e) \subseteq DOMAIN m.signals
  BY <1>3, <1>5, ClimbIsOfSignals DEF Climb
<1> SUFFICES ASSUME NEW i \in Decoded(m, e)
             PROVE  i \in Decoded(m, d) /\ RawOf(m, i, e) = RawOf(m, i, d)
  BY DEF e
<1>11. i \in ActiveSignals(m, e) /\ Fits(m.signals[i].layout, k)
  BY <1>1 DEF Decoded
<1> QED BY <1>1, <1>2, <1>9, <1>10, <1>11 DEF Decoded, RawOf

-----------------------------------------------------------------------------
(* Then one step more finds nobody new.                                    *)
LEMMA ClimbIsOver ==
  ASSUME NEW m, NEW d, NEW S, Climb(S, m, d), ChainsAreShort(m),
         NEW i \in DOMAIN m.signals, SwitchOf(m, i) \notin {0, i},
         SwitchOf(m, i) \in S[MaxDepth + 1], SwitchSelects(m, d, i)
  PROVE  i \in S[MaxDepth + 1]
<1>1. PICK level \in [DOMAIN m.signals -> 0..(MaxDepth + 2)] :
        \A j \in DOMAIN m.signals :
          \/ SignalIsAlways(m, j) /\ level[j] = 0
          \/ SwitchOf(m, j) \in {0, j} /\ ~SignalIsAlways(m, j)
          \/ /\ ~SignalIsAlways(m, j) /\ SwitchOf(m, j) \in DOMAIN m.signals
             /\ \/ level[SwitchOf(m, j)] < level[j] /\ level[j] <= MaxDepth + 1
                \/ level[SwitchOf(m, j)] = MaxDepth + 2 /\ level[j] = MaxDepth + 2
  BY DEF ChainsAreShort, SignalIsAlways
<1>2. MaxDepth \in Nat
  BY DEF MaxDepth
<1> DEFINE T == {n \in Nat : n <= MaxDepth + 1 =>
                   \A j \in S[n] : level[j] <= MaxDepth + 1 /\ j \in S[level[j]]}
<1>3. 0 \in T
  BY <1>1, <1>2 DEF Climb
<1>4. ASSUME NEW n \in Nat, n <= MaxDepth, NEW j \in DOMAIN m.signals,
             ~SignalIsAlways(m, j),
             SwitchOf(m, j) \notin {0, j}, SwitchSelects(m, d, j),
             NEW q, q = SwitchOf(m, j),
             level[q] <= MaxDepth + 1, q \in S[level[q]]
      PROVE  level[j] <= MaxDepth + 1 /\ j \in S[level[j]]
  <2>1. /\ q \in DOMAIN m.signals /\ level[q] < level[j] /\ level[j] <= MaxDepth + 1
        /\ level[q] \in Nat /\ level[j] \in Nat
    BY <1>1, <1>2, <1>4
  <2>2. level[q] \in 0..MaxDepth
    BY <1>2, <2>1
  <2>3. j \in S[level[q] + 1]
    BY <1>4, <2>2 DEF Climb
  <2>4. level[q] + 1 \in 0..(MaxDepth + 1) /\ level[j] \in (level[q] + 1)..(MaxDepth + 1)
    BY <1>2, <2>1
  <2>5. S[level[q] + 1] \subseteq S[level[j]]
    BY <2>4, ClimbGrowsFar
  <2> QED BY <2>1, <2>3, <2>5
<1>5. ASSUME NEW n \in T PROVE n + 1 \in T
  <2> SUFFICES ASSUME n + 1 <= MaxDepth + 1, NEW j \in S[n + 1]
               PROVE  level[j] <= MaxDepth + 1 /\ j \in S[level[j]]
    OBVIOUS
  <2>1. n \in 0..MaxDepth /\ n <= MaxDepth
    BY <1>2
  <2>2. \A k \in S[n] : level[k] <= MaxDepth + 1 /\ k \in S[level[k]]
    BY <1>2, <2>1
  <2>3. /\ j \in DOMAIN m.signals
        /\ \/ SignalIsAlways(m, j)
           \/ /\ SwitchOf(m, j) \notin {0, j} /\ SwitchOf(m, j) \in S[n]
              /\ SwitchSelects(m, d, j)
    BY <2>1 DEF Climb
  <2>4. CASE SignalIsAlways(m, j)
    <3>1. level[j] = 0
      BY <1>1, <2>3, <2>4
    <3> QED BY <1>2, <2>3, <2>4, <3>1 DEF Climb
  <2>5. CASE ~SignalIsAlways(m, j)
    BY <1>4, <2>1, <2>2, <2>3, <2>5
  <2> QED BY <2>4, <2>5
<1>6. Nat \subseteq T
  BY <1>3, <1>5, SetInduction
<1> DEFINE sw == SwitchOf(m, i)
<1>7. level[sw] <= MaxDepth + 1 /\ sw \in S[level[sw]]
  <2>1. MaxDepth + 1 \in T
    BY <1>2, <1>6
  <2> QED BY <1>2, <2>1
<1>8. CASE SignalIsAlways(m, i)
  <2>1. i \in S[0]
    BY <1>8 DEF Climb
  <2>2. 0 \in 0..(MaxDepth + 1) /\ MaxDepth + 1 \in 0..(MaxDepth + 1)
    BY <1>2
  <2> QED BY <2>1, <2>2, ClimbGrowsFar
<1>9. CASE ~SignalIsAlways(m, i)
  <2>1. 0 <= MaxDepth /\ 0 \in Nat
    BY <1>2
  <2>2. level[i] <= MaxDepth + 1 /\ i \in S[level[i]]
    <3> HIDE DEF T
    <3> QED BY <1>4, <1>7, <1>9, <2>1
  <2>3. level[i] \in 0..(MaxDepth + 1) /\ MaxDepth + 1 \in level[i]..(MaxDepth + 1)
    BY <1>1, <1>2, <2>2
  <2> QED BY <2>2, <2>3, ClimbGrowsFar
<1> QED BY <1>8, <1>9

-----------------------------------------------------------------------------
(* The least set that the switches select.                                 *)
SelectedBy(m, d, set) ==
  {i \in DOMAIN m.signals :
     \/ SignalIsAlways(m, i)
     \/ SwitchOf(m, i) \in set \cap DOMAIN m.signals /\ SwitchSelects(m, d, i)}

LEMMA ActiveAreSelected ==
  ASSUME NEW m \in Messages, NEW d, ChainsAreShort(m)
  PROVE  /\ SelectedBy(m, d, ActiveSignals(m, d)) = ActiveSignals(m, d)
         /\ \A set \in SUBSET ActiveSignals(m, d) :
              SelectedBy(m, d, set) = set => set = ActiveSignals(m, d)
<1>1. PICK S : Climb(S, m, d)
  BY ActiveClimbs
<1> DEFINE active == ActiveSignals(m, d)
           top == MaxDepth + 1
<1>2. MaxDepth \in Nat /\ MaxDepth \in 0..MaxDepth /\ top \in 0..(MaxDepth + 1)
  BY DEF MaxDepth
<1>3. active = S[top] /\ active \subseteq DOMAIN m.signals
  BY <1>1, <1>2, ClimbIsOfSignals DEF Climb
<1>4. DOMAIN m.signals \subseteq 1..Len(m.signals)
  BY MessagesAreBuilt DEF MessagesAreBuilt
<1> HIDE DEF active
<1>5. ASSUME NEW i \in SelectedBy(m, d, active) PROVE i \in active
  <2>1. CASE SignalIsAlways(m, i)
    BY <1>1, <1>2, <1>3, <2>1 DEF Climb, SelectedBy
  <2>2. CASE SwitchOf(m, i) = i
    BY <1>5, <2>1, <2>2 DEF SelectedBy
  <2>3. CASE ~SignalIsAlways(m, i) /\ SwitchOf(m, i) # i
    <3>1. /\ i \in DOMAIN m.signals /\ SwitchOf(m, i) \in S[top]
          /\ SwitchOf(m, i) \in DOMAIN m.signals /\ SwitchSelects(m, d, i)
      BY <1>3, <2>3 DEF SelectedBy
    <3>2. SwitchOf(m, i) \notin {0, i}
      BY <1>4, <2>3, <3>1
    <3> QED BY <1>1, <1>3, <3>1, <3>2, ClimbIsOver
  <2> QED BY <2>1, <2>2, <2>3
<1>6. ASSUME NEW i \in active PROVE i \in SelectedBy(m, d, active)
  <2>1. /\ i \in DOMAIN m.signals
        /\ \/ SignalIsAlways(m, i)
           \/ /\ SwitchOf(m, i) \notin {0, i} /\ SwitchOf(m, i) \in S[MaxDepth]
              /\ SwitchSelects(m, d, i)
    BY <1>1, <1>2, <1>3 DEF Climb
  <2>2. S[MaxDepth] \subseteq active
    BY <1>1, <1>2, <1>3, ClimbGrows
  <2> QED BY <1>3, <2>1, <2>2 DEF SelectedBy
<1>7. ASSUME NEW set \in SUBSET active, SelectedBy(m, d, set) = set
      PROVE  active \subseteq set
  <2> DEFINE T == {n \in Nat : n <= top => S[n] \subseteq set}
  <2>1. 0 \in T
    <3>1. S[0] = {i \in DOMAIN m.signals : SignalIsAlways(m, i)}
      BY <1>1 DEF Climb
    <3>2. S[0] \subseteq SelectedBy(m, d, set)
      BY <3>1 DEF SelectedBy
    <3> QED BY <1>7, <3>2
  <2>2. ASSUME NEW n \in T PROVE n + 1 \in T
    <3> SUFFICES ASSUME n + 1 <= top, NEW i \in S[n + 1] PROVE i \in set
      OBVIOUS
    <3>1. n \in 0..MaxDepth /\ S[n] \subseteq set
      BY <1>2
    <3>2. /\ i \in DOMAIN m.signals
          /\ \/ SignalIsAlways(m, i)
             \/ /\ SwitchOf(m, i) \notin {0, i} /\ SwitchOf(m, i) \in S[n]
                /\ SwitchSelects(m, d, i)
      BY <1>1, <3>1 DEF Climb
    <3>3. i \in SelectedBy(m, d, set)
      BY <1>3, <3>1, <3>2 DEF SelectedBy
    <3> QED BY <1>7, <3>3
  <2>3. Nat \subseteq T
    BY <2>1, <2>2, SetInduction
  <2>4. top \in T
    BY <1>2, <2>3
  <2> QED BY <1>2, <1>3, <2>4
<1> QED BY <1>5, <1>6, <1>7 DEF active

-----------------------------------------------------------------------------
(* No bit is read twice.  Of two multiplexed signals that go by the value  *)
(* of the same switch and are both there, the values are the same, and     *)
(* then they are not separated.                                            *)
LEMMA OverlapIsMutual ==
  ASSUME NEW a, NEW b, Overlaps(a, b)
  PROVE  Overlaps(b, a)
BY DEF Overlaps

LEMMA OverlapIsAProblem ==
  ASSUME NEW m, DOMAIN m.signals = 1..Len(m.signals), OverlapProblems(m) = {},
         NEW i \in DOMAIN m.signals, NEW j \in DOMAIN m.signals, i # j,
         Overlaps(m.signals[i].layout, m.signals[j].layout)
  PROVE  MuxSeparated(m.signals[i], m.signals[j])
<1>1. ASSUME NEW p \in DOMAIN m.signals, NEW q \in DOMAIN m.signals, p < q,
             Overlaps(m.signals[p].layout, m.signals[q].layout)
      PROVE  MuxSeparated(m.signals[p], m.signals[q])
  <2> DEFINE pairs == {r \in (DOMAIN m.signals) \X (DOMAIN m.signals) : r[1] < r[2]}
             clash(r) == ~MuxSeparated(m.signals[r[1]], m.signals[r[2]])
                         /\ Overlaps(m.signals[r[1]].layout, m.signals[r[2]].layout)
  <2>1. OverlapProblems(m) =
          {<<"overlap", m.name, m.signals[r[1]].name, m.signals[r[2]].name>> :
             r \in {x \in pairs : clash(x)}}
    BY DEF OverlapProblems
  <2>2. {x \in pairs : clash(x)} = {}
    <3> HIDE DEF pairs, clash
    <3> QED BY <2>1
  <2>3. <<p, q>> \in pairs
    BY <1>1
  <2>4. ~clash(<<p, q>>)
    <3> HIDE DEF clash, pairs
    <3> QED BY <2>2, <2>3
  <2> QED BY <1>1, <2>4
<1>2. CASE i < j
  BY <1>1, <1>2
<1>3. CASE j < i
  <2>1. MuxSeparated(m.signals[j], m.signals[i])
    BY <1>1, <1>3, OverlapIsMutual
  <2> QED BY <2>1 DEF MuxSeparated
<1>4. i < j \/ j < i
  OBVIOUS
<1> QED BY <1>2, <1>3, <1>4

LEMMA GroupsOfOneSwitch ==
  ASSUME NEW m \in Messages, NEW d, OverlapProblems(m) = {},
         \A i \in DOMAIN m.signals : m.signals[i].ranges = <<>> /\ m.signals[i].switch = NoName,
         NEW i \in Decoded(m, d), NEW j \in Decoded(m, d), i # j
  PROVE  ~Overlaps(m.signals[i].layout, m.signals[j].layout)
<1>1. PICK S : Climb(S, m, d)
  BY ActiveClimbs
<1>2. MaxDepth \in 0..MaxDepth /\ MaxDepth + 1 \in 0..(MaxDepth + 1)
  BY DEF MaxDepth
<1>3. ASSUME NEW k \in Decoded(m, d)
      PROVE  /\ k \in DOMAIN m.signals
             /\ m.signals[k].role = "Multiplexed" =>
                  m.signals[k].mux = SwitchValue(m, Multiplexor(m), d)
  <2>1. k \in S[MaxDepth + 1]
    BY <1>1 DEF Decoded, Climb
  <2>2. k \in DOMAIN m.signals /\ (SignalIsAlways(m, k) \/ SwitchSelects(m, d, k))
    BY <1>1, <1>2, <2>1 DEF Climb
  <2>3. SwitchOf(m, k) = Multiplexor(m)
    BY <2>2 DEF SwitchOf
  <2>4. m.signals[k].role = "Multiplexed" => IsPresentFor(m.signals[k], SwitchValue(m, Multiplexor(m), d))
    BY <2>2, <2>3 DEF SignalIsAlways, SwitchSelects
  <2> QED BY <2>2, <2>4 DEF IsPresentFor
<1> SUFFICES ASSUME Overlaps(m.signals[i].layout, m.signals[j].layout) PROVE FALSE
  OBVIOUS
<1>4. DOMAIN m.signals = 1..Len(m.signals)
  BY MessagesAreBuilt DEF MessagesAreBuilt
<1>5. MuxSeparated(m.signals[i], m.signals[j])
  BY <1>3, <1>4, OverlapIsAProblem
<1>6. m.signals[i].role = "Multiplexed" /\ m.signals[j].role = "Multiplexed"
  BY <1>5 DEF MuxSeparated
<1>7. m.signals[i].mux = m.signals[j].mux
  BY <1>3, <1>6
<1>8. m.signals[i].ranges = <<>> /\ m.signals[j].ranges = <<>>
  BY <1>3
<1> QED BY <1>5, <1>7, <1>8 DEF MuxSeparated, IsPresentFor

(* MultiplexingIsExact, in every state of the codec.                       *)
LEMMA MultiplexingHolds ==
  ASSUME message \in Messages, CodecTypeOK, ChainsAreShort(message)
  PROVE  MultiplexingIsExact
<1> DEFINE n == PayloadSize(frame)
<1>1. n \in Nat /\ frame \in Payload(n)
  BY DEF CodecTypeOK
<1>2. ActiveSignalsAreSelected
  <2> DEFINE active == ActiveSignals(message, frame)
             selected(set) ==
               {i \in SignalsOf(message) :
                  \/ message.signals[i].role = "None"
                  \/ message.signals[i].role = "Multiplexor" /\ message.signals[i].switch = NoName
                  \/ LET sw == SwitchOf(message, i)
                     IN  sw \in set \cap Fitting
                         /\ IsPresentFor(message.signals[i], SwitchValue(message, sw, frame))}
  <2>1. ASSUME NEW set
        PROVE  SelectedBy(message, frame, set) = selected(set)
    BY DEF SelectedBy, SignalIsAlways, SwitchSelects, SignalsOf, Fitting, LayoutOf
  <2>2. /\ SelectedBy(message, frame, active) = active
        /\ \A set \in SUBSET active : SelectedBy(message, frame, set) = set => set = active
    BY ActiveAreSelected
  <2>3. ActiveSignalsAreSelected <=>
          /\ selected(active) = active
          /\ \A set \in SUBSET active : selected(set) = set => set = active
    BY Zenon DEF ActiveSignalsAreSelected
  <2> HIDE DEF active, selected
  <2>4. \A set : SelectedBy(message, frame, set) = selected(set)
    BY <2>1
  <2> QED BY <2>2, <2>3, <2>4
<1>3. ShortFramesLoseOnly
  <2>1. ASSUME NEW k \in 0..(n - 1), NEW i \in Decoded(message, Front(frame, k))
        PROVE  /\ i \in Decoded(message, frame)
               /\ RawOf(message, i, Front(frame, k)) = RawOf(message, i, frame)
    <3>1. k \in 0..n
      BY <1>1
    <3> HIDE DEF n
    <3> QED BY <1>1, <3>1, ShortFramesSelectLess
  <2> QED BY <2>1 DEF ShortFramesLoseOnly, Front
<1>4. GroupsKeepApart
  <2> SUFFICES ASSUME \A i \in SignalsOf(message) : message.signals[i].ranges = <<>>
                                                     /\ message.signals[i].switch = NoName
               PROVE  SharedBitsAreReported
    BY DEF GroupsKeepApart
  <2> DEFINE db == [messages |-> <<message>>, nodes |-> <<>>, attributes |-> {}, definitions |-> {}]
  <2>1. ASSUME Lint(db) = {} PROVE OverlapProblems(message) = {}
    <3>1. 1 \in DOMAIN db.messages /\ db.messages[1] = message
      OBVIOUS
    <3> HIDE DEF db
    <3>2. MessageProblems(message) \subseteq Lint(db)
      BY <3>1 DEF Lint
    <3>3. OverlapProblems(message) \subseteq MessageProblems(message)
      BY DEF MessageProblems
    <3> QED BY <2>1, <3>2, <3>3
  <2>2. \A i \in DOMAIN message.signals : message.signals[i].ranges = <<>>
                                          /\ message.signals[i].switch = NoName
    BY DEF SignalsOf
  <2>3. ASSUME Lint(db) = {}, NEW i \in Decoded(message, frame), NEW j \in Decoded(message, frame),
               i # j
        PROVE  ~Overlaps(LayoutOf(i), LayoutOf(j))
    BY <2>1, <2>2, <2>3, GroupsOfOneSwitch DEF LayoutOf
  <2> HIDE DEF db
  <2>4. SharedBitsAreReported <=>
          (Validate(db) /\ Lint(db) = {} =>
             \A i, j \in Decoded(message, frame) : i # j => ~Overlaps(LayoutOf(i), LayoutOf(j)))
    BY DEF SharedBitsAreReported, db
  <2> QED BY <2>3, <2>4
<1> QED BY <1>2, <1>3, <1>4 DEF MultiplexingIsExact

-----------------------------------------------------------------------------
(* What encode() writes: the start values of signals that have one, and    *)
(* the named values, each in a signal of the message or in none.           *)
StartedUp(f, n, m) ==
  f = [k \in 0..n |->
         IF k = 0 THEN <<>>
         ELSE IF m.signals[k].start # NaN /\ Fits(m.signals[k].layout, m.dlc)
         THEN Append(f[k - 1], [at |-> k, value |-> m.signals[k].start])
         ELSE f[k - 1]]

LEMMA StartedExists ==
  ASSUME NEW m
  PROVE  \A n \in Nat : \E f : StartedUp(f, n, m)
<1> DEFINE T == {n \in Nat : \E f : StartedUp(f, n, m)}
           Row(k, prev) == 
             IF k = 0 THEN <<>>
             ELSE IF m.signals[k].start # NaN /\ Fits(m.signals[k].layout, m.dlc)
             THEN Append(prev, [at |-> k, value |-> m.signals[k].start])
             ELSE prev
<1>1. ASSUME NEW f, NEW n
      PROVE  StartedUp(f, n, m) <=> f = [k \in 0..n |-> Row(k, f[k - 1])]
  BY DEF StartedUp
<1>2. ASSUME NEW prev, NEW other PROVE Row(0, prev) = Row(0, other)
  OBVIOUS
<1> HIDE DEF Row
<1>3. 0 \in T
  <2> DEFINE f == [k \in 0..0 |-> Row(k, <<>>)]
  <2>1. f = [k \in 0..0 |-> Row(k, f[k - 1])]
    <3>1. \A k \in 0..0 : Row(k, <<>>) = Row(k, f[k - 1])
      BY <1>2
    <3> QED BY <3>1
  <2> QED BY <1>1, <2>1
<1>4. ASSUME NEW n \in T PROVE n + 1 \in T
  <2>1. PICK f : f = [k \in 0..n |-> Row(k, f[k - 1])]
    BY <1>1
  <2> DEFINE g == [k \in 0..(n + 1) |-> IF k <= n THEN f[k] ELSE Row(k, f[n])]
  <2>2. ASSUME NEW k \in 0..(n + 1) PROVE g[k] = Row(k, g[k - 1])
    <3>1. CASE k = 0
      <4>1. g[k] = Row(0, f[0 - 1])
        BY <2>1, <3>1
      <4> QED BY <1>2, <3>1, <4>1
    <3>2. CASE k # 0 /\ k <= n
      <4>1. g[k] = Row(k, f[k - 1])
        BY <2>1, <3>2
      <4>2. g[k - 1] = f[k - 1]
        BY <3>2
      <4> QED BY <4>1, <4>2
    <3>3. CASE k = n + 1
      BY <3>3
    <3> QED BY <3>1, <3>2, <3>3
  <2>3. g = [k \in 0..(n + 1) |-> Row(k, g[k - 1])]
    BY <2>2
  <2>4. StartedUp(g, n + 1, m)
    BY <1>1, <2>3
  <2> QED BY <2>4
<1>5. Nat \subseteq T
  BY <1>3, <1>4, SetInduction
<1> QED BY <1>5

(* What is written, and where: a start value in its signal, a named value  *)
(* in the signal of that name, or in none.                                 *)
WritesOf(m, values) ==
  {w \in [at : {0} \cup DOMAIN m.signals,
          value : {m.signals[i].start : i \in DOMAIN m.signals} \cup {values[k].value : k \in DOMAIN values}] :
     \/ w.at \in DOMAIN m.signals /\ w.value = m.signals[w.at].start /\ w.value # NaN
     \/ \E k \in DOMAIN values : w.at = FindSignal(m, values[k].name) /\ w.value = values[k].value}

LEMMA WritesAreOfSignals ==
  ASSUME NEW m \in Messages, NEW values \in Compositions(m)
  PROVE  Writes(m, values) \in Seq(WritesOf(m, values))
<1> DEFINE L == Len(m.signals)
           R == WritesOf(m, values)
           f == CHOOSE g : StartedUp(g, L, m)
           named == [k \in DOMAIN values |-> [at |-> FindSignal(m, values[k].name), value |-> values[k].value]]
<1>1. L \in Nat /\ DOMAIN m.signals = 1..L
  BY MessagesAreBuilt DEF MessagesAreBuilt
<1>2. StartedUp(f, L, m)
  BY <1>1, StartedExists
<1>3. Writes(m, values) = f[L] \o named
  BY DEF Writes, StartedUp
<1>4. f[L] \in Seq(R)
  <2> DEFINE T == {n \in Nat : n <= L => f[n] \in Seq(R)}
  <2> HIDE DEF f, R
  <2>1. 0 \in T
    <3>1. f[0] = <<>>
      BY <1>1, <1>2 DEF StartedUp
    <3>2. f[0] \in Seq(R)
      BY <3>1, EmptySeq
    <3> QED BY <3>2
  <2>2. ASSUME NEW n \in T PROVE n + 1 \in T
    <3> SUFFICES ASSUME n + 1 <= L PROVE f[n + 1] \in Seq(R)
      OBVIOUS
    <3>1. n + 1 \in 0..L /\ n + 1 # 0 /\ (n + 1) - 1 = n /\ n + 1 \in DOMAIN m.signals /\ f[n] \in Seq(R)
      BY <1>1
    <3>2. \/ f[n + 1] = f[n]
          \/ /\ m.signals[n + 1].start # NaN
             /\ f[n + 1] = Append(f[n], [at |-> n + 1, value |-> m.signals[n + 1].start])
      <4> HIDE DEF L, T
      <4> QED BY <1>2, <3>1 DEF StartedUp
    <3>3. m.signals[n + 1].start # NaN => [at |-> n + 1, value |-> m.signals[n + 1].start] \in R
      BY <3>1 DEF R, WritesOf
    <3> HIDE DEF T, L
    <3>4. m.signals[n + 1].start # NaN =>
            Append(f[n], [at |-> n + 1, value |-> m.signals[n + 1].start]) \in Seq(R)
      BY <3>1, <3>3, AppendProperties
    <3> QED BY <3>1, <3>2, <3>4
  <2>3. Nat \subseteq T
    BY <2>1, <2>2, SetInduction
  <2> QED BY <1>1, <2>3
<1>5. named \in Seq(R)
  <2>1. values \in Seq({values[k] : k \in DOMAIN values})
    BY MessagesAreBuilt DEF MessagesAreBuilt
  <2>2. Len(values) \in Nat /\ DOMAIN values = 1..Len(values)
    BY <2>1
  <2>3. \A k \in DOMAIN values : FindSignal(m, values[k].name) \in {0} \cup DOMAIN m.signals
    BY FoundSignalIsOne
  <2>4. \A k \in DOMAIN values : named[k] \in R
    BY <2>3 DEF WritesOf
  <2>5. named \in [1..Len(values) -> R]
    <3> HIDE DEF R
    <3> QED BY <2>2, <2>4
  <2> HIDE DEF R, named
  <2> QED BY <2>2, <2>5
<1> HIDE DEF f, named, R, L
<1>6. f[L] \o named \in Seq(R)
  BY <1>4, <1>5
<1> QED BY <1>3, <1>6 DEF R

-----------------------------------------------------------------------------
(* What encode() makes of the writes: a payload, and where it succeeds     *)
(* each of them has found its signal, which fits.                          *)
StatusOf(m, w) ==
  IF w.at = 0 THEN "unknown signal" ELSE EncodeError(m.signals[w.at].layout, w.value, m.dlc)
EncodedUp(f, n, m, writes) ==
  f = [k \in 0..n |->
         IF k = 0 THEN [status |-> "ok", data |-> Empty(m.dlc)]
         ELSE IF f[k - 1].status # "ok" THEN f[k - 1]
         ELSE IF StatusOf(m, writes[k]) # "ok" THEN [f[k - 1] EXCEPT !.status = StatusOf(m, writes[k])]
         ELSE [f[k - 1] EXCEPT !.data = Encoded(m, writes[k].at, writes[k].value, @)]]

LEMMA EncodedExists ==
  ASSUME NEW m, NEW writes
  PROVE  \A n \in Nat : \E f : EncodedUp(f, n, m, writes)
<1> DEFINE T == {n \in Nat : \E f : EncodedUp(f, n, m, writes)}
           Row(k, prev) == 
             IF k = 0 THEN [status |-> "ok", data |-> Empty(m.dlc)]
             ELSE IF prev.status # "ok" THEN prev
             ELSE IF StatusOf(m, writes[k]) # "ok" THEN [prev EXCEPT !.status = StatusOf(m, writes[k])]
             ELSE [prev EXCEPT !.data = Encoded(m, writes[k].at, writes[k].value, @)]
<1>1. ASSUME NEW f, NEW n
      PROVE  EncodedUp(f, n, m, writes) <=> f = [k \in 0..n |-> Row(k, f[k - 1])]
  BY DEF EncodedUp
<1>2. ASSUME NEW prev, NEW other PROVE Row(0, prev) = Row(0, other)
  OBVIOUS
<1> HIDE DEF Row
<1>3. 0 \in T
  <2> DEFINE f == [k \in 0..0 |-> Row(k, <<>>)]
  <2>1. f = [k \in 0..0 |-> Row(k, f[k - 1])]
    <3>1. \A k \in 0..0 : Row(k, <<>>) = Row(k, f[k - 1])
      BY <1>2
    <3> QED BY <3>1
  <2> QED BY <1>1, <2>1
<1>4. ASSUME NEW n \in T PROVE n + 1 \in T
  <2>1. PICK f : f = [k \in 0..n |-> Row(k, f[k - 1])]
    BY <1>1
  <2> DEFINE g == [k \in 0..(n + 1) |-> IF k <= n THEN f[k] ELSE Row(k, f[n])]
  <2>2. ASSUME NEW k \in 0..(n + 1) PROVE g[k] = Row(k, g[k - 1])
    <3>1. CASE k = 0
      <4>1. g[k] = Row(0, f[0 - 1])
        BY <2>1, <3>1
      <4> QED BY <1>2, <3>1, <4>1
    <3>2. CASE k # 0 /\ k <= n
      <4>1. g[k] = Row(k, f[k - 1])
        BY <2>1, <3>2
      <4>2. g[k - 1] = f[k - 1]
        BY <3>2
      <4> QED BY <4>1, <4>2
    <3>3. CASE k = n + 1
      BY <3>3
    <3> QED BY <3>1, <3>2, <3>3
  <2>3. g = [k \in 0..(n + 1) |-> Row(k, g[k - 1])]
    BY <2>2
  <2>4. EncodedUp(g, n + 1, m, writes)
    BY <1>1, <2>3
  <2> QED BY <2>4
<1>5. Nat \subseteq T
  BY <1>3, <1>4, SetInduction
<1> QED BY <1>5

LEMMA EncodeMakesAPayload ==
  ASSUME NEW m \in Messages, NEW values \in Compositions(m), Encode(m, values).status = "ok"
  PROVE  /\ Encode(m, values).data \in Payload(m.dlc)
         /\ \A k \in 1..Len(Writes(m, values)) :
              /\ Writes(m, values)[k].at \in DOMAIN m.signals
              /\ Fits(m.signals[Writes(m, values)[k].at].layout, m.dlc)
<1> DEFINE writes == Writes(m, values)
           L == Len(writes)
           f == CHOOSE g : EncodedUp(g, L, m, writes)
           Status == {"ok", "unknown signal", "out of bounds", "not finite"}
           R == [status : Status, data : Payload(m.dlc)]
<1>1. L \in Nat /\ \A k \in 1..L : writes[k].at \in {0} \cup DOMAIN m.signals
  <2>1. writes \in Seq(WritesOf(m, values))
    BY WritesAreOfSignals
  <2> HIDE DEF writes
  <2>2. L \in Nat /\ \A k \in 1..L : writes[k] \in WritesOf(m, values)
    BY <2>1
  <2> QED BY <2>2 DEF WritesOf
<1>2. EncodedUp(f, L, m, writes)
  BY <1>1, EncodedExists
<1> HIDE DEF f, writes, L
<1>3. m.dlc \in Nat
  <2>1. m.dlc \in 0..64
    BY Zenon, MessagesAreBuilt DEF MessagesAreBuilt
  <2> QED BY <2>1
<1>4. m.dlc <= FrameCapacity /\ Encode(m, values) = f[L]
  <2>1. Encode(m, values) = IF m.dlc > FrameCapacity THEN [status |-> "too large", data |-> Empty(0)]
                            ELSE f[L]
    BY Zenon DEF Encode, EncodedUp, StatusOf, f, L, writes
  <2>2. FrameCapacity \in Nat
    BY DEF FrameCapacity
  <2>3. ~(m.dlc > FrameCapacity)
    <3> SUFFICES ASSUME m.dlc > FrameCapacity PROVE FALSE
      OBVIOUS
    <3>1. Encode(m, values) = [status |-> "too large", data |-> Empty(0)]
      BY Zenon, <2>1
    <3>2. [status |-> "too large", data |-> Empty(0)].status = "too large"
      OBVIOUS
    <3>3. Encode(m, values).status = "ok"
      OBVIOUS
    <3> QED BY <3>1, <3>2, <3>3
  <2>4. Encode(m, values) = f[L]
    BY Zenon, <2>1, <2>3
  <2> QED BY <1>3, <2>2, <2>3, <2>4
<1> DEFINE Holds(n) == /\ f[n] \in R
                       /\ f[n].status = "ok" =>
                            \A k \in 1..n : /\ writes[k].at \in DOMAIN m.signals
                                            /\ Fits(m.signals[writes[k].at].layout, m.dlc)
           T == {n \in Nat : n <= L => Holds(n)}
<1> HIDE DEF Holds
<1>5. 0 \in T
  <2>1. f[0] = [status |-> "ok", data |-> Empty(m.dlc)]
    BY <1>1, <1>2 DEF EncodedUp
  <2>2. Empty(m.dlc) \in Payload(m.dlc)
    BY <1>3 DEF Empty, Payload, Byte
  <2>3. Holds(0)
    BY <2>1, <2>2 DEF Holds
  <2> QED BY <2>3
<1>6. ASSUME NEW n \in T PROVE n + 1 \in T
  <2> SUFFICES ASSUME n + 1 <= L PROVE Holds(n + 1)
    OBVIOUS
  <2> DEFINE w == writes[n + 1]
  <2>1. n \in Nat /\ n + 1 \in 0..L /\ n + 1 \in 1..L /\ n + 1 # 0 /\ (n + 1) - 1 = n /\ Holds(n)
    BY <1>1
  <2> HIDE DEF T
  <2>0. f[n] \in R /\ (f[n].status = "ok" =>
          \A k \in 1..n : /\ writes[k].at \in DOMAIN m.signals
                           /\ Fits(m.signals[writes[k].at].layout, m.dlc))
    BY <2>1 DEF Holds
  <2>2. w.at \in {0} \cup DOMAIN m.signals
    BY <1>1, <2>1
  <2>3. f[n + 1] = IF f[n].status # "ok" THEN f[n]
                   ELSE IF StatusOf(m, w) # "ok" THEN [f[n] EXCEPT !.status = StatusOf(m, w)]
                   ELSE [f[n] EXCEPT !.data = Encoded(m, w.at, w.value, @)]
    <3> DEFINE k == n + 1
    <3>1. k \in 0..L /\ k # 0 /\ k - 1 = n
      BY <2>1
    <3> HIDE DEF k
    <3>2. f[k] = IF f[k - 1].status # "ok" THEN f[k - 1]
                 ELSE IF StatusOf(m, writes[k]) # "ok" THEN [f[k - 1] EXCEPT !.status = StatusOf(m, writes[k])]
                 ELSE [f[k - 1] EXCEPT !.data = Encoded(m, writes[k].at, writes[k].value, @)]
      BY <1>2, <3>1 DEF EncodedUp
    <3> QED BY <3>1, <3>2 DEF k
  <2>4. CASE f[n].status # "ok"
    <3>1. f[n + 1] = f[n]
      BY <2>3, <2>4
    <3> QED BY <2>0, <2>4, <3>1 DEF Holds
  <2>5. CASE f[n].status = "ok" /\ StatusOf(m, w) # "ok"
    <3>1. StatusOf(m, w) \in Status
      BY DEF StatusOf, EncodeError
    <3> HIDE DEF w
    <3>2. f[n + 1] = [f[n] EXCEPT !.status = StatusOf(m, w)]
      BY <2>3, <2>5
    <3>3. f[n + 1] \in R /\ f[n + 1].status = StatusOf(m, w)
      BY <2>0, <3>1, <3>2
    <3> QED BY <2>5, <3>3 DEF Holds
  <2>6. CASE f[n].status = "ok" /\ StatusOf(m, w) = "ok"
    <3>1. w.at \in DOMAIN m.signals /\ Fits(m.signals[w.at].layout, m.dlc)
      BY <2>2, <2>6 DEF StatusOf, EncodeError
    <3>2. m.signals[w.at].layout.start \in Nat /\ m.signals[w.at].layout.order \in ByteOrder
      BY <3>1, MessagesAreBuilt DEF MessagesAreBuilt
    <3>3. f[n].data \in Payload(m.dlc)
      BY <2>0
    <3>4. Encoded(m, w.at, w.value, f[n].data) \in Payload(m.dlc)
      <4> HIDE DEF w
      <4> QED BY <1>3, <3>1, <3>2, <3>3, EncodeIsAPayload DEF Encoded
    <3> HIDE DEF w
    <3>5. f[n + 1] = [f[n] EXCEPT !.data = Encoded(m, w.at, w.value, f[n].data)]
      BY <2>3, <2>6
    <3>6. f[n + 1] \in R
      BY <2>0, <3>4, <3>5
    <3>7. ASSUME NEW k \in 1..(n + 1)
          PROVE  writes[k].at \in DOMAIN m.signals /\ Fits(m.signals[writes[k].at].layout, m.dlc)
      <4>1. CASE k = n + 1
        BY <3>1, <4>1 DEF w
      <4>2. CASE k # n + 1
        <5>1. k \in 1..n
          BY <2>1, <4>2
        <5> QED BY <2>0, <2>6, <5>1
      <4> QED BY <4>1, <4>2
    <3> QED BY <3>6, <3>7 DEF Holds
  <2> QED BY <2>4, <2>5, <2>6
<1>7. Nat \subseteq T
  <2> HIDE DEF T
  <2>1. T \subseteq Nat
    BY DEF T
  <2> QED BY <1>5, <1>6, <2>1, SetInduction
<1>8. Holds(L)
  BY <1>1, <1>7
<1>9. f[L].status = "ok" /\ f[L] \in R
  BY <1>4, <1>8 DEF Holds
<1> QED BY <1>4, <1>8, <1>9 DEF Holds, writes, L

-----------------------------------------------------------------------------
(* Only where something was written is anything meant.                     *)
NotedUp(f, n, m, writes) ==
  f = [k \in 0..n |->
         IF k = 0 THEN [i \in {} |-> 0]
         ELSE Noted(m, f[k - 1], writes[k].at, writes[k].value)]

LEMMA NotedExists ==
  ASSUME NEW m, NEW writes
  PROVE  \A n \in Nat : \E f : NotedUp(f, n, m, writes)
<1> DEFINE T == {n \in Nat : \E f : NotedUp(f, n, m, writes)}
           Row(k, prev) == 
             IF k = 0 THEN [i \in {} |-> 0]
             ELSE Noted(m, prev, writes[k].at, writes[k].value)
<1>1. ASSUME NEW f, NEW n
      PROVE  NotedUp(f, n, m, writes) <=> f = [k \in 0..n |-> Row(k, f[k - 1])]
  BY DEF NotedUp
<1>2. ASSUME NEW prev, NEW other PROVE Row(0, prev) = Row(0, other)
  OBVIOUS
<1> HIDE DEF Row
<1>3. 0 \in T
  <2> DEFINE f == [k \in 0..0 |-> Row(k, <<>>)]
  <2>1. f = [k \in 0..0 |-> Row(k, f[k - 1])]
    <3>1. \A k \in 0..0 : Row(k, <<>>) = Row(k, f[k - 1])
      BY <1>2
    <3> QED BY <3>1
  <2> QED BY <1>1, <2>1
<1>4. ASSUME NEW n \in T PROVE n + 1 \in T
  <2>1. PICK f : f = [k \in 0..n |-> Row(k, f[k - 1])]
    BY <1>1
  <2> DEFINE g == [k \in 0..(n + 1) |-> IF k <= n THEN f[k] ELSE Row(k, f[n])]
  <2>2. ASSUME NEW k \in 0..(n + 1) PROVE g[k] = Row(k, g[k - 1])
    <3>1. CASE k = 0
      <4>1. g[k] = Row(0, f[0 - 1])
        BY <2>1, <3>1
      <4> QED BY <1>2, <3>1, <4>1
    <3>2. CASE k # 0 /\ k <= n
      <4>1. g[k] = Row(k, f[k - 1])
        BY <2>1, <3>2
      <4>2. g[k - 1] = f[k - 1]
        BY <3>2
      <4> QED BY <4>1, <4>2
    <3>3. CASE k = n + 1
      BY <3>3
    <3> QED BY <3>1, <3>2, <3>3
  <2>3. g = [k \in 0..(n + 1) |-> Row(k, g[k - 1])]
    BY <2>2
  <2>4. NotedUp(g, n + 1, m, writes)
    BY <1>1, <2>3
  <2> QED BY <2>4
<1>5. Nat \subseteq T
  BY <1>3, <1>4, SetInduction
<1> QED BY <1>5

LEMMA OnlyTheWrittenIsMeant ==
  ASSUME NEW m, NEW writes, Len(writes) \in Nat
  PROVE  \A i \in DOMAIN NotedAll(m, writes) : \E k \in 1..Len(writes) : i = writes[k].at
<1> DEFINE L == Len(writes)
           f == CHOOSE g : NotedUp(g, L, m, writes)
           T == {n \in Nat : n <= L => \A i \in DOMAIN f[n] : \E k \in 1..n : i = writes[k].at}
<1>1. NotedUp(f, L, m, writes)
  BY NotedExists
<1>2. NotedAll(m, writes) = f[L]
  BY DEF NotedAll, NotedUp
<1> HIDE DEF f, L
<1>3. L \in Nat
  BY DEF L
<1>4. 0 \in T
  <2>1. f[0] = [i \in {} |-> 0]
    BY <1>1, <1>3 DEF NotedUp
  <2> QED BY <2>1
<1>5. ASSUME NEW n \in T PROVE n + 1 \in T
  <2> SUFFICES ASSUME n + 1 <= L, NEW i \in DOMAIN f[n + 1]
               PROVE  \E k \in 1..(n + 1) : i = writes[k].at
    OBVIOUS
  <2>1. n \in Nat /\ n + 1 \in 0..L /\ n + 1 # 0 /\ (n + 1) - 1 = n /\ n <= L
    BY <1>3
  <2>2. f[n + 1] = Noted(m, f[n], writes[n + 1].at, writes[n + 1].value)
    <3> HIDE DEF T
    <3> QED BY <1>1, <2>1 DEF NotedUp
  <2>3. i = writes[n + 1].at \/ i \in DOMAIN f[n]
    BY <2>2 DEF Noted
  <2>4. n + 1 \in 1..(n + 1)
    BY <2>1
  <2>5. i \in DOMAIN f[n] => \E k \in 1..n : i = writes[k].at
    BY <2>1
  <2>6. \A k \in 1..n : k \in 1..(n + 1)
    BY <2>1
  <2> QED BY <2>3, <2>4, <2>5, <2>6
<1>6. Nat \subseteq T
  <2> HIDE DEF T
  <2>1. T \subseteq Nat
    BY DEF T
  <2> QED BY <1>4, <1>5, <2>1, SetInduction
<1>7. \A i \in DOMAIN f[L] : \E k \in 1..L : i = writes[k].at
  BY <1>3, <1>6
<1> QED BY <1>2, <1>7 DEF L

-----------------------------------------------------------------------------
(* The frame stays a payload, and what is meant fits it.                   *)
CodecInv == message \in Messages /\ CodecTypeOK

LEMMA CodecInvHolds == CodecSpec => []CodecInv
<1>1. CodecInit => CodecInv
  <2> SUFFICES ASSUME CodecInit PROVE CodecInv
    OBVIOUS
  <2>1. message \in Messages /\ frame \in Backgrounds(message) /\ meant = [i \in {} |-> 0]
    BY DEF CodecInit
  <2>2. \A d \in Backgrounds(message) : \E n \in 0..64 : d \in Payload(n)
    BY Zenon, <2>1, MessagesAreBuilt DEF MessagesAreBuilt
  <2>3. PICK n \in 0..64 : frame \in Payload(n)
    BY <2>1, <2>2
  <2>4. PayloadSize(frame) = n
    BY <2>3, PayloadSizeIs
  <2>5. DOMAIN meant = {}
    BY <2>1
  <2> QED BY <2>1, <2>3, <2>4, <2>5 DEF CodecInv, CodecTypeOK
<1>2. CodecInv /\ [CodecNext]_codecVars => CodecInv'
  <2> SUFFICES ASSUME CodecInv, [CodecNext]_codecVars PROVE CodecInv'
    OBVIOUS
  <2> DEFINE size == PayloadSize(frame)
  <2>1. /\ message \in Messages /\ size \in 0..64 /\ frame \in Payload(size)
        /\ DOMAIN meant \subseteq Fitting
    BY DEF CodecInv, CodecTypeOK
  <2>2. ASSUME NEW i \in SignalsOf(message)
        PROVE  LayoutOf(i).start \in Nat /\ LayoutOf(i).order \in ByteOrder
    BY <2>1, MessagesAreBuilt DEF MessagesAreBuilt, SignalsOf, LayoutOf
  (* It is enough to say how long the frame is, and of what fits. *)
  <2>3. ASSUME message' = message, NEW n \in 0..64, frame' \in Payload(n),
               \A i \in DOMAIN meant' : i \in SignalsOf(message) /\ Fits(LayoutOf(i), n)
        PROVE  CodecInv'
    <3>1. PayloadSize(frame') = n
      BY <2>3, PayloadSizeIs
    <3>2. Fitting' = {i \in SignalsOf(message) : Fits(LayoutOf(i), n)}
      BY <2>3, <3>1 DEF Fitting, LayoutOf
    <3>3. DOMAIN meant' \subseteq Fitting'
      BY <2>3, <3>2
    <3>4. PayloadSize(frame') \in 0..64 /\ frame' \in Payload(PayloadSize(frame'))
      BY <2>3, <3>1
    <3> QED BY <2>1, <2>3, <3>3, <3>4 DEF CodecInv, CodecTypeOK
  <2>4. \A i \in DOMAIN meant : i \in SignalsOf(message) /\ Fits(LayoutOf(i), size)
    BY <2>1 DEF Fitting
  <2>5. ASSUME NEW i \in SignalsOf(message), Fits(LayoutOf(i), size), NEW w
        PROVE  EncodeRaw(LayoutOf(i), w, frame) \in Payload(size)
    BY <2>1, <2>2, <2>5, EncodeIsAPayload
  <2> HIDE DEF size
  <2>6. ASSUME NEW values \in Compositions(message), Compose(values)
        PROVE  CodecInv'
    <3> DEFINE writes == Writes(message, values)
    <3>1. /\ frame' \in Payload(message.dlc)
          /\ \A k \in 1..Len(writes) : /\ writes[k].at \in DOMAIN message.signals
                                       /\ Fits(message.signals[writes[k].at].layout, message.dlc)
      BY <2>1, <2>6, EncodeMakesAPayload DEF Compose
    <3>2. message.dlc \in 0..64
      BY Zenon, <2>1, MessagesAreBuilt DEF MessagesAreBuilt
    <3>3. Len(writes) \in Nat
      <4>1. writes \in Seq(WritesOf(message, values))
        BY <2>1, WritesAreOfSignals
      <4> HIDE DEF writes
      <4> QED BY <4>1
    <3>4. message' = message /\ meant' = NotedAll(message, writes)
      BY <2>6 DEF Compose
    <3> HIDE DEF writes
    <3>5. ASSUME NEW i \in DOMAIN meant'
          PROVE  i \in SignalsOf(message) /\ Fits(LayoutOf(i), message.dlc)
      <4>1. PICK k \in 1..Len(writes) : i = writes[k].at
        BY <3>3, <3>4, OnlyTheWrittenIsMeant
      <4> QED BY <3>1, <4>1 DEF SignalsOf, LayoutOf
    <3> QED BY <2>3, <3>1, <3>2, <3>4, <3>5
  <2>7. ASSUME NEW i \in SignalsOf(message), NEW v, Update(i, v)
        PROVE  CodecInv'
    <3>1. Fits(LayoutOf(i), size)
      BY <2>7 DEF Update, EncodeError, size
    <3>2. frame' \in Payload(size)
      BY <2>5, <2>7, <3>1 DEF Update, Encoded, LayoutOf
    <3>3. \A j \in DOMAIN meant' : j = i \/ j \in DOMAIN meant
      BY <2>7 DEF Update, Noted
    <3>4. \A j \in DOMAIN meant' : j \in SignalsOf(message) /\ Fits(LayoutOf(j), size)
      BY <2>4, <2>7, <3>1, <3>3
    <3>5. message' = message /\ size \in 0..64
      BY <2>1, <2>7 DEF Update
    <3> QED BY <2>3, <3>2, <3>4, <3>5
  <2>8. ASSUME NEW i \in SignalsOf(message), NEW w, UpdateRaw(i, w)
        PROVE  CodecInv'
    <3>1. Fits(LayoutOf(i), size)
      BY <2>8 DEF UpdateRaw, Fitting, size
    <3>2. frame' \in Payload(size)
      BY <2>5, <2>8, <3>1 DEF UpdateRaw
    <3>3. \A j \in DOMAIN meant' : j \in DOMAIN meant
      BY <2>8 DEF UpdateRaw
    <3>4. message' = message /\ size \in 0..64
      BY <2>1, <2>8 DEF UpdateRaw
    <3> QED BY <2>3, <2>4, <3>2, <3>3, <3>4
  <2>9. ASSUME NEW n \in 0..(size - 1), Shorten(n)
        PROVE  CodecInv'
    <3>1. n \in 0..64 /\ n \in 0..size /\ size \in Nat
      BY <2>1
    <3>2. frame' = Front(frame, n)
      BY <2>9 DEF Shorten, Front
    <3>3. frame' \in Payload(n)
      BY <2>1, <3>1, <3>2, FrontIsAPayload
    <3>4. \A i \in DOMAIN meant' : i \in DOMAIN meant /\ Fits(LayoutOf(i), n)
      BY <2>9 DEF Shorten
    <3>5. message' = message
      BY <2>9 DEF Shorten
    <3> QED BY <2>3, <2>4, <3>1, <3>3, <3>4, <3>5
  <2>10. CASE UNCHANGED codecVars
    BY <2>1, <2>3, <2>4, <2>10 DEF codecVars
  <2> QED BY <2>6, <2>7, <2>8, <2>9, <2>10 DEF CodecNext, size
<1> QED BY <1>1, <1>2, PTL DEF CodecSpec

(* Type correctness of the codec, for every set of messages, values, raw   *)
(* words, compositions and received payloads (encode(), SignalLayout,      *)
(* Signal::encode()).                                                      *)
THEOREM CodecIsTyped == CodecSpec => []CodecTypeOK
<1>1. CodecInv => CodecTypeOK
  BY DEF CodecInv
<1> QED BY <1>1, CodecInvHolds, PTL

(* In every state of the codec, the fast path reads and writes what the    *)
(* definition does (extract_intel(), insert_motorola() and their siblings  *)
(* against decode_raw_reference(), encode_raw_reference()).                *)
THEOREM FastPathIsExact == CodecSpec => []FastPathIsTheDefinition
<1>1. CodecInv => FastPathIsTheDefinition
  BY FastPathHolds DEF CodecInv
<1> QED BY <1>1, CodecInvHolds, PTL

(* In every state of the codec, a frame decodes to exactly the signals     *)
(* that its switches and its length leave, and no bit is read twice, where *)
(* no chain of switches is longer than is_signal_active() follows          *)
(* (active_signals(), for_each_active_signal(), mux_separated()).          *)
THEOREM FramesAreMultiplexed ==
  (\A m \in Messages : ChainsAreShort(m)) => (CodecSpec => []MultiplexingIsExact)
<1> SUFFICES ASSUME \A m \in Messages : ChainsAreShort(m)
             PROVE  CodecSpec => []MultiplexingIsExact
  OBVIOUS
<1>1. CodecInv => MultiplexingIsExact
  BY MultiplexingHolds DEF CodecInv
<1> QED BY <1>1, CodecInvHolds, PTL

-----------------------------------------------------------------------------
(* There are as many words of n bits as numbers below 2^n, and one bit     *)
(* more makes twice as many.                                               *)
LEMMA PowersDouble ==
  ASSUME NEW n \in Nat
  PROVE  2^n \in Nat \ {0} /\ 2^(n + 1) = 2^n + 2^n
<1> DEFINE S == 1..n
           x == n + 1
           Old == SUBSET S
           New == {T \in SUBSET (1..(n + 1)) : x \in T}
<1>1. IsFiniteSet(S) /\ Cardinality(S) = n /\ IsFiniteSet(1..(n + 1)) /\ Cardinality(1..(n + 1)) = n + 1
  BY FS_Interval
<1>2. /\ IsFiniteSet(Old) /\ Cardinality(Old) = 2^n
      /\ IsFiniteSet(SUBSET (1..(n + 1))) /\ Cardinality(SUBSET (1..(n + 1))) = 2^(n + 1)
  <2> HIDE DEF S
  <2> QED BY <1>1, FS_SUBSET
<1>3. 1..(n + 1) = S \cup {x} /\ x \notin S
  OBVIOUS
<1>4. SUBSET (1..(n + 1)) = Old \cup New /\ Old \cap New = {}
  <2> HIDE DEF S, x
  <2> QED BY <1>3
<1>5. IsFiniteSet(New) /\ Cardinality(New) = Cardinality(Old)
  <2> DEFINE f == [T \in Old |-> T \cup {x}]
  <2>1. f \in Bijection(Old, New)
    <3> HIDE DEF S, x
    <3>1. f \in [Old -> New]
      BY <1>3
    <3>2. ASSUME NEW a \in Old, NEW b \in Old, f[a] = f[b] PROVE a = b
      <4>1. a \cup {x} = b \cup {x} /\ x \notin a /\ x \notin b
        BY <1>3, <3>2
      <4> QED BY <4>1
    <3>3. ASSUME NEW T \in New PROVE \E a \in Old : f[a] = T
      <4>1. T \ {x} \in Old /\ (T \ {x}) \cup {x} = T
        BY <1>3
      <4> QED BY <4>1
    <3> HIDE DEF f, Old, New
    <3>4. f \in Injection(Old, New)
      BY <3>1, <3>2 DEF Injection, IsInjective
    <3>5. f \in Surjection(Old, New)
      BY <3>1, <3>3 DEF Surjection
    <3> QED BY <3>4, <3>5 DEF Bijection
  <2> HIDE DEF f, Old, New
  <2> QED BY <1>2, <2>1, FS_Bijection DEF ExistsBijection
<1>6. Cardinality(Old \cup New) = Cardinality(Old) + (Cardinality(New) - Cardinality(Old \cap New))
  <2>1. IsFiniteSet(Old) /\ IsFiniteSet(New)
    BY <1>2, <1>5
  <2> HIDE DEF Old, New
  <2> QED BY Zenon, <2>1, FS_Union
<1>7. 2^n \in Nat /\ 2^n # 0
  <2>1. Cardinality(Old) \in Nat
    BY <1>2, FS_CardinalityType
  <2>2. {} \in Old
    OBVIOUS
  <2>3. Cardinality(Old) # 0
    BY <1>2, <2>2, FS_EmptySet
  <2> QED BY <1>2, <2>1, <2>3
<1>8. Cardinality(Old \cap New) = 0
  BY <1>4, FS_EmptySet
<1>9. Cardinality(SUBSET (1..(n + 1))) = Cardinality(Old \cup New)
  BY Zenon, <1>4
<1> HIDE DEF Old, New
<1> QED BY <1>2, <1>5, <1>6, <1>7, <1>8, <1>9

(* Division by a positive number, and how a quotient and a rest are known. *)
LEMMA Division ==
  ASSUME NEW a \in Int, NEW p \in Nat \ {0}
  PROVE  a \div p \in Int /\ a % p \in 0..(p - 1) /\ a = (p * (a \div p)) + (a % p)
OBVIOUS

LEMMA QuotientIsUnique ==
  ASSUME NEW p \in Nat \ {0}, NEW q \in Int, NEW r \in 0..(p - 1),
         NEW t \in Int, NEW u \in 0..(p - 1), (p * q) + r = (p * t) + u
  PROVE  q = t /\ r = u
<1>1. p * (q - t) = u - r
  OBVIOUS
<1>2. CASE q - t >= 1
  <2>1. p * (q - t) >= p
    BY <1>2
  <2> QED BY <1>1, <2>1
<1>3. CASE q - t <= -1
  <2>1. p * (q - t) <= -p
    BY <1>3
  <2> QED BY <1>1, <2>1
<1> QED BY <1>2, <1>3

LEMMA Divided ==
  ASSUME NEW a \in Int, NEW p \in Nat \ {0}, NEW q \in Int, NEW r \in 0..(p - 1), a = (p * q) + r
  PROVE  a \div p = q /\ a % p = r
BY Division, QuotientIsUnique

(* One bit more of a number.                                              *)
LEMMA OneMoreBit ==
  ASSUME NEW a \in Int, NEW p \in Nat \ {0}
  PROVE  a % (p + p) = (a % p) + (IF (a \div p) % 2 = 1 THEN p ELSE 0)
<1> DEFINE q == a \div p
           r == a % p
           h == q \div 2
           b == q % 2
<1>1. q \in Int /\ r \in 0..(p - 1) /\ a = (p * q) + r
  BY Division
<1>2. h \in Int /\ b \in {0, 1} /\ q = (2 * h) + b
  <2> HIDE DEF q
  <2> QED BY <1>1
<1> HIDE DEF q, r, h, b
<1>3. p * q = (p * (2 * h)) + (p * b)
  BY <1>1, <1>2
<1>4. p * (2 * h) = (p + p) * h
  BY <1>1, <1>2
<1>5. p * b = IF b = 1 THEN p ELSE 0
  BY <1>2
<1>6. a = ((p + p) * h) + (r + (IF b = 1 THEN p ELSE 0))
  <2> DEFINE pq == p * q
             ph == p * (2 * h)
             pb == p * b
             pph == (p + p) * h
             e == IF b = 1 THEN p ELSE 0
  <2>1. pq \in Int /\ ph \in Int /\ pb \in Int /\ pph \in Int /\ e \in Int
    BY <1>1, <1>2
  <2>2. a = pq + r /\ pq = ph + pb /\ ph = pph /\ pb = e /\ r \in Int
    BY <1>1, <1>3, <1>4, <1>5
  <2> HIDE DEF pq, ph, pb, pph, e
  <2>3. a = pph + (r + e)
    BY <2>1, <2>2
  <2> QED BY <2>3 DEF pph, e
<1>7. r + (IF b = 1 THEN p ELSE 0) \in 0..((p + p) - 1) /\ p + p \in Nat \ {0}
  BY <1>1, <1>2
<1>8. a % (p + p) = r + (IF b = 1 THEN p ELSE 0)
  BY <1>6, <1>7, <1>2, Divided
<1> QED BY <1>8 DEF q, r, h, b

-----------------------------------------------------------------------------
(* A word as a number is the sum of its bits, up to those that a double    *)
(* holds; and the bits of a number, of some width, are that number again.  *)
SummedUp(f, n, w) ==
  f = [k \in 0..n |-> IF k = 0 THEN 0 ELSE f[k - 1] + (IF k - 1 \in w THEN 2^(k - 1) ELSE 0)]

LEMMA SummedExists ==
  ASSUME NEW w
  PROVE  \A n \in Nat : \E f : SummedUp(f, n, w)
<1> DEFINE T == {n \in Nat : \E f : SummedUp(f, n, w)}
           Row(k, prev) ==
             IF k = 0 THEN 0 ELSE prev + (IF k - 1 \in w THEN 2^(k - 1) ELSE 0)
<1>1. ASSUME NEW f, NEW n
      PROVE  SummedUp(f, n, w) <=> f = [k \in 0..n |-> Row(k, f[k - 1])]
  BY DEF SummedUp
<1>2. ASSUME NEW prev, NEW other PROVE Row(0, prev) = Row(0, other)
  OBVIOUS
<1> HIDE DEF Row
<1>3. 0 \in T
  <2> DEFINE f == [k \in 0..0 |-> Row(k, <<>>)]
  <2>1. f = [k \in 0..0 |-> Row(k, f[k - 1])]
    <3>1. \A k \in 0..0 : Row(k, <<>>) = Row(k, f[k - 1])
      BY <1>2
    <3> QED BY <3>1
  <2> QED BY <1>1, <2>1
<1>4. ASSUME NEW n \in T PROVE n + 1 \in T
  <2>1. PICK f : f = [k \in 0..n |-> Row(k, f[k - 1])]
    BY <1>1
  <2> DEFINE g == [k \in 0..(n + 1) |-> IF k <= n THEN f[k] ELSE Row(k, f[n])]
  <2>2. ASSUME NEW k \in 0..(n + 1) PROVE g[k] = Row(k, g[k - 1])
    <3>1. CASE k = 0
      <4>1. g[k] = Row(0, f[0 - 1])
        BY <2>1, <3>1
      <4> QED BY <1>2, <3>1, <4>1
    <3>2. CASE k # 0 /\ k <= n
      <4>1. g[k] = Row(k, f[k - 1])
        BY <2>1, <3>2
      <4>2. g[k - 1] = f[k - 1]
        BY <3>2
      <4> QED BY <4>1, <4>2
    <3>3. CASE k = n + 1
      BY <3>3
    <3> QED BY <3>1, <3>2, <3>3
  <2>3. g = [k \in 0..(n + 1) |-> Row(k, g[k - 1])]
    BY <2>2
  <2>4. SummedUp(g, n + 1, w)
    BY <1>1, <2>3
  <2> QED BY <2>4
<1>5. Nat \subseteq T
  BY <1>3, <1>4, SetInduction
<1> QED BY <1>5

LEMMA BitsAddUp ==
  ASSUME NEW w
  PROVE  /\ LowBits(w)[0] = 0
         /\ \A k \in 0..52 :
              LowBits(w)[k + 1] = LowBits(w)[k] + (IF k \in w THEN 2^k ELSE 0)
<1> DEFINE f == CHOOSE g : SummedUp(g, 53, w)
<1>1. SummedUp(f, 53, w)
  BY SummedExists
<1>2. LowBits(w) = f
  BY DEF LowBits, SummedUp
<1> HIDE DEF f
<1>3. f[0] = 0
  BY <1>1 DEF SummedUp
<1>4. ASSUME NEW k \in 0..52
      PROVE  f[k + 1] = f[k] + (IF k \in w THEN 2^k ELSE 0)
  <2> DEFINE j == k + 1
  <2>1. j \in 0..53 /\ j # 0 /\ j - 1 = k
    OBVIOUS
  <2> HIDE DEF j
  <2>2. f[j] = f[j - 1] + (IF j - 1 \in w THEN 2^(j - 1) ELSE 0)
    BY <1>1, <2>1 DEF SummedUp
  <2> QED BY <2>1, <2>2 DEF j
<1> QED BY <1>2, <1>3, <1>4

LEMMA NumberOfBits ==
  ASSUME NEW n \in Int, NEW len \in 0..53
  PROVE  NumberOf(BitsOf(n, len)) = n % 2^len
<1> DEFINE w == BitsOf(n, len)
           upto(k) == IF k < len THEN k ELSE len
           T == {k \in Nat : k <= 53 => LowBits(w)[k] = n % 2^upto(k)}
<1>1. \A k \in Nat : 2^k \in Nat \ {0} /\ 2^(k + 1) = 2^k + 2^k
  BY PowersDouble
<1>2. 0 \in T
  <2>1. upto(0) = 0
    OBVIOUS
  <2>2. 2^0 = 1
    OBVIOUS
  <2>3. n % 1 = 0
    OBVIOUS
  <2> QED BY <2>1, <2>2, <2>3, BitsAddUp
<1>3. ASSUME NEW k \in T PROVE k + 1 \in T
  <2> SUFFICES ASSUME k + 1 <= 53 PROVE LowBits(w)[k + 1] = n % 2^upto(k + 1)
    OBVIOUS
  <2>1. k \in 0..52 /\ LowBits(w)[k] = n % 2^upto(k)
    OBVIOUS
  <2>2. LowBits(w)[k + 1] = LowBits(w)[k] + (IF k \in w THEN 2^k ELSE 0)
    BY <2>1, BitsAddUp
  <2>3. CASE k < len
    <3>1. upto(k) = k /\ upto(k + 1) = k + 1
      BY <2>1, <2>3
    <3>2. k \in w <=> (n \div (2^k)) % 2 = 1
      BY <2>1, <2>3 DEF BitsOf, BitMask
    <3>3. 2^k \in Nat \ {0} /\ 2^(k + 1) = 2^k + 2^k
      BY <1>1, <2>1
    <3> HIDE DEF w, upto, T
    <3>4. n % (2^k + 2^k) = (n % 2^k) + (IF (n \div (2^k)) % 2 = 1 THEN 2^k ELSE 0)
      BY <3>3, OneMoreBit
    <3> QED BY <2>1, <2>2, <3>1, <3>2, <3>3, <3>4
  <2>4. CASE ~(k < len)
    <3>1. upto(k) = len /\ upto(k + 1) = len
      BY <2>1, <2>4
    <3>2. k \notin w
      BY <2>1, <2>4 DEF BitsOf, BitMask
    <3>3. 2^len \in Nat \ {0}
      BY <1>1
    <3> HIDE DEF w, upto, T
    <3>4. n % 2^len \in Int
      BY <3>3, Division
    <3> QED BY <2>1, <2>2, <3>1, <3>2, <3>4
  <2> QED BY <2>3, <2>4
<1>4. 53 \in T
  <2> HIDE DEF T
  <2>1. T \subseteq Nat
    BY DEF T
  <2> QED BY <1>2, <1>3, <2>1, SetInduction
<1>5. upto(53) = len
  OBVIOUS
<1> HIDE DEF w, upto
<1>6. LowBits(w)[53] = n % 2^upto(53)
  BY <1>4
<1> QED BY <1>5, <1>6 DEF NumberOf, w

LEMMA UnsignedReadsBack ==
  ASSUME NEW len \in 1..53, NEW n \in 0..(2^len - 1)
  PROVE  NumberOf(BitsOf(n, len)) = n
<1>1. 2^len \in Nat \ {0}
  BY PowersDouble
<1>2. n % 2^len = n
  <2> DEFINE p == 2^len
  <2>1. p \in Nat \ {0} /\ n \in 0..(p - 1)
    BY <1>1
  <2> HIDE DEF p
  <2>2. n \in Int /\ n = (p * 0) + n
    BY <2>1
  <2>3. n % p = n
    BY <2>1, <2>2, Divided
  <2> QED BY <2>3 DEF p
<1>3. n \in Int /\ len \in 0..53
  BY <1>1
<1> QED BY <1>2, <1>3, NumberOfBits

LEMMA SignedReadsBack ==
  ASSUME NEW len \in 1..53, NEW n \in (-(2^(len - 1)))..(2^(len - 1) - 1)
  PROVE  SignExtend(BitsOf(n, len), len) = n
<1> DEFINE p == 2^(len - 1)
<1>1. p \in Nat \ {0} /\ 2^len = p + p
  <2> DEFINE k == len - 1
  <2>1. k \in Nat /\ k + 1 = len
    OBVIOUS
  <2> HIDE DEF k
  <2>2. 2^k \in Nat \ {0} /\ 2^(k + 1) = 2^k + 2^k
    BY <2>1, PowersDouble
  <2> QED BY <2>1, <2>2 DEF k
<1>2. n \in Int /\ -p <= n /\ n <= p - 1
  <2>1. n \in (-p)..(p - 1)
    OBVIOUS
  <2> HIDE DEF p
  <2> QED BY <1>1, <2>1
<1>3. len - 1 \in BitsOf(n, len) <=> (n \div p) % 2 = 1
  BY DEF BitsOf, BitMask
<1>4. NumberOf(BitsOf(n, len)) = n % (p + p)
  <2>1. NumberOf(BitsOf(n, len)) = n % 2^len
    <3>1. n \in Int /\ len \in 0..53
      BY <1>2
    <3> QED BY Zenon, <3>1, NumberOfBits
  <2> QED BY Zenon, <1>1, <2>1
<1> HIDE DEF p
<1>5. p + p \in Nat \ {0}
  BY <1>1
<1>6. CASE n >= 0
  <2>1. n \in 0..(p - 1) /\ n = (p * 0) + n /\ n \in 0..((p + p) - 1) /\ n = ((p + p) * 0) + n
    BY <1>1, <1>2, <1>6
  <2>2. n \div p = 0 /\ n % (p + p) = n
    BY <1>1, <1>5, <2>1, Divided
  <2> QED BY <1>3, <1>4, <2>2 DEF SignExtend
<1>7. CASE n < 0
  <2>1. /\ n + p \in 0..(p - 1) /\ n = (p * (-1)) + (n + p)
        /\ n + (p + p) \in 0..((p + p) - 1) /\ n = ((p + p) * (-1)) + (n + (p + p))
    BY <1>1, <1>2, <1>7
  <2>2. n \div p = -1
    BY <1>1, <1>2, <2>1, Divided
  <2>3. n % (p + p) = n + (p + p)
    BY <1>2, <1>5, <2>1, Divided
  <2>4. (n \div p) % 2 = 1
    <3> DEFINE q == n \div p
               h == q \div 2
               b == q % 2
    <3>1. q = -1
      BY <2>2
    <3>2. q \in Int
      BY <3>1
    <3> HIDE DEF q
    <3>3. h \in Int /\ b \in 0..1 /\ q = (2 * h) + b
      BY <3>2, Division
    <3> HIDE DEF h, b
    <3>4. b = 1
      BY <3>1, <3>3
    <3> QED BY <3>4 DEF b, q
  <2>5. SignExtend(BitsOf(n, len), len) = (n + (p + p)) - (p + p)
    BY <1>1, <1>3, <1>4, <2>3, <2>4 DEF SignExtend
  <2> QED BY <1>1, <1>2, <2>5
<1> QED BY <1>2, <1>6, <1>7

-----------------------------------------------------------------------------
(* std::round goes to a whole number at most half a step away.             *)
LEMMA RoundsToNearest ==
  ASSUME NEW n \in Int, NEW d \in Int \ {0}
  PROVE  RoundAway(n, d) \in Int /\ 2 * Abs((RoundAway(n, d) * d) - n) <= Abs(d)
<1> DEFINE a == Abs(n)
           e == Abs(d)
           m == ((2 * a) + e) \div (2 * e)
           rest == ((2 * a) + e) % (2 * e)
<1>1. /\ a \in Nat /\ n = (IF n < 0 THEN -a ELSE a) /\ (n < 0 => a # 0)
      /\ e \in Nat \ {0} /\ d = (IF d < 0 THEN -e ELSE e)
  BY DEF Abs
<1>2. RoundAway(n, d) = IF (n < 0) = (d < 0) THEN m ELSE -m
  BY DEF RoundAway
<1> HIDE DEF a, e
<1>3. (2 * a) + e \in Int /\ 2 * e \in Nat \ {0}
  BY <1>1
<1>4. m \in Int /\ rest \in 0..((2 * e) - 1) /\ (2 * a) + e = ((2 * e) * m) + rest
  BY <1>3, Division
<1> HIDE DEF m, rest
<1> DEFINE x == m * e
<1>5. x \in Int /\ (2 * e) * m = 2 * x
  BY <1>1, <1>4
<1>6. m * (-e) = -x /\ (-m) * e = -x /\ (-m) * (-e) = x
  BY <1>1, <1>4
<1>7. RoundAway(n, d) * d = IF n < 0 THEN -x ELSE x
  <2>1. CASE n < 0 /\ d < 0
    BY <1>1, <1>2, <1>4, <1>6, <2>1
  <2>2. CASE n < 0 /\ ~(d < 0)
    BY <1>1, <1>2, <1>4, <1>6, <2>2
  <2>3. CASE ~(n < 0) /\ d < 0
    BY <1>1, <1>2, <1>4, <1>6, <2>3
  <2>4. CASE ~(n < 0) /\ ~(d < 0)
    BY <1>1, <1>2, <1>4, <1>6, <2>4
  <2> QED BY <2>1, <2>2, <2>3, <2>4
<1> HIDE DEF x
<1>8. 2 * x <= (2 * a) + e /\ (2 * a) - e < 2 * x
  BY <1>1, <1>4, <1>5
<1>9. RoundAway(n, d) \in Int
  BY <1>2, <1>4
<1>10. 2 * Abs((RoundAway(n, d) * d) - n) <= e
  <2>1. (RoundAway(n, d) * d) - n = IF n < 0 THEN a - x ELSE x - a
    BY <1>1, <1>5, <1>7
  <2>2. \A y \in Int : -e <= 2 * y /\ 2 * y <= e => 2 * Abs(y) <= e
    BY <1>1 DEF Abs
  <2>3. a - x \in Int /\ x - a \in Int /\ -e <= 2 * (a - x) /\ 2 * (a - x) <= e
        /\ -e <= 2 * (x - a) /\ 2 * (x - a) <= e
    BY <1>1, <1>5, <1>8
  <2> QED BY <2>1, <2>2, <2>3
<1> QED BY <1>9, <1>10 DEF e

(* Multiples of a number are as far apart as their order.                  *)
LEMMA MultiplesAreApart ==
  ASSUME NEW a \in Int, NEW b \in Int, a < b, NEW f \in Int
  PROVE  /\ a * f \in Int /\ b * f \in Int
         /\ f > 0 => (a * f) + f <= b * f
         /\ f < 0 => b * f <= (a * f) + f
<1> DEFINE c == b - (a + 1)
<1>1. c \in Nat /\ b = (a + 1) + c
  OBVIOUS
<1> HIDE DEF c
<1>2. b * f = ((a * f) + f) + (c * f) /\ a * f \in Int /\ b * f \in Int /\ c * f \in Int
  BY <1>1
<1>3. (f > 0 => c * f >= 0) /\ (f < 0 => c * f <= 0)
  BY <1>1
<1> DEFINE af == a * f
           bf == b * f
           cf == c * f
<1>4. bf = (af + f) + cf /\ af \in Int /\ bf \in Int /\ cf \in Int
  BY <1>2
<1>5. (f > 0 => cf >= 0) /\ (f < 0 => cf <= 0)
  BY <1>3
<1> HIDE DEF af, bf, cf
<1>6. (f > 0 => af + f <= bf) /\ (f < 0 => bf <= af + f)
  BY <1>4, <1>5
<1> QED BY <1>4, <1>6 DEF af, bf

(* What is nearer than half a step is what it is rounded to.               *)
LEMMA NearIsRounded ==
  ASSUME NEW n \in Int, NEW d \in Int \ {0}, NEW r \in Int, 2 * Abs((r * d) - n) < Abs(d)
  PROVE  RoundAway(n, d) = r
<1> DEFINE s == RoundAway(n, d)
           p == s * d
           q == r * d
<1>1. s \in Int /\ 2 * Abs(p - n) <= Abs(d)
  BY RoundsToNearest
<1>2. 2 * Abs(q - n) < Abs(d)
  OBVIOUS
<1> HIDE DEF s
<1>3. p \in Int /\ q \in Int
  BY <1>1
<1>4. CASE s < r
  <2>1. (d > 0 => p + d <= q) /\ (d < 0 => q <= p + d)
    BY <1>1, <1>4, MultiplesAreApart
  <2> HIDE DEF p, q
  <2> QED BY <1>1, <1>2, <1>3, <2>1 DEF Abs
<1>5. CASE r < s
  <2>1. (d > 0 => q + d <= p) /\ (d < 0 => p <= q + d)
    BY <1>1, <1>5, MultiplesAreApart
  <2> HIDE DEF p, q
  <2> QED BY <1>1, <1>2, <1>3, <2>1 DEF Abs
<1> QED BY <1>1, <1>4, <1>5 DEF s

(* Rounding and then saturating is nearest to what saturating gives.       *)
LEMMA SaturatedIsNearest ==
  ASSUME NEW x \in Int, NEW f \in Int \ {0}, NEW low \in Int, NEW high \in Int, low <= high,
         NEW r, r = IF RoundAway(x, f) < low THEN low
                    ELSE IF RoundAway(x, f) > high THEN high ELSE RoundAway(x, f)
  PROVE  /\ r \in Int
         /\ 2 * Abs((r * f) - Smaller(Larger(x, Smaller(low * f, high * f)), Larger(low * f, high * f)))
              <= Abs(f)
<1> DEFINE s == RoundAway(x, f)
           p == s * f
           a == low * f
           b == high * f
<1>1. s \in Int /\ 2 * Abs(p - x) <= Abs(f)
  BY RoundsToNearest
<1> HIDE DEF s
<1>2. p \in Int /\ a \in Int /\ b \in Int
  BY <1>1
<1>3. (f > 0 => a <= b) /\ (f < 0 => b <= a)
  <2>1. CASE low < high
    <3>1. (f > 0 => a + f <= b) /\ (f < 0 => b <= a + f)
      BY <2>1, MultiplesAreApart
    <3> HIDE DEF a, b
    <3> QED BY <1>2, <3>1
  <2>2. CASE low = high
    BY <1>2, <2>2
  <2> QED BY <2>1, <2>2
<1> DEFINE Near(y) == 2 * Abs(y - Smaller(Larger(x, Smaller(a, b)), Larger(a, b))) <= Abs(f)
<1>4. CASE s < low
  <2>1. (f > 0 => p + f <= a) /\ (f < 0 => a <= p + f)
    BY <1>1, <1>4, MultiplesAreApart
  <2>2. r = low
    BY <1>4 DEF s
  <2> HIDE DEF p, a, b
  <2>3. Near(a)
    BY <1>1, <1>2, <1>3, <2>1 DEF Abs, Smaller, Larger
  <2> QED BY <2>2, <2>3 DEF a, b
<1>5. CASE s > high
  <2>1. (f > 0 => b + f <= p) /\ (f < 0 => p <= b + f)
    BY <1>1, <1>5, MultiplesAreApart
  <2>2. r = high
    BY <1>1, <1>5 DEF s
  <2> HIDE DEF p, a, b
  <2>3. Near(b)
    BY <1>1, <1>2, <1>3, <2>1 DEF Abs, Smaller, Larger
  <2> QED BY <2>2, <2>3 DEF a, b
<1>6. CASE low <= s /\ s <= high
  <2>1. (f > 0 => a <= p) /\ (f < 0 => p <= a)
    <3>1. CASE low < s
      <4>1. (f > 0 => a + f <= p) /\ (f < 0 => p <= a + f)
        BY <1>1, <3>1, MultiplesAreApart
      <4> HIDE DEF p, a
      <4> QED BY <1>2, <4>1
    <3>2. CASE low = s
      BY <1>2, <3>2
    <3> QED BY <1>1, <1>6, <3>1, <3>2
  <2>2. (f > 0 => p <= b) /\ (f < 0 => b <= p)
    <3>1. CASE s < high
      <4>1. (f > 0 => p + f <= b) /\ (f < 0 => b <= p + f)
        BY <1>1, <3>1, MultiplesAreApart
      <4> HIDE DEF p, b
      <4> QED BY <1>2, <4>1
    <3>2. CASE s = high
      BY <1>2, <3>2
    <3> QED BY <1>1, <1>6, <3>1, <3>2
  <2>3. r = s
    BY <1>1, <1>6 DEF s
  <2> HIDE DEF p, a, b
  <2>4. Near(p)
    BY <1>1, <1>2, <1>3, <2>1, <2>2 DEF Abs, Smaller, Larger
  <2> QED BY <1>1, <2>3, <2>4 DEF p, a, b
<1> QED BY <1>1, <1>4, <1>5, <1>6

-----------------------------------------------------------------------------
(* What is read of a word w of a signal in which v was written, as         *)
(* SignalsKeepTheirValues says it.                                         *)
Reads(l, v, w) ==
  LET limited == Limited(l, v)
      reached == IF IsFloat(l) THEN limited
                 ELSE Smaller(Larger(limited, PhysicalFloor(l)), PhysicalCeiling(l))
      got == RawToPhysical(l, w)
  IN  IF v = NaN THEN got = NaN ELSE 2 * Abs(got - reached) <= Resolution(l)

(* The ends of what a signal can hold, in whatever order the factor has    *)
(* them.                                                                   *)
LEMMA EndsAre ==
  ASSUME NEW l, NEW low \in Int, NEW high \in Int, low = RawMinimum(l), high = RawMaximum(l),
         l.factor \in Int, l.offset \in Int
  PROVE  /\ PhysicalFloor(l) = Smaller(low * l.factor, high * l.factor) + l.offset
         /\ PhysicalCeiling(l) = Larger(low * l.factor, high * l.factor) + l.offset
<1> DEFINE a == (low * l.factor) + l.offset
           b == (high * l.factor) + l.offset
<1>1. EndsOf(l) = {a, b}
  BY DEF EndsOf
<1>2. a \in Int /\ b \in Int
  OBVIOUS
<1>3. Smaller(a, b) = Smaller(low * l.factor, high * l.factor) + l.offset
      /\ Larger(a, b) = Larger(low * l.factor, high * l.factor) + l.offset
  <2> DEFINE p == low * l.factor
             q == high * l.factor
  <2>1. p \in Int /\ q \in Int
    OBVIOUS
  <2> HIDE DEF p, q
  <2>2. Smaller(p + l.offset, q + l.offset) = Smaller(p, q) + l.offset
        /\ Larger(p + l.offset, q + l.offset) = Larger(p, q) + l.offset
    BY <2>1 DEF Smaller, Larger
  <2> QED BY <2>2 DEF p, q
<1> HIDE DEF a, b
<1>4. PhysicalFloor(l) = Smaller(a, b)
  <2>1. Smaller(a, b) \in EndsOf(l) /\ \A g \in EndsOf(l) : Smaller(a, b) <= g
    BY <1>1, <1>2 DEF Smaller
  <2>2. \A e \in EndsOf(l) : (\A g \in EndsOf(l) : e <= g) => e = Smaller(a, b)
    BY <1>1, <1>2 DEF Smaller
  <2> QED BY <2>1, <2>2 DEF PhysicalFloor
<1>5. PhysicalCeiling(l) = Larger(a, b)
  <2>1. Larger(a, b) \in EndsOf(l) /\ \A g \in EndsOf(l) : g <= Larger(a, b)
    BY <1>1, <1>2 DEF Larger
  <2>2. \A e \in EndsOf(l) : (\A g \in EndsOf(l) : g <= e) => e = Larger(a, b)
    BY <1>1, <1>2 DEF Larger
  <2> QED BY <2>1, <2>2 DEF PhysicalCeiling
<1> QED BY <1>3, <1>4, <1>5

(* The bits of a number are those of a word of its width.                  *)
LEMMA BitsAreOfTheWidth ==
  ASSUME NEW n, NEW len \in 1..64
  PROVE  BitsOf(n, len) \in Word /\ BitsOf(n, len) \cap BitMask(len) = BitsOf(n, len)
<1>1. BitMask(len) \subseteq 0..63
  BY DEF BitMask
<1> QED BY <1>1 DEF BitsOf, Word

LEMMA ZeroHasNoBits ==
  ASSUME NEW len \in 1..64
  PROVE  BitsOf(0, len) = {}
<1> SUFFICES ASSUME NEW k \in BitMask(len) PROVE (0 \div (2^k)) % 2 # 1
  BY DEF BitsOf
<1>1. k \in Nat
  BY DEF BitMask
<1> DEFINE p == 2^k
<1>2. p \in Nat \ {0}
  BY <1>1, PowersDouble
<1> HIDE DEF p
<1>3. 0 \div p = 0
  <2>1. 0 \in 0..(p - 1) /\ 0 = (p * 0) + 0
    BY <1>2
  <2> QED BY <1>2, <2>1, Divided
<1>4. 0 % 2 = 0
  OBVIOUS
<1> QED BY <1>3, <1>4 DEF p

(* physical_to_raw() rounds and saturates.                                 *)
LEMMA IntegerIsHeld ==
  ASSUME NEW l, NEW v, IsExact(l, v), ~IsFloat(l), IsFinite(v), l.length \in 1..64
  PROVE  PhysicalToRaw(l, v) \in Word /\ Reads(l, v, PhysicalToRaw(l, v) \cap BitMask(l.length))
<1> DEFINE len == l.length
           f == l.factor
           held == Limited(l, v)
           x == held - l.offset
           s == RoundAway(x, f)
           low == RawMinimum(l)
           high == RawMaximum(l)
           top == IF l.signed THEN 2^(len - 1) ELSE 2^len
           r == IF s < low THEN low ELSE IF s > high THEN high ELSE s
           w == PhysicalToRaw(l, v)
<1>1. /\ v \in Int /\ f \in Int \ {0} /\ l.offset \in Int /\ l.min \in Int \ {NaN} /\ l.max \in Int \ {NaN}
      /\ len \in 1..53
  BY DEF IsExact
<1>2. v # NaN
  BY <1>1, NonFinite DEF IsFinite, NonFinite
<1>3. held \in Int /\ held # NaN
  BY <1>1, <1>2 DEF Limited, Smaller, Larger
<1>4. x \in Int
  BY <1>1, <1>3
<1>5. s \in Int
  <2> HIDE DEF x
  <2> QED BY <1>1, <1>4, RoundsToNearest
<1>6. top \in Nat \ {0}
  <2>1. len - 1 \in Nat /\ len \in Nat
    BY <1>1
  <2>2. 2^(len - 1) \in Nat \ {0} /\ 2^len \in Nat \ {0}
    <3> HIDE DEF len
    <3> QED BY Zenon, <2>1, PowersDouble
  <2> QED BY <2>2
<1>7. low = (IF l.signed THEN -top ELSE 0) /\ high = top - 1
  BY DEF RawMinimum, RawMaximum
<1>8. w = IF s >= top THEN BitsOf(top - 1, len)
          ELSE IF l.signed /\ s < -top THEN BitsOf(-top, len)
          ELSE IF ~l.signed /\ s <= 0 THEN {}
          ELSE BitsOf(s, len)
  BY <1>3, Zenon DEF PhysicalToRaw
<1> HIDE DEF len, f, held, x, s, low, high, top, w
<1>9. low \in Int /\ high \in Int /\ low <= high /\ r \in low..high
  BY <1>5, <1>6, <1>7
<1>10. w = BitsOf(r, len)
  <2>1. {} = BitsOf(0, len)
    BY <1>1, ZeroHasNoBits
  <2>2. CASE l.signed
    BY <1>5, <1>6, <1>7, <1>8, <2>2
  <2>3. CASE ~l.signed
    BY <1>5, <1>6, <1>7, <1>8, <2>1, <2>3
  <2> QED BY <2>2, <2>3
<1> HIDE DEF r
<1>11. w \in Word /\ w \cap BitMask(len) = w
  BY <1>1, <1>10, BitsAreOfTheWidth
<1>12. RawToPhysical(l, w) = (r * f) + l.offset
  <2>1. CASE l.signed
    <3>1. r \in (-(2^(len - 1)))..(2^(len - 1) - 1)
      BY <1>7, <1>9, <2>1 DEF top
    <3>2. SignExtend(w, len) = r
      BY <1>1, <1>10, <3>1, SignedReadsBack
    <3> QED BY <2>1, <3>2 DEF RawToPhysical, len, f
  <2>2. CASE ~l.signed
    <3>1. r \in 0..(2^len - 1)
      BY <1>7, <1>9, <2>2 DEF top
    <3>2. NumberOf(w) = r
      BY <1>1, <1>10, <3>1, UnsignedReadsBack
    <3> QED BY <2>2, <3>2 DEF RawToPhysical, len, f
  <2> QED BY <2>1, <2>2
<1> DEFINE a == Smaller(low * f, high * f)
           b == Larger(low * f, high * f)
<1>13. PhysicalFloor(l) = a + l.offset /\ PhysicalCeiling(l) = b + l.offset
  BY <1>1, <1>9, EndsAre DEF low, high, f
<1>14. r \in Int /\ 2 * Abs((r * f) - Smaller(Larger(x, a), b)) <= Abs(f)
  BY <1>1, <1>4, <1>9, SaturatedIsNearest DEF r, s
<1>15. a \in Int /\ b \in Int /\ r * f \in Int
  BY <1>1, <1>9, <1>14 DEF Smaller, Larger
<1>16. ((r * f) + l.offset) - Smaller(Larger(held, a + l.offset), b + l.offset)
         = (r * f) - Smaller(Larger(x, a), b)
  <2> DEFINE p == r * f
  <2>1. p \in Int
    BY <1>15
  <2> HIDE DEF p, a, b
  <2>2. x = held - l.offset
    BY DEF x
  <2>3. (p + l.offset) - Smaller(Larger(held, a + l.offset), b + l.offset) = p - Smaller(Larger(x, a), b)
    BY <1>1, <1>3, <1>15, <2>1, <2>2 DEF Smaller, Larger
  <2> QED BY <2>3 DEF p
<1> HIDE DEF a, b
<1>17. Reads(l, v, w)
  <2>1. RawToPhysical(l, w) - Smaller(Larger(held, PhysicalFloor(l)), PhysicalCeiling(l))
          = (r * f) - Smaller(Larger(x, a), b)
    BY Zenon, <1>12, <1>13, <1>16
  <2>2. Resolution(l) = Abs(f)
    BY DEF Resolution, f
  <2>3. 2 * Abs(RawToPhysical(l, w) - Smaller(Larger(held, PhysicalFloor(l)), PhysicalCeiling(l))) <= Resolution(l)
    BY Zenon, <1>14, <2>1, <2>2
  <2> QED BY Zenon, <1>2, <2>3 DEF Reads, held
<1> QED BY Zenon, <1>11, <1>17 DEF w, len

(* A float format holds what it is given.                                  *)
LEMMA FloatIsHeld ==
  ASSUME NEW l, NEW v, IsExact(l, v), IsFloat(l), l.length \in 1..64
  PROVE  PhysicalToRaw(l, v) \in Word /\ Reads(l, v, PhysicalToRaw(l, v) \cap BitMask(l.length))
<1> DEFINE held == Limited(l, v)
           number == IF held = NaN THEN NaN ELSE (held - l.offset) \div l.factor
           width == FloatWidth[l.type]
           bits == FloatBits(number, width)
<1>1. /\ v \in Int /\ l.factor \in Int \ {0} /\ l.offset \in Int /\ l.min \in Int /\ l.max \in Int
      /\ l.length = width /\ bits \in Word /\ FloatOf(bits \cap BitMask(width), width) = number
      /\ (number * l.factor) + l.offset = held
  BY DEF IsExact
<1>2. PhysicalToRaw(l, v) = bits
  BY Zenon DEF PhysicalToRaw
<1> HIDE DEF number, width
<1>3. (bits \cap BitMask(width)) \cap BitMask(width) = bits \cap BitMask(width)
  OBVIOUS
<1>4. RawToPhysical(l, bits \cap BitMask(width)) = held
  <2> HIDE DEF bits, held
  <2> QED BY Zenon, <1>1, <1>3 DEF RawToPhysical, width
<1>5. held \in Int
  BY <1>1 DEF Limited, Smaller, Larger
<1>6. 2 * Abs(held - held) <= Resolution(l)
  <2> HIDE DEF held
  <2> QED BY <1>1, <1>5 DEF Abs, Resolution
<1>7. v = NaN => held = NaN
  BY DEF Limited
<1> HIDE DEF bits
<1>8. Reads(l, v, bits \cap BitMask(width))
  <2> HIDE DEF held
  <2>1. Limited(l, v) = held
    BY DEF held
  <2> QED BY Zenon, <1>4, <1>6, <1>7, <2>1 DEF Reads
<1> QED BY Zenon, <1>1, <1>2, <1>8

LEMMA ValueIsHeld ==
  ASSUME NEW l, NEW v, IsExact(l, v), IsFloat(l) \/ IsFinite(v), l.length \in 1..64
  PROVE  PhysicalToRaw(l, v) \in Word /\ Reads(l, v, PhysicalToRaw(l, v) \cap BitMask(l.length))
BY IntegerIsHeld, FloatIsHeld

(* A value has the text of the whole number of steps nearest to it.        *)
LEMMA TextsAreOfNearest ==
  ASSUME message \in Messages, ValuesAreExact(message)
  PROVE  DescribedAsEncoded
<1> SUFFICES ASSUME NEW i \in SignalsOf(message), message.signals[i].table # <<>>,
                    NEW v \in Values(message.signals[i].layout), IsFinite(v)
             PROVE  LET s == message.signals[i]
                        l == s.layout
                        distance(r, u) == 2 * Abs(((r * l.factor) + l.offset) - u)
                        raws == RawMinimum(l)..RawMaximum(l)
                    IN  /\ \A r \in raws : distance(r, v) < Resolution(l) => Describe(s, v) = DescribeRaw(s, r)
                        /\ Describe(s, v) # NoText =>
                             \E r \in raws : distance(r, v) <= Resolution(l) /\ Describe(s, v) = DescribeRaw(s, r)
  BY Zenon DEF DescribedAsEncoded
<1> DEFINE s == message.signals[i]
           l == s.layout
           f == l.factor
           x == v - l.offset
           rounded == RoundAway(x, f)
           raws == RawMinimum(l)..RawMaximum(l)
           distance(r) == 2 * Abs(((r * f) + l.offset) - v)
<1>1. IsExact(l, v)
  BY DEF SignalsOf, ValuesAreExact
<1>2. v \in Int /\ f \in Int \ {0} /\ l.offset \in Int /\ x \in Int
  BY <1>1 DEF IsExact
<1>3. RawMinimum(l) \in Int /\ RawMaximum(l) \in Int
  <2>1. CASE IsFloat(l)
    BY <2>1, NonFinite DEF NonFinite, RawMinimum, RawMaximum
  <2>2. CASE ~IsFloat(l)
    <3> DEFINE len == l.length
    <3>1. len \in 1..53
      BY <1>1, <2>2 DEF IsExact
    <3> HIDE DEF l, len
    <3>2. len - 1 \in Nat /\ len \in Nat
      BY <3>1
    <3>3. 2^(len - 1) \in Nat /\ 2^len \in Nat
      BY Zenon, <3>2, PowersDouble
    <3>4. /\ RawMinimum(l) = IF l.signed THEN -(2^(len - 1)) ELSE 0
          /\ RawMaximum(l) = IF l.signed THEN 2^(len - 1) - 1 ELSE 2^len - 1
      BY Zenon, <2>2 DEF RawMinimum, RawMaximum, len
    <3> QED BY <3>3, <3>4
  <2> QED BY <2>1, <2>2
<1>4. Describe(s, v) = IF rounded \notin raws THEN NoText ELSE DescribeRaw(s, rounded)
  BY Zenon DEF Describe
<1>5. \A r \in raws : r \in Int
  BY <1>3
<1> HIDE DEF s, l, f, x, raws, rounded
<1>6. ASSUME NEW r \in Int
      PROVE  ((r * f) + l.offset) - v = (r * f) - x
  <2> DEFINE p == r * f
  <2>1. p \in Int
    BY <1>2
  <2> HIDE DEF p
  <2>2. (p + l.offset) - v = p - x
    BY <1>2, <2>1 DEF x
  <2> QED BY <2>2 DEF p
<1>7. Resolution(l) = Abs(f)
  BY DEF Resolution, f
<1>8. ASSUME NEW r \in raws, distance(r) < Resolution(l)
      PROVE  Describe(s, v) = DescribeRaw(s, r)
  <2>1. r \in Int /\ 2 * Abs((r * f) - x) < Abs(f)
    BY <1>5, <1>6, <1>7, <1>8
  <2>2. rounded = r
    BY <1>2, <2>1, NearIsRounded DEF rounded
  <2> QED BY <1>4, <1>8, <2>2
<1>9. ASSUME Describe(s, v) # NoText
      PROVE  \E r \in raws : distance(r) <= Resolution(l) /\ Describe(s, v) = DescribeRaw(s, r)
  <2>1. rounded \in raws /\ Describe(s, v) = DescribeRaw(s, rounded)
    BY <1>4, <1>9
  <2>2. rounded \in Int /\ 2 * Abs((rounded * f) - x) <= Abs(f)
    BY <1>2, RoundsToNearest DEF rounded
  <2>3. distance(rounded) <= Resolution(l)
    BY <1>6, <1>7, <2>2
  <2> QED BY <2>1, <2>3
<1> QED BY Zenon, <1>8, <1>9 DEF s, l, f, raws

-----------------------------------------------------------------------------
(* A signal reads as the word that its value was made, and it still does   *)
(* when a signal that shares no bit with it is written.                    *)
LEMMA NotOverlappingIsUntouched ==
  ASSUME NEW n \in 0..64, NEW d \in Payload(n), NEW raw,
         NEW a, a.start \in Nat, a.order \in ByteOrder, Fits(a, n),
         NEW b, b.start \in Nat, b.order \in ByteOrder, Fits(b, n), ~Overlaps(a, b)
  PROVE  DecodeRaw(b, EncodeRaw(a, raw, d)) = DecodeRaw(b, d)
<1>1. ASSUME NEW l, l.start \in Nat, l.order \in ByteOrder, Fits(l, n),
             NEW p \in CanonicalStart(l)..(CanonicalEnd(l) - 1)
      PROVE  <<p \div 8, BitOf(p, l.order)>> \in MarkedBits(l)
  <2>1. CanonicalStart(l) \in Nat /\ CanonicalEnd(l) \in Nat /\ CanonicalEnd(l) <= 8 * n
    BY <1>1, CanonicalRange
  <2>2. p \div 8 < 64
    BY <1>1, <2>1
  <2> QED BY <1>1, <2>2 DEF MarkedBits
<1>2. ASSUME NEW p \in CanonicalStart(a)..(CanonicalEnd(a) - 1),
             NEW q \in CanonicalStart(b)..(CanonicalEnd(b) - 1)
      PROVE  <<p \div 8, BitOf(p, a.order)>> # <<q \div 8, BitOf(q, b.order)>>
  <2>1. <<p \div 8, BitOf(p, a.order)>> \in MarkedBits(a)
    BY <1>1, <1>2
  <2>2. <<q \div 8, BitOf(q, b.order)>> \in MarkedBits(b)
    BY <1>1, <1>2
  <2>3. MarkedBits(a) \cap MarkedBits(b) = {}
    BY DEF Overlaps
  <2> QED BY Zenon, <2>1, <2>2, <2>3
<1>3. n \in Nat
  OBVIOUS
<1> QED BY <1>2, <1>3, OthersAreLeftAlone

(* A payload d of n bytes carries value v as signal i, and all that was    *)
(* noted.                                                                  *)
Carries(m, n, d, i, v) ==
  LET l == m.signals[i].layout
  IN  /\ i \in DOMAIN m.signals /\ Fits(l, n)
      /\ IsExact(l, v) /\ (IsFloat(l) \/ IsFinite(v))
      /\ DecodeRaw(l, d) = PhysicalToRaw(l, v) \cap BitMask(l.length)
Means(m, n, d, noted) == \A i \in DOMAIN noted : Carries(m, n, d, i, noted[i])

LEMMA LayoutsAreBuilt ==
  ASSUME NEW m \in Messages, NEW i \in DOMAIN m.signals
  PROVE  m.signals[i].layout.start \in Nat /\ m.signals[i].layout.order \in ByteOrder
BY MessagesAreBuilt DEF MessagesAreBuilt

(* One write: the signal carries the new value, and what shares no bit     *)
(* with it carries the old one still.                                      *)
LEMMA WritingIsNoted ==
  ASSUME NEW m \in Messages, NEW n \in 0..64, NEW d \in Payload(n), NEW noted, Means(m, n, d, noted),
         NEW i \in DOMAIN m.signals, NEW v, IsExact(m.signals[i].layout, v),
         EncodeError(m.signals[i].layout, v, n) = "ok"
  PROVE  Encoded(m, i, v, d) \in Payload(n) /\ Means(m, n, Encoded(m, i, v, d), Noted(m, noted, i, v))
<1> DEFINE l == m.signals[i].layout
           raw == PhysicalToRaw(l, v)
           e == EncodeRaw(l, raw, d)
           after == Noted(m, noted, i, v)
<1>1. Fits(l, n) /\ (IsFloat(l) \/ IsFinite(v)) /\ l.length \in 1..64
  BY DEF EncodeError, Fits
<1>2. l.start \in Nat /\ l.order \in ByteOrder /\ n \in Nat
  BY LayoutsAreBuilt
<1>3. raw \in Word
  BY <1>1, ValueIsHeld
<1>4. Encoded(m, i, v, d) = e
  BY DEF Encoded
<1>5. IsExact(l, v)
  OBVIOUS
<1> HIDE DEF l, raw
<1>6. e \in Payload(n)
  BY <1>1, <1>2, EncodeIsAPayload
<1>7. Carries(m, n, e, i, v)
  <2>1. DecodeRaw(l, e) = raw \cap BitMask(l.length)
    BY <1>1, <1>2, <1>3, ReadsBack
  <2> QED BY Zenon, <1>1, <1>5, <2>1 DEF Carries, l, raw
<1>8. ASSUME NEW j \in DOMAIN after, j # i
      PROVE  Carries(m, n, e, j, noted[j])
  <2> DEFINE b == m.signals[j].layout
  <2>1. j \in DOMAIN noted /\ ~Overlaps(l, b)
    BY <1>8 DEF Noted, l
  <2>2. Carries(m, n, d, j, noted[j])
    BY <2>1 DEF Means
  <2>3. j \in DOMAIN m.signals /\ Fits(b, n)
    BY <2>2 DEF Carries
  <2>4. b.start \in Nat /\ b.order \in ByteOrder
    BY <2>3, LayoutsAreBuilt
  <2> HIDE DEF b, e
  <2>5. DecodeRaw(b, e) = DecodeRaw(b, d)
    BY <1>1, <1>2, <2>1, <2>3, <2>4, NotOverlappingIsUntouched DEF e
  <2> QED BY Zenon, <2>2, <2>5 DEF Carries, b
<1>9. \A j \in DOMAIN after : after[j] = IF j = i THEN v ELSE noted[j]
  BY DEF Noted
<1> HIDE DEF after, e
<1>10. \A j \in DOMAIN after : Carries(m, n, e, j, after[j])
  <2> TAKE j \in DOMAIN after
  <2>1. CASE j = i
    BY Zenon, <1>7, <1>9, <2>1
  <2>2. CASE j # i
    BY Zenon, <1>8, <1>9, <2>2
  <2> QED BY <2>1, <2>2
<1> QED BY <1>4, <1>6, <1>10 DEF Means, after

(* What encode() writes is exact, and after the last write the payload     *)
(* carries what has been noted.                                            *)
LEMMA WritesAreExact ==
  ASSUME NEW m \in Messages, NEW values \in Compositions(m), ValuesAreExact(m)
  PROVE  \A k \in 1..Len(Writes(m, values)) :
           LET w == Writes(m, values)[k]
           IN  w.at \in DOMAIN m.signals => IsExact(m.signals[w.at].layout, w.value)
<1> DEFINE writes == Writes(m, values)
<1>1. writes \in Seq(WritesOf(m, values))
  BY WritesAreOfSignals
<1> HIDE DEF writes
<1>2. \A k \in 1..Len(writes) : writes[k] \in WritesOf(m, values)
  BY <1>1
<1>3. ASSUME NEW w \in WritesOf(m, values), w.at \in DOMAIN m.signals
      PROVE  IsExact(m.signals[w.at].layout, w.value)
  <2>1. CASE w.value = m.signals[w.at].start /\ w.value # NaN
    BY <1>3, <2>1 DEF ValuesAreExact
  <2>2. CASE \E k \in DOMAIN values : w.at = FindSignal(m, values[k].name) /\ w.value = values[k].value
    BY <1>3, <2>2 DEF ValuesAreExact
  <2> QED BY <2>1, <2>2 DEF WritesOf
<1> QED BY <1>2, <1>3 DEF writes

LEMMA ComposingIsNoted ==
  ASSUME NEW m \in Messages, NEW values \in Compositions(m), ValuesAreExact(m),
         Encode(m, values).status = "ok"
  PROVE  Means(m, m.dlc, Encode(m, values).data, NotedAll(m, Writes(m, values)))
<1> DEFINE writes == Writes(m, values)
           L == Len(writes)
           f == CHOOSE h : EncodedUp(h, L, m, writes)
           g == CHOOSE h : NotedUp(h, L, m, writes)
<1>1. /\ L \in Nat
      /\ \A k \in 1..L : writes[k].at \in {0} \cup DOMAIN m.signals
  <2>1. writes \in Seq(WritesOf(m, values))
    BY WritesAreOfSignals
  <2> HIDE DEF writes
  <2>2. L \in Nat /\ \A k \in 1..L : writes[k] \in WritesOf(m, values)
    BY <2>1
  <2> QED BY <2>2 DEF WritesOf
<1>2. \A k \in 1..L : writes[k].at \in DOMAIN m.signals =>
                        IsExact(m.signals[writes[k].at].layout, writes[k].value)
  BY WritesAreExact
<1>3. EncodedUp(f, L, m, writes) /\ NotedUp(g, L, m, writes)
  BY <1>1, EncodedExists, NotedExists
<1>4. NotedAll(m, writes) = g[L]
  BY DEF NotedAll, NotedUp
<1>5. m.dlc \in 0..64
  BY Zenon, MessagesAreBuilt DEF MessagesAreBuilt
<1>6. Encode(m, values) = IF m.dlc > FrameCapacity THEN [status |-> "too large", data |-> Empty(0)]
                          ELSE f[L]
  BY Zenon DEF Encode, EncodedUp, StatusOf
<1> HIDE DEF f, g, L, writes
<1>7. Encode(m, values) = f[L]
  <2> SUFFICES ASSUME m.dlc > FrameCapacity PROVE FALSE
    BY Zenon, <1>6
  <2>1. Encode(m, values) = [status |-> "too large", data |-> Empty(0)]
    BY Zenon, <1>6
  <2>2. [status |-> "too large", data |-> Empty(0)].status = "too large"
    OBVIOUS
  <2>3. Encode(m, values).status = "ok"
    OBVIOUS
  <2> QED BY <2>1, <2>2, <2>3
<1> DEFINE R == [status : {"ok"}, data : Payload(m.dlc)]
           Holds(n) == f[n].status = "ok" =>
                         f[n] \in R /\ Means(m, m.dlc, f[n].data, g[n])
           T == {n \in Nat : n <= L => Holds(n)}
<1> HIDE DEF Holds
<1>8. 0 \in T
  <2>1. f[0] = [status |-> "ok", data |-> Empty(m.dlc)] /\ g[0] = [i \in {} |-> 0]
    BY <1>1, <1>3 DEF EncodedUp, NotedUp
  <2>2. Empty(m.dlc) \in Payload(m.dlc)
    BY <1>5 DEF Empty, Payload, Byte
  <2>3. DOMAIN g[0] = {}
    BY <2>1
  <2>4. Means(m, m.dlc, f[0].data, g[0])
    BY Zenon, <2>3 DEF Means
  <2>5. f[0] \in R
    <3>1. [status |-> "ok", data |-> Empty(m.dlc)] \in R
      BY <2>2
    <3> HIDE DEF R
    <3> QED BY Zenon, <2>1, <3>1
  <2> QED BY <2>4, <2>5 DEF Holds
<1>9. ASSUME NEW n \in T PROVE n + 1 \in T
  <2> SUFFICES ASSUME n + 1 <= L, f[n + 1].status = "ok"
               PROVE  f[n + 1] \in R /\ Means(m, m.dlc, f[n + 1].data, g[n + 1])
    BY DEF Holds
  <2> DEFINE w == writes[n + 1]
             k == n + 1
  <2>1. k \in 0..L /\ k \in 1..L /\ k # 0 /\ k - 1 = n /\ Holds(n)
    BY <1>1
  <2> HIDE DEF T, k
  <2>2. f[k] = (IF f[k - 1].status # "ok" THEN f[k - 1]
                ELSE IF StatusOf(m, writes[k]) # "ok" THEN [f[k - 1] EXCEPT !.status = StatusOf(m, writes[k])]
                ELSE [f[k - 1] EXCEPT !.data = Encoded(m, writes[k].at, writes[k].value, @)])
        /\ g[k] = Noted(m, g[k - 1], writes[k].at, writes[k].value)
    BY <1>3, <2>1 DEF EncodedUp, NotedUp
  <2>3. /\ f[n + 1] = (IF f[n].status # "ok" THEN f[n]
                       ELSE IF StatusOf(m, w) # "ok" THEN [f[n] EXCEPT !.status = StatusOf(m, w)]
                       ELSE [f[n] EXCEPT !.data = Encoded(m, w.at, w.value, @)])
        /\ g[n + 1] = Noted(m, g[n], w.at, w.value)
    BY <2>1, <2>2 DEF k
  <2>4. w.at \in {0} \cup DOMAIN m.signals
    BY <1>1, <2>1 DEF k
  <2>5. w.at \in DOMAIN m.signals => IsExact(m.signals[w.at].layout, w.value)
    BY <1>2, <2>1 DEF k
  <2> HIDE DEF w
  <2>6. f[n].status = "ok"
    BY <2>3
  <2>7. f[n] \in R /\ Means(m, m.dlc, f[n].data, g[n])
    BY <2>1, <2>6 DEF Holds
  <2>8. StatusOf(m, w) = "ok"
    <3> SUFFICES ASSUME StatusOf(m, w) # "ok" PROVE FALSE
      OBVIOUS
    <3>1. f[n + 1] = [f[n] EXCEPT !.status = StatusOf(m, w)]
      BY <2>3, <2>6
    <3>2. f[n + 1].status = StatusOf(m, w)
      BY <2>7, <3>1
    <3> QED BY <3>2
  <2>9. w.at \in DOMAIN m.signals /\ EncodeError(m.signals[w.at].layout, w.value, m.dlc) = "ok"
    BY <2>4, <2>8 DEF StatusOf
  <2>10. /\ Encoded(m, w.at, w.value, f[n].data) \in Payload(m.dlc)
         /\ Means(m, m.dlc, Encoded(m, w.at, w.value, f[n].data), Noted(m, g[n], w.at, w.value))
    <3>1. f[n].data \in Payload(m.dlc)
      BY <2>7
    <3> HIDE DEF R
    <3> QED BY <1>5, <2>5, <2>7, <2>9, <3>1, WritingIsNoted
  <2>11. f[n + 1] = [f[n] EXCEPT !.data = Encoded(m, w.at, w.value, f[n].data)]
    BY <2>3, <2>6, <2>8
  <2>12. f[n + 1] \in R /\ f[n + 1].data = Encoded(m, w.at, w.value, f[n].data)
    BY <2>7, <2>10, <2>11
  <2> QED BY Zenon, <2>3, <2>10, <2>12
<1>10. Nat \subseteq T
  <2> HIDE DEF T
  <2>1. T \subseteq Nat
    BY DEF T
  <2> QED BY <1>8, <1>9, <2>1, SetInduction
<1>11. Holds(L)
  BY <1>1, <1>10
<1>12. f[L].status = "ok"
  BY Zenon, <1>7
<1> QED BY Zenon, <1>4, <1>7, <1>11, <1>12 DEF Holds, writes

-----------------------------------------------------------------------------
(* In every state the frame carries what is meant.                         *)
MeantInv == Means(message, PayloadSize(frame), frame, meant)

LEMMA MeantInvHolds ==
  (\A m \in Messages : ValuesAreExact(m)) => (CodecSpec => []MeantInv)
<1> SUFFICES ASSUME \A m \in Messages : ValuesAreExact(m) PROVE CodecSpec => []MeantInv
  OBVIOUS
<1>1. CodecInit => MeantInv
  <2> SUFFICES ASSUME CodecInit PROVE MeantInv
    OBVIOUS
  <2>1. DOMAIN meant = {}
    BY DEF CodecInit
  <2> QED BY <2>1 DEF MeantInv, Means
<1>2. CodecInv /\ CodecInv' /\ MeantInv /\ [CodecNext]_codecVars => MeantInv'
  <2> SUFFICES ASSUME CodecInv, CodecInv', MeantInv, [CodecNext]_codecVars PROVE MeantInv'
    OBVIOUS
  <2> DEFINE size == PayloadSize(frame)
  <2>1. /\ message \in Messages /\ size \in 0..64 /\ size \in Nat /\ frame \in Payload(size)
        /\ Means(message, size, frame, meant)
    BY DEF CodecInv, CodecTypeOK, MeantInv
  <2>2. ASSUME message' = message, NEW n \in Nat, frame' \in Payload(n), Means(message, n, frame', meant')
        PROVE  MeantInv'
    <3>1. PayloadSize(frame') = n
      BY <2>2, PayloadSizeIs
    <3> QED BY <2>2, <3>1 DEF MeantInv
  <2> HIDE DEF size
  <2>3. ASSUME NEW values \in Compositions(message), Compose(values)
        PROVE  MeantInv'
    <3>1. /\ Encode(message, values).status = "ok" /\ frame' = Encode(message, values).data
          /\ meant' = NotedAll(message, Writes(message, values)) /\ message' = message
      BY <2>3 DEF Compose
    <3>2. frame' \in Payload(message.dlc)
      BY <2>1, <3>1, EncodeMakesAPayload
    <3>3. message.dlc \in Nat
      <4>1. message.dlc \in 0..64
        BY Zenon, <2>1, MessagesAreBuilt DEF MessagesAreBuilt
      <4> QED BY <4>1
    <3>4. ValuesAreExact(message)
      BY <2>1
    <3>5. Means(message, message.dlc, frame', meant')
      BY <2>1, <3>1, <3>4, ComposingIsNoted
    <3> QED BY <2>2, <3>1, <3>2, <3>3, <3>5
  <2>4. ASSUME NEW i \in SignalsOf(message), NEW v \in Values(LayoutOf(i)), Update(i, v)
        PROVE  MeantInv'
    <3>1. /\ EncodeError(message.signals[i].layout, v, size) = "ok"
          /\ frame' = Encoded(message, i, v, frame)
          /\ meant' = Noted(message, meant, i, v) /\ message' = message
      BY <2>4 DEF Update, LayoutOf, size
    <3>2. i \in DOMAIN message.signals /\ IsExact(message.signals[i].layout, v)
      BY <2>1, <2>4 DEF SignalsOf, LayoutOf, ValuesAreExact
    <3>3. frame' \in Payload(size) /\ Means(message, size, frame', meant')
      BY <2>1, <3>1, <3>2, WritingIsNoted
    <3> QED BY <2>1, <2>2, <3>1, <3>3
  <2>5. ASSUME NEW i \in SignalsOf(message), NEW w, UpdateRaw(i, w)
        PROVE  MeantInv'
    <3> DEFINE l == message.signals[i].layout
    <3>1. /\ Fits(l, size) /\ frame' = EncodeRaw(l, w, frame) /\ message' = message
          /\ meant' = [j \in {j \in DOMAIN meant : ~Overlaps(l, message.signals[j].layout)} |-> meant[j]]
      BY <2>5 DEF UpdateRaw, Fitting, LayoutOf, size
    <3>2. l.start \in Nat /\ l.order \in ByteOrder
      BY <2>1, LayoutsAreBuilt DEF SignalsOf
    <3> HIDE DEF l
    <3>3. frame' \in Payload(size)
      BY <2>1, <3>1, <3>2, EncodeIsAPayload
    <3>4. ASSUME NEW j \in DOMAIN meant'
          PROVE  Carries(message, size, frame', j, meant'[j])
      <4> DEFINE b == message.signals[j].layout
      <4>1. j \in DOMAIN meant /\ ~Overlaps(l, b) /\ meant'[j] = meant[j]
        BY <3>1
      <4>2. Carries(message, size, frame, j, meant[j])
        BY <2>1, <4>1 DEF Means
      <4>3. j \in DOMAIN message.signals /\ Fits(b, size)
        BY <4>2 DEF Carries
      <4>4. b.start \in Nat /\ b.order \in ByteOrder
        BY <2>1, <4>3, LayoutsAreBuilt
      <4> HIDE DEF b
      <4>5. DecodeRaw(b, frame') = DecodeRaw(b, frame)
        BY <2>1, <3>1, <3>2, <4>1, <4>3, <4>4, NotOverlappingIsUntouched
      <4> QED BY Zenon, <4>1, <4>2, <4>5 DEF Carries, b
    <3>5. Means(message, size, frame', meant')
      BY <3>4 DEF Means
    <3> QED BY <2>1, <2>2, <3>1, <3>3, <3>5
  <2>6. ASSUME NEW n \in 0..(size - 1), Shorten(n)
        PROVE  MeantInv'
    <3>1. n \in 0..size /\ n \in Nat
      BY <2>1
    <3>2. /\ frame' = Front(frame, n) /\ message' = message
          /\ meant' = [i \in {i \in DOMAIN meant : Fits(message.signals[i].layout, n)} |-> meant[i]]
      BY <2>6 DEF Shorten, Front, LayoutOf
    <3>3. frame' \in Payload(n)
      BY <2>1, <3>1, <3>2, FrontIsAPayload
    <3>4. ASSUME NEW i \in DOMAIN meant'
          PROVE  Carries(message, n, frame', i, meant'[i])
      <4> DEFINE l == message.signals[i].layout
      <4>1. i \in DOMAIN meant /\ Fits(l, n) /\ meant'[i] = meant[i]
        BY <3>2
      <4>2. Carries(message, size, frame, i, meant[i])
        BY <2>1, <4>1 DEF Means
      <4>3. i \in DOMAIN message.signals
        BY <4>2 DEF Carries
      <4>4. l.start \in Nat /\ l.order \in ByteOrder
        BY <2>1, <4>3, LayoutsAreBuilt
      <4> HIDE DEF l
      <4>5. DecodeRaw(l, frame') = DecodeRaw(l, frame)
        BY <2>1, <3>1, <3>2, <4>1, <4>4, FrontReads
      <4> QED BY Zenon, <4>1, <4>2, <4>5 DEF Carries, l
    <3>5. Means(message, n, frame', meant')
      BY <3>4 DEF Means
    <3> QED BY <2>2, <3>1, <3>2, <3>3, <3>5
  <2>7. CASE UNCHANGED codecVars
    BY <2>1, <2>2, <2>7 DEF codecVars
  <2> QED BY <2>3, <2>4, <2>5, <2>6, <2>7 DEF CodecNext, size
<1> QED BY <1>1, <1>2, CodecInvHolds, PTL DEF CodecSpec

LEMMA MeantIsRead ==
  ASSUME MeantInv
  PROVE  SignalsKeepTheirValues
<1> SUFFICES ASSUME NEW i \in DOMAIN meant
             PROVE  Reads(LayoutOf(i), meant[i], RawOf(message, i, frame))
  BY Zenon DEF SignalsKeepTheirValues, Reads, ValueOf, LayoutOf
<1> DEFINE l == message.signals[i].layout
           v == meant[i]
<1>1. Carries(message, PayloadSize(frame), frame, i, v)
  BY DEF MeantInv, Means
<1>2. /\ Fits(l, PayloadSize(frame)) /\ IsExact(l, v) /\ (IsFloat(l) \/ IsFinite(v))
      /\ DecodeRaw(l, frame) = PhysicalToRaw(l, v) \cap BitMask(l.length)
  BY Zenon, <1>1 DEF Carries
<1>3. l.length \in 1..64
  BY <1>2 DEF Fits
<1> HIDE DEF l, v
<1>4. Reads(l, v, PhysicalToRaw(l, v) \cap BitMask(l.length))
  BY <1>2, <1>3, ValueIsHeld
<1> QED BY Zenon, <1>2, <1>4 DEF RawOf, LayoutOf, l, v

(* In every state of the codec, whatever was written beside it since and   *)
(* however short the frame became, a signal reads within half a raw step   *)
(* of the value written, limited to its range and its width; and a value   *)
(* has the text of the raw value nearest to it: for every layout of an     *)
(* integer signal of up to 53 bits and every float that the format holds   *)
(* (encode(), physical_to_raw(), raw_to_physical(), describe()).           *)
THEOREM SignalsSurvive ==
  (\A m \in Messages : ValuesAreExact(m)) => (CodecSpec => []ValuesSurvive)
<1> SUFFICES ASSUME \A m \in Messages : ValuesAreExact(m)
             PROVE  CodecSpec => []ValuesSurvive
  OBVIOUS
<1>1. CodecInv /\ MeantInv => ValuesSurvive
  BY MeantIsRead, TextsAreOfNearest DEF CodecInv, ValuesSurvive
<1> QED BY <1>1, CodecInvHolds, MeantInvHolds, PTL
=============================================================================
