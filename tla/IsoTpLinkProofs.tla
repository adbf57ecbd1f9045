-------------------------- MODULE IsoTpLinkProofs --------------------------
(***************************************************************************)
(* A Sender and a Receiver over a bus on which one transfer is under way   *)
(* at a time, for every value of the constants: whatever is delayed, timed *)
(* out or lost, the messages taken out are those handed in, whole and in   *)
(* order.  The link implements Mailbox.                                    *)
(*                                                                         *)
(* LinkInv is the inductive invariant.  The frames of the latest message   *)
(* that are under way continue it where the receiver stands, up to where   *)
(* the sender stands; and what the receiver has buffered is the message up *)
(* to there, or, after a gap that the four bits of the sequence number     *)
(* could not tell, too little ever to become whole.                        *)
(***************************************************************************)
EXTENDS IsoTpLink, Integers, SequenceTheorems, TLAPS

-----------------------------------------------------------------------------
(* Slices of a message, and frames that are padded to their size.          *)
LEMMA SliceOf ==
  ASSUME NEW m \in Seq(Byte), NEW p \in Nat, NEW n \in Nat, p + n <= Len(m)
  PROVE  SubSeq(m, p + 1, p + n) \in Seq(Byte) /\ Len(SubSeq(m, p + 1, p + n)) = n
<1>1. \A i \in (p + 1)..(p + n) : m[i] \in Byte
  BY LenProperties, ElementOfSeq
<1> QED BY <1>1, SubSeqProperties

LEMMA FrontOf ==
  ASSUME NEW m \in Seq(Byte), NEW n \in Nat, n <= Len(m)
  PROVE  SubSeq(m, 1, n) \in Seq(Byte) /\ Len(SubSeq(m, 1, n)) = n
<1>1. \A i \in 1..n : m[i] \in Byte
  BY LenProperties, ElementOfSeq
<1> QED BY <1>1, SubSeqProperties

LEMMA FrontOfPadded ==
  ASSUME NEW data \in Seq(Byte), NEW pci \in Nat, Header + pci + Len(data) <= FrameBytes
  PROVE  LET all == Padded(data, pci)
         IN  /\ all \in Seq(Byte)
             /\ Len(all) = Len(data) \/ Len(all) = FrameBytes - Header - pci
             /\ SubSeq(all, 1, Len(data)) = data
<1> DEFINE size == Len(data)
           room == FrameBytes - Header - pci - size
           fill == [i \in 1..room |-> Pad]
           all == Padded(data, pci)
<1>1. /\ size \in Nat /\ room \in Nat /\ FrameBytes \in Nat /\ Header \in Nat
      /\ size + room = FrameBytes - Header - pci
  BY ProtocolAssumption, LenProperties DEF ProtocolAssumption
<1>2. CASE PadFrames /\ ~UseCanFd
  <2>1. fill \in Seq(Byte) /\ Len(fill) = room
    <3>1. \A n \in Nat : [i \in 1..n |-> Pad] \in Seq(Byte) /\ Len([i \in 1..n |-> Pad]) = n
      BY ConfigAssumption DEF ConfigAssumption
    <3> HIDE DEF room
    <3> QED BY <1>1, <3>1
  <2>2. all = data \o fill
    BY <1>2 DEF Padded
  <2> HIDE DEF fill, all, room
  <2>3. /\ all \in Seq(Byte) /\ Len(all) = Len(data) + Len(fill)
        /\ \A i \in 1..(Len(data) + Len(fill)) :
             all[i] = IF i <= Len(data) THEN data[i] ELSE fill[i - Len(data)]
    BY <2>1, <2>2, ConcatProperties
  <2>6. /\ Len(all) = size + room
        /\ \A i \in 1..size : all[i] = data[i]
    BY <1>1, <2>1, <2>3
  <2>4. /\ SubSeq(all, 1, size) \in Seq(Byte) /\ Len(SubSeq(all, 1, size)) = size
        /\ \A i \in 1..size : SubSeq(all, 1, size)[i] = all[i]
    <3>1. \A i \in 1..size : all[i] \in Byte
      BY <1>1, <2>3, <2>6, ElementOfSeq
    <3> QED BY <1>1, <3>1, SubSeqProperties
  <2>5. SubSeq(all, 1, size) = data
    BY <2>3, <2>4, <2>6, SeqEqual
  <2> QED BY <1>1, <2>3, <2>5, <2>6 DEF all
<1>3. CASE ~(PadFrames /\ ~UseCanFd)
  <2>1. all = data
    BY <1>3 DEF Padded
  <2> HIDE DEF all
  <2> QED BY <2>1, SubSeqFull DEF all
<1> QED BY <1>2, <1>3

-----------------------------------------------------------------------------
(* The frames of a message: the one that begins at byte p, how much of it  *)
(* that takes, and where the next one begins.                              *)
FirstPart(m) == Smaller(FirstRoom(Len(m)), Len(m))
Takes(m, p) ==
  IF p # 0 THEN Smaller(ConsecutiveRoom, Len(m) - p)
  ELSE IF Len(m) <= SingleMax THEN Len(m) ELSE FirstPart(m)
After(m, p) == p + Takes(m, p)
FrameAt(f, m, p) ==
  IF p # 0
  THEN \E sn : f = ConsecutiveFrame(sn, Padded(SubSeq(m, p + 1, After(m, p)), 1))
  ELSE IF Len(m) <= SingleMax
  THEN f = SingleFrame(Len(m), Padded(m, 1))
  ELSE f = FirstFrame(Len(m), Padded(SubSeq(m, 1, FirstPart(m)), FirstPciBytes(Len(m))))

Sendable(m) == m \in Seq(Byte) /\ Len(m) \in Nat \ {0}

LEMMA Rooms ==
  /\ SingleMax \in Nat /\ ConsecutiveRoom \in Nat \ {0} /\ SingleMax = ConsecutiveRoom
  /\ \A size \in Nat :
       /\ FirstPciBytes(size) \in Nat /\ FirstRoom(size) \in Nat \ {0}
       /\ FirstRoom(size) < SingleMax
       /\ Header + FirstPciBytes(size) + FirstRoom(size) = FrameBytes
BY ProtocolAssumption
   DEF ProtocolAssumption, SingleMax, ConsecutiveRoom, FirstRoom, FirstPciBytes

LEMMA AfterIs ==
  ASSUME NEW m, Sendable(m), NEW p \in Nat, p < Len(m)
  PROVE  /\ Takes(m, p) \in Nat \ {0} /\ After(m, p) \in Nat
         /\ p < After(m, p) /\ After(m, p) <= Len(m)
         /\ p # 0 => Takes(m, p) <= ConsecutiveRoom
                     /\ (After(m, p) < Len(m) => Takes(m, p) = ConsecutiveRoom)
         /\ p = 0 /\ Len(m) > SingleMax => After(m, p) = FirstRoom(Len(m))
                                           /\ After(m, p) = FirstPart(m)
         /\ p = 0 /\ Len(m) <= SingleMax => After(m, p) = Len(m)
<1> DEFINE n == Len(m)
           c == ConsecutiveRoom
           f == FirstRoom(n)
           x == SingleMax
<1>1. n \in Nat \ {0} /\ c \in Nat \ {0} /\ f \in Nat \ {0} /\ f < x /\ x \in Nat
  BY Rooms DEF Sendable
<1>2. Takes(m, p) = IF p # 0 THEN (IF c <= n - p THEN c ELSE n - p)
                    ELSE IF n <= x THEN n ELSE IF f <= n THEN f ELSE n
  BY DEF Takes, Smaller, FirstPart
<1>3. FirstPart(m) = IF f <= n THEN f ELSE n
  BY DEF Smaller, FirstPart
<1> HIDE DEF n, c, f, x
<1>4. Takes(m, p) \in Nat /\ p < n
  BY <1>1, <1>2 DEF n
<1>5. /\ Takes(m, p) # 0 /\ p + Takes(m, p) <= n
      /\ p # 0 => Takes(m, p) <= c /\ (p + Takes(m, p) < n => Takes(m, p) = c)
      /\ p = 0 /\ n > x => Takes(m, p) = f /\ f = FirstPart(m)
      /\ p = 0 /\ n <= x => Takes(m, p) = n
  BY <1>1, <1>2, <1>3, <1>4
<1> QED BY <1>4, <1>5 DEF After, n, c, f, x

(* What each kind of frame carries.                                        *)
LEMMA SingleCarries ==
  ASSUME NEW m, Sendable(m), Len(m) <= SingleMax, NEW f, FrameAt(f, m, 0)
  PROVE  /\ f.pci = "SF" /\ f.num = Len(m)
         /\ SubSeq(f.data, 1, Len(m)) = m
<1>1. f = SingleFrame(Len(m), Padded(m, 1))
  BY DEF FrameAt
<1>2. Header + 1 + Len(m) <= FrameBytes
  BY ProtocolAssumption DEF ProtocolAssumption, SingleMax, Sendable
<1>3. SubSeq(Padded(m, 1), 1, Len(m)) = m
  BY <1>2, FrontOfPadded DEF Sendable
<1> QED BY <1>1, <1>3 DEF SingleFrame

LEMMA FirstCarries ==
  ASSUME NEW m, Sendable(m), Len(m) > SingleMax, NEW f, FrameAt(f, m, 0)
  PROVE  /\ f.pci = "FF" /\ f.num = Len(m)
         /\ SubSeq(f.data, 1, Smaller(Len(f.data), f.num)) = SubSeq(m, 1, After(m, 0))
<1> DEFINE n == Len(m)
           t == FirstPart(m)
           slice == SubSeq(m, 1, t)
           pci == FirstPciBytes(n)
           all == Padded(slice, pci)
<1>1. f = FirstFrame(n, all)
  BY Rooms DEF FrameAt, Sendable
<1>2. /\ n \in Nat /\ t = FirstRoom(n) /\ t = After(m, 0) /\ t \in Nat /\ t <= n
      /\ pci \in Nat /\ Header + pci + t = FrameBytes
  <2>1. 0 \in Nat /\ 0 < n /\ n \in Nat
    BY DEF Sendable
  <2>2. /\ After(m, 0) = FirstRoom(n) /\ After(m, 0) = t
        /\ After(m, 0) \in Nat /\ After(m, 0) <= n
    BY <2>1, AfterIs
  <2> QED BY <2>1, <2>2, Rooms
<1> HIDE DEF n, t, pci
<1>3. slice \in Seq(Byte) /\ Len(slice) = t
  BY <1>2, FrontOf DEF n, Sendable
<1> HIDE DEF slice
<1>4. (Len(all) = t \/ Len(all) = FrameBytes - Header - pci) /\ SubSeq(all, 1, t) = slice
  <2>1. Header + pci + Len(slice) <= FrameBytes
    BY <1>2, <1>3, ProtocolAssumption DEF ProtocolAssumption
  <2> QED BY <2>1, <1>2, <1>3, FrontOfPadded
<1>5. Len(all) = t
  BY <1>2, <1>4, ProtocolAssumption DEF ProtocolAssumption
<1> HIDE DEF all
<1>6. f.pci = "FF" /\ f.num = n /\ f.data = all
  BY <1>1 DEF FirstFrame
<1>7. Smaller(Len(f.data), f.num) = t
  BY <1>2, <1>5, <1>6 DEF Smaller
<1> QED BY <1>2, <1>4, <1>6, <1>7 DEF n, slice

LEMMA ConsecutiveCarries ==
  ASSUME NEW m, Sendable(m), NEW p \in Nat \ {0}, p < Len(m), NEW f, FrameAt(f, m, p)
  PROVE  /\ f.pci = "CF" /\ f.data \in Seq(Byte) /\ Len(f.data) \in Nat
         /\ Len(f.data) = Takes(m, p) \/ Len(f.data) = ConsecutiveRoom
         /\ SubSeq(f.data, 1, Takes(m, p)) = SubSeq(m, p + 1, After(m, p))
<1> DEFINE t == Takes(m, p)
           slice == SubSeq(m, p + 1, p + t)
           all == Padded(slice, 1)
<1>1. t \in Nat /\ p + t <= Len(m) /\ t <= ConsecutiveRoom /\ After(m, p) = p + t
  BY AfterIs DEF After
<1>2. PICK sn : f = ConsecutiveFrame(sn, all)
  BY DEF FrameAt, After
<1> HIDE DEF t
<1>3. slice \in Seq(Byte) /\ Len(slice) = t
  BY <1>1, SliceOf DEF Sendable
<1>4. Header + 1 + t <= FrameBytes /\ ConsecutiveRoom = FrameBytes - Header - 1
  BY <1>1, ProtocolAssumption DEF ProtocolAssumption, ConsecutiveRoom
<1> HIDE DEF slice
<1>5. /\ all \in Seq(Byte) /\ (Len(all) = t \/ Len(all) = FrameBytes - Header - 1)
      /\ SubSeq(all, 1, t) = slice
  BY <1>3, <1>4, FrontOfPadded
<1> HIDE DEF all
<1>6. f.pci = "CF" /\ f.data = all
  BY <1>2 DEF ConsecutiveFrame
<1> QED BY <1>1, <1>4, <1>5, <1>6, LenProperties DEF slice, t

-----------------------------------------------------------------------------
(* The frames under way are those of m from byte p on; the next to be sent *)
(* begins at byte e.                                                       *)
Begins(at, q, m, p, e) ==
  /\ at[1] = p /\ at[Len(q) + 1] = e
  /\ \A j \in 1..Len(q) :
       at[j] < Len(m) /\ FrameAt(q[j], m, at[j]) /\ at[j + 1] = After(m, at[j])

OnWay(q, m, p, e) ==
  /\ q \in Seq(DataPdu) /\ p \in Nat /\ e \in Nat
  /\ \E at \in [1..(Len(q) + 1) -> Nat] : Begins(at, q, m, p, e)

LEMMA NothingOnWay ==
  ASSUME NEW m, NEW e \in Nat
  PROVE  OnWay(<<>>, m, e, e)
<1> DEFINE at == [j \in 1..1 |-> e]
<1>1. at \in [1..(Len(<<>>) + 1) -> Nat]
  OBVIOUS
<1>2. Begins(at, <<>>, m, e, e)
  BY DEF Begins
<1> QED BY <1>1, <1>2 DEF OnWay

LEMMA MoreOnWay ==
  ASSUME NEW m, Sendable(m), NEW q, NEW p, NEW e, OnWay(q, m, p, e), e < Len(m),
         NEW f \in DataPdu, FrameAt(f, m, e)
  PROVE  OnWay(Append(q, f), m, p, After(m, e))
<1> DEFINE n == Len(q)
           more == Append(q, f)
           next == After(m, e)
<1>1. PICK at \in [1..(n + 1) -> Nat] : Begins(at, q, m, p, e)
  BY DEF OnWay
<1>2. n \in Nat /\ q \in Seq(DataPdu) /\ p \in Nat /\ e \in Nat /\ next \in Nat
  BY AfterIs, LenProperties DEF OnWay
<1> DEFINE later == [j \in 1..(n + 1 + 1) |-> IF j <= n + 1 THEN at[j] ELSE next]
<1>3. /\ more \in Seq(DataPdu) /\ Len(more) = n + 1
      /\ \A j \in 1..n : more[j] = q[j]
      /\ more[n + 1] = f
  BY <1>2, AppendProperties
<1> HIDE DEF next, more, n
<1>4. later \in [1..(n + 1 + 1) -> Nat]
  BY <1>2
<1>5. /\ later[1] = p /\ later[n + 1] = e /\ later[n + 1 + 1] = next
      /\ \A j \in 1..n : later[j] = at[j] /\ later[j + 1] = at[j + 1]
  BY <1>1, <1>2 DEF Begins, n
<1> HIDE DEF later
<1>6. ASSUME NEW j \in 1..(n + 1)
      PROVE  later[j] < Len(m) /\ FrameAt(more[j], m, later[j])
             /\ later[j + 1] = After(m, later[j])
  <2>1. CASE j = n + 1
    BY <2>1, <1>3, <1>5 DEF next
  <2>2. CASE j \in 1..n
    <3>1. at[j] < Len(m) /\ FrameAt(q[j], m, at[j]) /\ at[j + 1] = After(m, at[j])
      BY <2>2, <1>1 DEF Begins, n
    <3> QED BY <3>1, <2>2, <1>3, <1>5
  <2> QED BY <2>1, <2>2, <1>2
<1>7. Begins(later, more, m, p, next)
  BY <1>3, <1>5, <1>6 DEF Begins
<1> QED BY <1>2, <1>3, <1>4, <1>7 DEF OnWay, more, next

LEMMA FirstOnWay ==
  ASSUME NEW m, Sendable(m), NEW q, NEW p, NEW e, OnWay(q, m, p, e), q # <<>>
  PROVE  /\ p \in Nat /\ p < Len(m) /\ Head(q) \in DataPdu /\ FrameAt(Head(q), m, p)
         /\ OnWay(Tail(q), m, After(m, p), e)
<1> DEFINE n == Len(q)
           rest == Tail(q)
           next == After(m, p)
<1>1. PICK at \in [1..(n + 1) -> Nat] : Begins(at, q, m, p, e)
  BY DEF OnWay
<1>2. q \in Seq(DataPdu) /\ p \in Nat /\ e \in Nat
  BY DEF OnWay
<1>3. n \in Nat \ {0} /\ Head(q) = q[1] /\ Head(q) \in DataPdu
  BY <1>2, EmptySeq, LenProperties, HeadTailProperties, ElementOfSeq
<1>4. /\ rest \in Seq(DataPdu) /\ Len(rest) = n - 1
      /\ \A j \in 1..(n - 1) : rest[j] = q[j + 1]
  BY <1>2, <1>3, HeadTailProperties
<1> HIDE DEF n, rest, next
<1>5. p < Len(m) /\ FrameAt(q[1], m, p) /\ at[2] = next
  <2>1. 1 \in 1..n /\ 1 + 1 = 2
    BY <1>3
  <2>2. at[1] = p
    BY <1>1 DEF Begins
  <2> QED BY <2>1, <2>2, <1>1 DEF Begins, n, next
<1>6. next \in Nat
  BY <1>2, <1>5, AfterIs DEF next
<1> DEFINE later == [j \in 1..(n - 1 + 1) |-> at[j + 1]]
<1>7. later \in [1..(n - 1 + 1) -> Nat]
  BY <1>1, <1>3 DEF n
<1>8. /\ later[1] = next /\ later[n - 1 + 1] = e
      /\ \A j \in 1..(n - 1) : later[j] = at[j + 1] /\ later[j + 1] = at[j + 1 + 1]
  <2>1. at[n + 1] = e
    BY <1>1 DEF Begins, n
  <2> QED BY <2>1, <1>3, <1>5
<1> HIDE DEF later
<1>9. ASSUME NEW j \in 1..(n - 1)
      PROVE  later[j] < Len(m) /\ FrameAt(rest[j], m, later[j])
             /\ later[j + 1] = After(m, later[j])
  <2>1. j + 1 \in 1..n
    BY <1>3
  <2>2. /\ at[j + 1] < Len(m) /\ FrameAt(q[j + 1], m, at[j + 1])
        /\ at[j + 1 + 1] = After(m, at[j + 1])
    BY <2>1, <1>1 DEF Begins, n
  <2> QED BY <2>2, <1>4, <1>8
<1>10. Begins(later, rest, m, next, e)
  BY <1>4, <1>8, <1>9 DEF Begins
<1> QED BY <1>2, <1>3, <1>4, <1>5, <1>6, <1>7, <1>10 DEF OnWay, rest, next

-----------------------------------------------------------------------------
(* What the receiver has buffered once the frames up to byte p are gone:   *)
(* those bytes, or, after a gap its sequence number could not tell, too    *)
(* few ever to become whole.                                               *)
Fed(d, m, p) ==
  /\ d \in Seq(Byte)
  /\ \/ d = SubSeq(m, 1, p)
     \/ Len(d) < Len(m) /\ (p < Len(m) => Len(d) + ConsecutiveRoom <= p)

Idles(r) == r.state = "Idle" /\ r.result = "InProgress"
Lost(r) == r.state \in {"Idle", "Finished"} /\ r.result # "Ok"
Refusing(r) == r.state = "SendFlowControl" /\ r.pending = "Overflow" /\ r.result # "Ok"
Filling(r, m, p) ==
  /\ r.state \in {"SendFlowControl", "Receiving"} /\ r.result # "Ok"
  /\ r.expected = Len(m) /\ Fed(r.payload, m, p)
Whole(r, m, p) == r.state = "Finished" /\ r.payload = m /\ p = Len(m)

ReceiverAt(r, m, p) ==
  /\ DOMAIN r = DOMAIN R!FreshReceiver
  /\ IF p = 0 THEN Idles(r)
     ELSE Lost(r) \/ Refusing(r) \/ Filling(r, m, p) \/ Whole(r, m, p)

LEMMA FedLength ==
  ASSUME NEW m, Sendable(m), NEW p \in Nat, p <= Len(m), NEW d, Fed(d, m, p)
  PROVE  /\ Len(d) \in Nat
         /\ d = SubSeq(m, 1, p) => Len(d) = p
<1>1. Len(d) \in Nat
  BY LenProperties DEF Fed
<1>2. Len(SubSeq(m, 1, p)) = p
  BY FrontOf DEF Sendable
<1> QED BY <1>1, <1>2

LEMMA FedAfterLoss ==
  ASSUME NEW m, Sendable(m), NEW p \in Nat \ {0}, p < Len(m), NEW d, Fed(d, m, p)
  PROVE  Fed(d, m, After(m, p))
<1> DEFINE n == Len(m)
           size == Len(d)
           c == ConsecutiveRoom
           next == After(m, p)
<1>1. /\ n \in Nat /\ size \in Nat /\ c \in Nat \ {0} /\ next \in Nat /\ p < n
      /\ next <= n /\ p < next /\ (next < n => next = p + c)
  <2>1. n \in Nat /\ p <= n
    BY DEF Sendable
  <2>2. size \in Nat
    BY <2>1, FedLength
  <2> QED BY <2>1, <2>2, Rooms, AfterIs DEF After
<1>2. size = p \/ (size < n /\ (p < n => size + c <= p))
  BY FedLength DEF Fed
<1> HIDE DEF n, size, c, next
<1>3. size < n /\ (next < n => size + c <= next)
  BY <1>1, <1>2
<1> QED BY <1>3 DEF Fed, n, size, c, next

LEMMA SlicesJoin ==
  ASSUME NEW m \in Seq(Byte), NEW p \in Nat, NEW n \in Nat, p + n <= Len(m)
  PROVE  SubSeq(m, 1, p) \o SubSeq(m, p + 1, p + n) = SubSeq(m, 1, p + n)
<1> DEFINE front == SubSeq(m, 1, p)
           slice == SubSeq(m, p + 1, p + n)
           both == SubSeq(m, 1, p + n)
<1>1. Len(m) \in Nat /\ p <= Len(m)
  BY LenProperties
<1>2. ASSUME NEW i \in 1..Len(m) PROVE m[i] \in Byte
  BY <1>2, ElementOfSeq
<1>3. /\ front \in Seq(Byte) /\ Len(front) = p
      /\ \A i \in 1..p : front[i] = m[i]
  <2>1. \A i \in 1..p : m[i] \in Byte
    BY <1>1, <1>2
  <2> QED BY <2>1, SubSeqProperties
<1>4. /\ slice \in Seq(Byte) /\ Len(slice) = n
      /\ \A i \in 1..n : slice[i] = m[p + i]
  <2>1. \A i \in (p + 1)..(p + n) : m[i] \in Byte
    BY <1>1, <1>2
  <2> QED BY <2>1, SubSeqProperties
<1>5. /\ both \in Seq(Byte) /\ Len(both) = p + n
      /\ \A i \in 1..(p + n) : both[i] = m[i]
  <2>1. \A i \in 1..(p + n) : m[i] \in Byte
    BY <1>1, <1>2
  <2> QED BY <2>1, SubSeqProperties
<1> HIDE DEF front, slice, both
<1>6. /\ front \o slice \in Seq(Byte) /\ Len(front \o slice) = Len(front) + Len(slice)
      /\ \A i \in 1..(Len(front) + Len(slice)) :
           (front \o slice)[i] = IF i <= Len(front) THEN front[i] ELSE slice[i - Len(front)]
  BY <1>3, <1>4, ConcatProperties
<1>7. ASSUME NEW i \in 1..(p + n) PROVE (front \o slice)[i] = both[i]
  <2>1. (front \o slice)[i] = IF i <= p THEN front[i] ELSE slice[i - p]
    BY <1>3, <1>4, <1>6
  <2>2. CASE i <= p
    BY <2>1, <2>2, <1>3, <1>5
  <2>3. CASE ~(i <= p)
    <3>1. i - p \in 1..n /\ p + (i - p) = i
      BY <2>3
    <3> QED BY <2>1, <2>3, <3>1, <1>4, <1>5
  <2> QED BY <2>2, <2>3
<1>8. front \o slice = both
  BY <1>3, <1>4, <1>5, <1>6, <1>7, SeqEqual
<1> QED BY <1>8 DEF front, slice, both

(* What a Consecutive Frame is taken for adds to the buffer.               *)
LEMMA FedByFrame ==
  ASSUME NEW m, Sendable(m), NEW p \in Nat \ {0}, p < Len(m), NEW d, Fed(d, m, p),
         NEW f, FrameAt(f, m, p),
         NEW taken, taken = d \o SubSeq(f.data, 1, Smaller(Len(m) - Len(d), Len(f.data)))
  PROVE  /\ Fed(taken, m, After(m, p))
         /\ Len(taken) >= Len(m) => taken = m /\ After(m, p) = Len(m)
<1> DEFINE n == Len(m)
           size == Len(d)
           c == ConsecutiveRoom
           next == After(m, p)
           t == Takes(m, p)
           room == Len(f.data)
           count == Smaller(n - size, room)
           piece == SubSeq(f.data, 1, count)
<1>1. /\ n \in Nat /\ size \in Nat /\ c \in Nat \ {0} /\ next \in Nat /\ p < n
      /\ next <= n /\ p < next /\ t \in Nat /\ next = p + t /\ t <= c
      /\ next < n => t = c
  <2>1. n \in Nat /\ p <= n
    BY DEF Sendable
  <2>2. size \in Nat
    BY <2>1, FedLength
  <2> QED BY <2>1, <2>2, Rooms, AfterIs DEF After
<1>2. /\ f.data \in Seq(Byte) /\ room \in Nat /\ (room = t \/ room = c)
      /\ SubSeq(f.data, 1, t) = SubSeq(m, p + 1, next)
  BY ConsecutiveCarries
<1>3. m \in Seq(Byte) /\ d \in Seq(Byte) /\ taken = d \o piece
  BY DEF Sendable, Fed
<1>4. CASE d = SubSeq(m, 1, p)
  <2>1. size = p
    BY <1>4, FedLength
  <2> HIDE DEF n, size, c, next, t, room
  <2>2. count = t
    BY <1>1, <1>2, <2>1 DEF Smaller
  <2>3. taken = SubSeq(m, 1, p) \o SubSeq(m, p + 1, p + t)
    BY <1>1, <1>2, <1>3, <1>4, <2>2
  <2>4. taken = SubSeq(m, 1, next)
    BY <1>1, <1>3, <2>3, SlicesJoin DEF n
  <2>5. taken \in Seq(Byte) /\ Len(taken) = next
    BY <1>1, <1>3, <2>4, FrontOf DEF n
  <2>6. ASSUME Len(taken) >= n PROVE taken = m /\ next = n
    <3>1. next = n
      BY <1>1, <2>5, <2>6
    <3> QED BY <3>1, <2>4, <1>3, SubSeqFull DEF n
  <2> QED BY <2>4, <2>5, <2>6 DEF Fed, n, next
<1>5. CASE size + c <= p
  <2> HIDE DEF n, size, c, next, t, room
  <2>1. count \in Nat /\ count <= c /\ count <= room
    BY <1>1, <1>2, <1>5 DEF Smaller
  <2> HIDE DEF count
  <2>2. piece \in Seq(Byte) /\ Len(piece) = count
    BY <1>2, <2>1, FrontOf DEF room
  <2> HIDE DEF piece
  <2>3. taken \in Seq(Byte) /\ Len(taken) = size + count
    BY <1>3, <2>2, ConcatProperties DEF size
  <2>4. Len(taken) < n /\ (next < n => Len(taken) + c <= next)
    BY <1>1, <1>5, <2>1, <2>3
  <2> QED BY <1>1, <2>3, <2>4 DEF Fed, n, c, next
<1> QED BY <1>4, <1>5 DEF Fed

-----------------------------------------------------------------------------
(* One frame further on the receiver still stands where it should: whether *)
(* the frame is heard, refused or lost.                                    *)
LEMMA ReceiverMissesFrame ==
  ASSUME NEW m, Sendable(m), NEW p \in Nat, p < Len(m), NEW r, ReceiverAt(r, m, p)
  PROVE  ReceiverAt(r, m, After(m, p))
<1>1. After(m, p) # 0 /\ p # Len(m)
  BY AfterIs DEF Sendable
<1>2. CASE p = 0
  BY <1>1, <1>2 DEF ReceiverAt, Idles, Lost
<1>3. CASE p # 0 /\ Filling(r, m, p)
  <2>1. Fed(r.payload, m, After(m, p))
    BY <1>3, FedAfterLoss DEF Filling
  <2> QED BY <2>1, <1>1, <1>3 DEF ReceiverAt, Filling
<1>4. CASE p # 0 /\ (Lost(r) \/ Refusing(r))
  BY <1>1, <1>4 DEF ReceiverAt
<1> QED BY <1>1, <1>2, <1>3, <1>4 DEF ReceiverAt, Whole

Members == {"state", "result", "payload", "expected", "sequence", "frames_in_block",
            "deadline", "fc_due", "pending"}

LEMMA ReceiverDomain == DOMAIN R!FreshReceiver = Members
BY DEF R!FreshReceiver, Members

LEMMA ReceiverStarts ==
  ASSUME NEW m, Sendable(m), ReceiverAt(rcv, m, 0), NEW f, FrameAt(f, m, 0),
         R!ReceiverOnFrame(f)
  PROVE  ReceiverAt(rcv', m, After(m, 0))
<1> DEFINE n == Len(m)
           next == After(m, 0)
<1> SUFFICES ReceiverAt(rcv', m, next)
  OBVIOUS
<1>1. n \in Nat /\ 0 < n /\ 0 \in Nat
  BY DEF Sendable
<1>2. next \in Nat /\ next # 0
  BY <1>1, AfterIs
<1>3. DOMAIN rcv = Members /\ rcv.state = "Idle" /\ rcv.result = "InProgress"
  BY ReceiverDomain DEF ReceiverAt, Idles
<1>4. \/ n <= SingleMax /\ f.pci = "SF" /\ f.num = n
      \/ n > SingleMax /\ f.pci = "FF" /\ f.num = n
  <2>1. CASE n <= SingleMax
    BY <2>1, SingleCarries
  <2>2. CASE n > SingleMax
    BY <2>2, FirstCarries
  <2> QED BY <2>1, <2>2, <1>1, Rooms
<1> HIDE DEF next, n
<1>5. ~R!IgnorePdu(f) /\ ~R!UnexpectedPdu(f) /\ ~R!WrongSequence(f) /\ ~R!AcceptConsecutive(f)
  BY <1>3, <1>4
     DEF R!IgnorePdu, R!ReceiverHears, R!UnexpectedPdu, R!WrongSequence,
         R!AcceptConsecutive, R!AcceptsConsecutive
<1>6. CASE R!InvalidPdu(f)
  BY <1>2, <1>3, <1>6, ReceiverDomain
     DEF R!InvalidPdu, R!ReceiverFails, ReceiverAt, Lost, Members
<1>7. CASE R!AcceptSingle(f)
  <2>1. f.pci = "SF"
    BY <1>7 DEF R!AcceptSingle, R!AcceptsSingle
  <2>2. n <= SingleMax
    BY <2>1, <1>4
  <2>3. next = n /\ SubSeq(f.data, 1, f.num) = m
    BY <2>2, SingleCarries, AfterIs, <1>1, <1>4 DEF n, next
  <2>4. rcv' = [rcv EXCEPT !.payload = m, !.expected = f.num,
                           !.result = "Ok", !.state = "Finished"]
    BY <1>7, <2>3 DEF R!AcceptSingle
  <2>5. Whole(rcv', m, next) /\ DOMAIN rcv' = Members
    BY <1>3, <2>3, <2>4 DEF Whole, Members, n
  <2> QED BY <1>2, <2>5, ReceiverDomain DEF ReceiverAt
<1>8. CASE R!RefuseFirst(f)
  <2>1. Refusing(rcv') /\ DOMAIN rcv' = Members
    BY <1>3, <1>8 DEF R!RefuseFirst, Refusing, Members
  <2> QED BY <1>2, <2>1, ReceiverDomain DEF ReceiverAt
<1>9. CASE R!AcceptFirst(f)
  <2>1. f.pci = "FF"
    BY <1>9 DEF R!AcceptFirst, R!Starts
  <2>2. n > SingleMax
    BY <2>1, <1>4
  <2>3. SubSeq(f.data, 1, Smaller(Len(f.data), f.num)) = SubSeq(m, 1, next)
    BY <2>2, FirstCarries DEF n, next
  <2>4. R!Smaller(Len(f.data), f.num) = Smaller(Len(f.data), f.num)
    BY DEF Smaller, R!Smaller
  <2>5. rcv' = [rcv EXCEPT !.expected = n, !.payload = SubSeq(m, 1, next),
                           !.sequence = 1, !.pending = "ContinueToSend",
                           !.state = "SendFlowControl", !.fc_due = N_Br]
    BY <1>4, <1>9, <2>3, <2>4 DEF R!AcceptFirst
  <2>6. SubSeq(m, 1, next) \in Seq(Byte)
    <3>1. next <= n /\ next \in Nat
      BY <1>1, AfterIs DEF n, next
    <3> QED BY <3>1, FrontOf DEF Sendable, n
  <2>7. Fed(SubSeq(m, 1, next), m, next)
    BY <2>6 DEF Fed
  <2>8. Filling(rcv', m, next) /\ DOMAIN rcv' = Members
    BY <1>3, <2>5, <2>7 DEF Filling, Members, n
  <2> QED BY <1>2, <2>8, ReceiverDomain DEF ReceiverAt
<1> QED BY <1>5, <1>6, <1>7, <1>8, <1>9 DEF R!ReceiverOnFrame

LEMMA ReceiverGoesOn ==
  ASSUME NEW m, Sendable(m), NEW p \in Nat \ {0}, p < Len(m), ReceiverAt(rcv, m, p),
         NEW f, FrameAt(f, m, p), R!ReceiverOnFrame(f)
  PROVE  ReceiverAt(rcv', m, After(m, p))
<1> DEFINE n == Len(m)
           next == After(m, p)
<1> SUFFICES ReceiverAt(rcv', m, next)
  OBVIOUS
<1>1. n \in Nat /\ next \in Nat /\ next # 0 /\ p # n /\ next <= n
  BY AfterIs DEF Sendable
<1>2. DOMAIN rcv = Members /\ (Lost(rcv) \/ Refusing(rcv) \/ Filling(rcv, m, p))
  BY <1>1, ReceiverDomain DEF ReceiverAt, Whole
<1>3. f.pci = "CF"
  BY ConsecutiveCarries
<1> HIDE DEF next, n
<1>4. ASSUME NEW res, res # "Ok", R!ReceiverFails(res)
      PROVE  ReceiverAt(rcv', m, next)
  BY <1>1, <1>2, <1>4, ReceiverDomain DEF R!ReceiverFails, ReceiverAt, Lost, Members
<1>5. CASE R!IgnorePdu(f)
  <2>1. rcv' = rcv
    BY <1>5 DEF R!IgnorePdu, R!receiverVars
  <2>2. ReceiverAt(rcv, m, next)
    BY ReceiverMissesFrame DEF next
  <2> QED BY <2>1, <2>2
<1>6. CASE R!UnexpectedPdu(f)
  BY <1>4, <1>6 DEF R!UnexpectedPdu
<1>7. CASE R!InvalidPdu(f)
  BY <1>4, <1>7 DEF R!InvalidPdu
<1>8. ~R!AcceptSingle(f) /\ ~R!RefuseFirst(f) /\ ~R!AcceptFirst(f)
  BY <1>3 DEF R!AcceptSingle, R!AcceptsSingle, R!RefuseFirst, R!AcceptFirst, R!Starts
<1>9. CASE R!WrongSequence(f)
  BY <1>4, <1>9 DEF R!WrongSequence
<1>10. CASE R!AcceptConsecutive(f)
  <2>1. rcv.state = "Receiving" /\ Filling(rcv, m, p)
    BY <1>2, <1>10
       DEF R!AcceptConsecutive, R!AcceptsConsecutive, Lost, Refusing
  <2>2. rcv.expected = n /\ Fed(rcv.payload, m, p) /\ rcv.result # "Ok"
    BY <2>1 DEF Filling, n
  <2> DEFINE held == rcv.payload \o SubSeq(f.data, 1, Smaller(n - Len(rcv.payload), Len(f.data)))
             taken == R!Taken(f)
  <2>3. /\ taken.payload = held /\ taken.expected = n /\ DOMAIN taken = Members
        /\ taken.state = "Receiving" /\ taken.result = rcv.result
    BY <1>2, <2>1, <2>2 DEF R!Taken, R!BytesTaken, R!Smaller, Smaller, Members
  <2>4. /\ Fed(held, m, next)
        /\ Len(held) >= n => held = m /\ next = n
    BY <2>2, FedByFrame DEF n, next
  <2> HIDE DEF held, taken
  <2>5. CASE R!AllReceived(taken)
    <3>1. held = m /\ next = n
      BY <2>3, <2>4, <2>5 DEF R!AllReceived
    <3>2. rcv' = [taken EXCEPT !.result = "Ok", !.state = "Finished"]
      BY <2>5, <1>10 DEF R!AcceptConsecutive, taken
    <3>3. Whole(rcv', m, next) /\ DOMAIN rcv' = Members
      BY <2>3, <3>1, <3>2 DEF Whole, Members, n
    <3> QED BY <1>1, <3>3, ReceiverDomain DEF ReceiverAt
  <2>6. CASE ~R!AllReceived(taken)
    <3>1. \/ rcv' = [taken EXCEPT !.deadline = N_Cr, !.pending = "ContinueToSend",
                                  !.state = "SendFlowControl", !.fc_due = N_Br]
          \/ rcv' = [taken EXCEPT !.deadline = N_Cr]
      BY <2>6, <1>10 DEF R!AcceptConsecutive, taken
    <3>2. /\ rcv'.payload = held /\ rcv'.expected = n /\ rcv'.result = rcv.result
          /\ rcv'.state \in {"SendFlowControl", "Receiving"}
          /\ DOMAIN rcv' = Members
      BY <2>3, <3>1 DEF Members
    <3>3. Filling(rcv', m, next)
      BY <2>2, <2>4, <3>2 DEF Filling, n
    <3> QED BY <1>1, <3>2, <3>3, ReceiverDomain DEF ReceiverAt
  <2> QED BY <2>5, <2>6
<1> QED BY <1>5, <1>6, <1>7, <1>8, <1>9, <1>10 DEF R!ReceiverOnFrame

LEMMA ReceiverHearsFrame ==
  ASSUME NEW m, Sendable(m), NEW p \in Nat, p < Len(m), ReceiverAt(rcv, m, p),
         NEW f, FrameAt(f, m, p), R!ReceiverOnFrame(f)
  PROVE  ReceiverAt(rcv', m, After(m, p))
BY ReceiverStarts, ReceiverGoesOn

(* poll() and time leave it there too; reset() makes it idle.              *)
LEMMA ReceiverPolled ==
  ASSUME NEW m, Sendable(m), NEW p \in Nat, ReceiverAt(rcv, m, p), R!ReceiverPoll
  PROVE  ReceiverAt(rcv', m, p) /\ p # 0
<1>1. DOMAIN rcv = Members
  BY ReceiverDomain DEF ReceiverAt
<1>2. p # 0 /\ rcv.state \in {"SendFlowControl", "Receiving"}
  BY DEF ReceiverAt, Idles, R!ReceiverPoll, R!SendFlowControl, R!ConsecutiveTimeout
<1>3. ASSUME NEW res, res # "Ok", R!ReceiverFails(res)
      PROVE  ReceiverAt(rcv', m, p)
  BY <1>1, <1>2, <1>3, ReceiverDomain DEF R!ReceiverFails, ReceiverAt, Lost, Members
<1>4. CASE R!ConsecutiveTimeout
  BY <1>2, <1>3, <1>4 DEF R!ConsecutiveTimeout
<1>5. CASE R!SendFlowControl /\ rcv.pending = "Overflow"
  BY <1>2, <1>3, <1>5 DEF R!SendFlowControl
<1>6. CASE R!SendFlowControl /\ rcv.pending # "Overflow"
  <2>1. rcv' = [rcv EXCEPT !.state = "Receiving", !.frames_in_block = 0, !.deadline = N_Cr]
    BY <1>6 DEF R!SendFlowControl
  <2>2. Filling(rcv, m, p)
    BY <1>2, <1>6 DEF ReceiverAt, Lost, Refusing, Whole
  <2>3. Filling(rcv', m, p) /\ DOMAIN rcv' = Members
    BY <1>1, <2>1, <2>2 DEF Filling, Members
  <2> QED BY <1>2, <2>3, ReceiverDomain DEF ReceiverAt
<1> QED BY <1>2, <1>4, <1>5, <1>6 DEF R!ReceiverPoll

LEMMA ReceiverWaits ==
  ASSUME NEW m, NEW p, ReceiverAt(rcv, m, p), rcv' = R!ReceiverAged(rcv)
  PROVE  ReceiverAt(rcv', m, p) /\ (Idles(rcv) => Idles(rcv'))
<1>1. DOMAIN rcv = Members
  BY ReceiverDomain DEF ReceiverAt
<1>2. /\ DOMAIN rcv' = Members
      /\ rcv'.state = rcv.state /\ rcv'.result = rcv.result /\ rcv'.payload = rcv.payload
      /\ rcv'.expected = rcv.expected /\ rcv'.pending = rcv.pending
  BY <1>1 DEF R!ReceiverAged, Members
<1> QED BY <1>2, ReceiverDomain
        DEF ReceiverAt, Idles, Lost, Refusing, Filling, Whole

LEMMA ReceiverIsReset ==
  ASSUME R!Reset
  PROVE  Idles(rcv') /\ DOMAIN rcv' = Members
BY ReceiverDomain DEF R!Reset, R!FreshReceiver, Idles, Members

-----------------------------------------------------------------------------
(* How far the sender is with m, and that it will go no further than m.    *)
SenderMembers ==
  {"state", "result", "payload", "offset", "sequence", "block_size", "st_min",
   "frames_in_block", "wait_count", "deadline", "next_send"}

SenderAt(s, m) ==
  /\ DOMAIN s = SenderMembers /\ s.payload = m
  /\ s.offset \in Nat /\ s.sequence \in Nat
  /\ s.state = "SendingSingle" => s.offset = 0 /\ Len(m) <= SingleMax
  /\ s.state = "SendingFirst" => s.offset = 0 /\ Len(m) > SingleMax
  /\ s.state \in {"WaitingFlowControl", "SendingConsecutive"}
       => s.offset # 0 /\ s.offset < Len(m)

LEMMA SenderBegins ==
  ASSUME NEW m, Sendable(m)
  PROVE  SenderAt(S!Begun(S!FreshSender, m), m) /\ S!Begun(S!FreshSender, m).offset = 0
<1> DEFINE s == S!Begun(S!FreshSender, m)
           n == Len(m)
           x == SingleMax
<1> SUFFICES SenderAt(s, m) /\ s.offset = 0
  OBVIOUS
<1>1. /\ DOMAIN s = SenderMembers /\ s.payload = m /\ s.offset = 0 /\ s.sequence = 0
      /\ s.state = IF n <= S!SingleMax THEN "SendingSingle" ELSE "SendingFirst"
  BY DEF S!Begun, S!FreshSender, SenderMembers
<1>2. n \in Nat /\ x \in Nat /\ S!SingleMax = x
  BY Rooms DEF Sendable, S!SingleMax, SingleMax
<1> HIDE DEF s, n, x
<1> QED BY <1>1, <1>2 DEF SenderAt, n, x

(* The frames poll() hands back are those of m, each where the last ended. *)
LEMMA SenderSends ==
  ASSUME NEW m, Sendable(m), NEW p, OnWay(toReceiver, m, p, snd.offset),
         SenderAt(snd, m), S!SenderPoll
  PROVE  SenderAt(snd', m) /\ OnWay(toReceiver', m, p, snd'.offset)
<1> DEFINE n == Len(m)
           e == snd.offset
<1>1. /\ DOMAIN snd = SenderMembers /\ snd.payload = m /\ e \in Nat /\ snd.sequence \in Nat
      /\ n \in Nat /\ 0 < n /\ m \in Seq(Byte)
  BY DEF SenderAt, Sendable
<1>2. /\ S!SingleMax = SingleMax /\ S!ConsecutiveRoom = ConsecutiveRoom
      /\ \A a, b : S!Smaller(a, b) = Smaller(a, b)
      /\ S!FirstTake(m) = FirstPart(m)
      /\ \A d, k : S!Padded(d, k) = Padded(d, k)
      /\ S!FirstPciBytes(n) = FirstPciBytes(n)
  BY DEF S!SingleMax, SingleMax, S!ConsecutiveRoom, ConsecutiveRoom, S!Smaller, Smaller,
         S!FirstTake, FirstPart, S!FirstRoom, FirstRoom, S!FirstPciBytes, FirstPciBytes,
         S!Padded, Padded
<1> HIDE DEF n, e
<1>3. CASE S!SendSingle
  <2> DEFINE f == SingleFrame(n, Padded(m, 1))
  <2>1. e = 0 /\ n <= SingleMax /\ snd.state = "SendingSingle"
    BY <1>3 DEF S!SendSingle, SenderAt, n, e
  <2>2. toReceiver' = Append(toReceiver, f)
    BY <1>1, <1>2, <1>3
       DEF S!SendSingle, S!SingleFrameOf, S!SingleFrame, SingleFrame, n
  <2>3. f \in DataPdu
    <3>1. Header + 1 + Len(m) <= FrameBytes
      BY <1>1, <2>1, ProtocolAssumption DEF ProtocolAssumption, SingleMax, n
    <3>2. Padded(m, 1) \in Seq(Byte)
      BY <1>1, <3>1, FrontOfPadded
    <3> QED BY <1>1, <3>2 DEF SingleFrame, DataPdu
  <2>4. FrameAt(f, m, e)
    BY <2>1 DEF FrameAt, n
  <2>5. e < Len(m) /\ After(m, e) = n
    BY <1>1, <2>1, AfterIs DEF n
  <2> HIDE DEF f
  <2>6. OnWay(toReceiver', m, p, n)
    BY <2>2, <2>3, <2>4, <2>5, MoreOnWay DEF e
  <2>7. snd' = [snd EXCEPT !.offset = n, !.result = "Ok", !.state = "Finished"]
    BY <1>1, <1>3 DEF S!SendSingle, S!SingleSent, n
  <2>8. SenderAt(snd', m) /\ snd'.offset = n
    BY <1>1, <2>7 DEF SenderAt, SenderMembers
  <2> QED BY <2>6, <2>8
<1>4. CASE S!SendFirst
  <2> DEFINE t == FirstPart(m)
             f == FirstFrame(n, Padded(SubSeq(m, 1, t), FirstPciBytes(n)))
  <2>1. e = 0 /\ n > SingleMax /\ snd.state = "SendingFirst"
    BY <1>4 DEF S!SendFirst, SenderAt, n, e
  <2>2. toReceiver' = Append(toReceiver, f)
    BY <1>1, <1>2, <1>4
       DEF S!SendFirst, S!FirstFrameOf, S!FirstFrame, FirstFrame, n
  <2>3. e < Len(m) /\ After(m, e) = t /\ t = FirstRoom(n) /\ t \in Nat \ {0} /\ t < n
        /\ FirstPciBytes(n) \in Nat /\ Header + FirstPciBytes(n) + t = FrameBytes
    <3>1. After(m, 0) = FirstRoom(n) /\ After(m, 0) = t
      BY <1>1, <2>1, AfterIs DEF n
    <3>2. FirstRoom(n) \in Nat \ {0} /\ FirstRoom(n) < SingleMax /\ SingleMax \in Nat
          /\ FirstPciBytes(n) \in Nat /\ Header + FirstPciBytes(n) + FirstRoom(n) = FrameBytes
      BY <1>1, Rooms
    <3> HIDE DEF t
    <3> QED BY <1>1, <2>1, <3>1, <3>2 DEF n
  <2>4. f \in DataPdu
    <3> HIDE DEF t
    <3>1. SubSeq(m, 1, t) \in Seq(Byte) /\ Len(SubSeq(m, 1, t)) = t
      BY <1>1, <2>3, FrontOf DEF n
    <3>2. Header + FirstPciBytes(n) + Len(SubSeq(m, 1, t)) <= FrameBytes
      BY <2>3, <3>1, ProtocolAssumption DEF ProtocolAssumption
    <3>3. Padded(SubSeq(m, 1, t), FirstPciBytes(n)) \in Seq(Byte)
      BY <2>3, <3>1, <3>2, FrontOfPadded
    <3> QED BY <1>1, <3>3 DEF FirstFrame, DataPdu
  <2>5. FrameAt(f, m, e)
    <3>1. ~(Len(m) <= SingleMax)
      BY <1>1, <2>1, Rooms DEF n
    <3> QED BY <2>1, <3>1 DEF FrameAt, n
  <2> HIDE DEF f
  <2>6. OnWay(toReceiver', m, p, t)
    BY <2>2, <2>3, <2>4, <2>5, MoreOnWay DEF e
  <2>7. snd' = [snd EXCEPT !.offset = t, !.sequence = 1,
                           !.state = "WaitingFlowControl", !.deadline = N_Bs]
    BY <1>1, <1>2, <1>4 DEF S!SendFirst, S!FirstSent
  <2> HIDE DEF t
  <2>8. SenderAt(snd', m) /\ snd'.offset = t
    BY <1>1, <2>3, <2>7 DEF SenderAt, SenderMembers, n
  <2> QED BY <2>6, <2>8
<1>5. CASE S!FlowControlTimeout
  <2>1. toReceiver' = toReceiver
        /\ snd' = [snd EXCEPT !.result = "TimeoutBs", !.state = "Finished"]
    BY <1>5 DEF S!FlowControlTimeout, S!SenderFails
  <2>2. SenderAt(snd', m) /\ snd'.offset = e
    BY <1>1, <2>1 DEF SenderAt, SenderMembers, e
  <2> QED BY <2>1, <2>2 DEF e
<1>6. CASE S!SendConsecutive
  <2> DEFINE t == Smaller(ConsecutiveRoom, n - e)
             f == ConsecutiveFrame(snd.sequence, Padded(SubSeq(m, e + 1, e + t), 1))
             next == S!NextSequence(snd.sequence)
  <2>1. e # 0 /\ e < n /\ snd.state = "SendingConsecutive"
    BY <1>6 DEF S!SendConsecutive, SenderAt, n, e
  <2>2. toReceiver' = Append(toReceiver, f)
    BY <1>1, <1>2, <1>6
       DEF S!SendConsecutive, S!ConsecutiveFrame, ConsecutiveFrame, n, e
  <2>3. /\ t = Takes(m, e) /\ After(m, e) = e + t /\ t \in Nat /\ e + t <= n
        /\ t <= ConsecutiveRoom
    BY <1>1, <2>1, AfterIs DEF Takes, After, n
  <2>4. f \in DataPdu
    <3> HIDE DEF t
    <3>1. SubSeq(m, e + 1, e + t) \in Seq(Byte) /\ Len(SubSeq(m, e + 1, e + t)) = t
      BY <1>1, <2>3, SliceOf DEF n
    <3>2. Header + 1 + Len(SubSeq(m, e + 1, e + t)) <= FrameBytes
      BY <2>3, <3>1, ProtocolAssumption DEF ProtocolAssumption, ConsecutiveRoom
    <3>3. Padded(SubSeq(m, e + 1, e + t), 1) \in Seq(Byte)
      BY <3>1, <3>2, FrontOfPadded
    <3> QED BY <1>1, <3>3 DEF ConsecutiveFrame, DataPdu
  <2>5. FrameAt(f, m, e)
    BY <2>1, <2>3 DEF FrameAt
  <2> HIDE DEF f
  <2>6. OnWay(toReceiver', m, p, e + t)
    BY <2>1, <2>2, <2>3, <2>4, <2>5, MoreOnWay DEF e, n
  <2> DEFINE moved == [snd EXCEPT !.offset = @ + t, !.sequence = next,
                                  !.frames_in_block = S!OneMoreFrame(@),
                                  !.next_send = snd.st_min]
  <2>7. \/ /\ S!AllSent(moved)
           /\ snd' = [moved EXCEPT !.result = "Ok", !.state = "Finished"]
        \/ ~S!AllSent(moved) /\ snd' = S!AwaitingNextBlock(moved)
        \/ ~S!AllSent(moved) /\ snd' = moved
    BY <1>1, <1>2, <1>6 DEF S!SendConsecutive, n, e
  <2>8. next \in Nat
    BY <1>1, ProtocolAssumption DEF ProtocolAssumption, S!NextSequence
  <2>9. /\ DOMAIN moved = SenderMembers /\ moved.payload = m /\ moved.offset = e + t
        /\ moved.sequence = next /\ moved.state = "SendingConsecutive"
    BY <1>1, <2>1 DEF SenderMembers, e
  <2> HIDE DEF moved, t, next
  <2>10. e + t \in Nat /\ e + t # 0 /\ (~S!AllSent(moved) => e + t < n)
    BY <1>1, <2>1, <2>3, <2>9 DEF S!AllSent, n
  <2>11. SenderAt(snd', m) /\ snd'.offset = e + t
    <3>1. /\ DOMAIN snd' = SenderMembers /\ snd'.payload = m /\ snd'.offset = e + t
          /\ snd'.sequence = next
          /\ \/ snd'.state = "Finished"
             \/ ~S!AllSent(moved) /\ snd'.state \in {"WaitingFlowControl", "SendingConsecutive"}
      BY <2>7, <2>9 DEF S!AwaitingNextBlock, SenderMembers
    <3> QED BY <2>8, <2>10, <3>1 DEF SenderAt, n
  <2> QED BY <2>6, <2>11
<1> QED BY <1>3, <1>4, <1>5, <1>6 DEF S!SenderPoll

(* Whatever it hears, the sender sends nothing on the spot and moves on    *)
(* only to the state it may be in at that offset.                          *)
LEMMA SenderHearsFrame ==
  ASSUME NEW m, SenderAt(snd, m), NEW f, S!SenderOnFrame(f)
  PROVE  SenderAt(snd', m) /\ snd'.offset = snd.offset
<1>1. DOMAIN snd = SenderMembers
  BY DEF SenderAt
<1>2. \/ snd' = snd
      \/ /\ DOMAIN snd' = SenderMembers
         /\ snd'.payload = snd.payload /\ snd'.offset = snd.offset
         /\ snd'.sequence = snd.sequence
         /\ \/ snd'.state = "Finished"
            \/ snd.state = "WaitingFlowControl"
               /\ snd'.state \in {"WaitingFlowControl", "SendingConsecutive"}
  <2>1. CASE S!IgnoreFrame(f)
    BY <2>1 DEF S!IgnoreFrame, S!senderVars
  <2>2. CASE S!OutOfPlace(f)
    BY <1>1, <2>2 DEF S!OutOfPlace, S!SenderFails, SenderMembers
  <2>3. CASE S!MalformedFlowControl(f)
    BY <1>1, <2>3 DEF S!MalformedFlowControl, S!SenderFails, SenderMembers
  <2>4. CASE S!PeerOverflow(f)
    BY <1>1, <2>4 DEF S!PeerOverflow, S!SenderFails, SenderMembers
  <2>5. CASE S!ContinueToSend(f)
    BY <1>1, <2>5 DEF S!ContinueToSend, S!AwaitedFlowControl, SenderMembers
  <2>6. CASE S!KeepWaiting(f)
    BY <1>1, <2>6 DEF S!KeepWaiting, S!AwaitedFlowControl, SenderMembers
  <2> QED BY <2>1, <2>2, <2>3, <2>4, <2>5, <2>6 DEF S!SenderOnFrame
<1> QED BY <1>2 DEF SenderAt

LEMMA SenderWaits ==
  ASSUME NEW m, SenderAt(snd, m), snd' = S!SenderAged(snd)
  PROVE  SenderAt(snd', m) /\ snd'.offset = snd.offset
<1>1. /\ DOMAIN snd' = SenderMembers
      /\ snd'.payload = snd.payload /\ snd'.offset = snd.offset
      /\ snd'.sequence = snd.sequence /\ snd'.state = snd.state
  BY DEF S!SenderAged, SenderAt, SenderMembers
<1> QED BY <1>1 DEF SenderAt

-----------------------------------------------------------------------------
(* One transfer is under way at a time: on the slow bus only one is ever   *)
(* started, on the reliable one each waits until the last one's message    *)
(* was taken.  On the lossy bus this is so when only one is allowed.       *)
OneAtATime == bus # "lossy" \/ MaxTransfers <= 1

Latest == sent[Len(sent)]

(* Nothing was handed in yet.                                              *)
Untouched ==
  /\ sent = <<>> /\ got = <<>> /\ toReceiver = <<>> /\ toSender = <<>>
  /\ snd = S!FreshSender /\ Idles(rcv) /\ DOMAIN rcv = Members

(* The frames of the latest message up to some byte p have reached the     *)
(* receiver or were lost, the others are under way or not yet sent; once   *)
(* its message was taken, all have.                                        *)
Transferring ==
  /\ SenderAt(snd, Latest)
  /\ \E p \in Nat :
       /\ OnWay(toReceiver, Latest, p, snd.offset)
       /\ ReceiverAt(rcv, Latest, p)
       /\ Len(got) = Len(sent) => p = Len(Latest) /\ Idles(rcv)

(* All messages but the latest were taken, and perhaps that one.           *)
Delivered ==
  /\ Len(sent) - 1 <= Len(got) /\ Len(got) <= Len(sent)
  /\ \A i \in 1..Len(got) : got[i] = sent[i]

LinkInv ==
  /\ bus \in Buses /\ OneAtATime
  /\ sent \in Seq(Messages) /\ got \in Seq(Messages)
  /\ Delivered
  /\ Untouched \/ (sent # <<>> /\ Transferring)

LEMMA MessagesAreSendable ==
  ASSUME NEW m \in Messages
  PROVE  Sendable(m)
<1>1. m \in Seq(Byte) /\ m # <<>>
  BY LinkAssumption DEF LinkAssumption
<1> QED BY <1>1, EmptySeq, LenProperties DEF Sendable

LEMMA LatestIsSendable ==
  ASSUME sent \in Seq(Messages), sent # <<>>
  PROVE  Len(sent) \in Nat \ {0} /\ Latest \in Messages /\ Sendable(Latest)
<1>1. Len(sent) \in Nat \ {0}
  BY EmptySeq, LenProperties
<1>2. Latest \in Messages
  BY <1>1, ElementOfSeq DEF Latest
<1> QED BY <1>1, <1>2, MessagesAreSendable

LEMMA LinkStarts == Init /\ OneAtATime => LinkInv
<1> SUFFICES ASSUME Init, OneAtATime PROVE LinkInv
  OBVIOUS
<1>1. Untouched
  BY ReceiverDomain
     DEF Init, Untouched, S!SenderInit, R!ReceiverInit, R!FreshReceiver, Idles
<1>2. bus \in Buses
  BY DEF Init
<1>3. sent \in Seq(Messages) /\ got \in Seq(Messages) /\ Len(sent) = 0 /\ Len(got) = 0
  BY EmptySeq DEF Init
<1>4. Delivered
  BY <1>3 DEF Delivered
<1> QED BY <1>1, <1>2, <1>3, <1>4 DEF LinkInv

(* A transfer starts only when nothing of the last one is left.            *)
LEMMA NothingLeft ==
  ASSUME LinkInv, NEW m \in Messages, StartTransfer(m)
  PROVE  /\ toReceiver = <<>> /\ Idles(rcv) /\ DOMAIN rcv = Members
         /\ Len(got) = Len(sent)
<1>1. CASE Untouched
  BY <1>1, EmptySeq DEF Untouched
<1>2. CASE sent # <<>> /\ Transferring
  <2>1. Len(sent) \in Nat \ {0} /\ Sendable(Latest)
    BY <1>2, LatestIsSendable DEF LinkInv
  <2>2. bus = "reliable"
    <3>1. ~(Len(sent) < MaxTransfers /\ MaxTransfers <= 1)
      BY <2>1, LinkAssumption DEF LinkAssumption
    <3>2. bus # "lossy" /\ bus # "slow"
      BY <3>1, <1>2 DEF LinkInv, OneAtATime, StartTransfer
    <3> QED BY <3>2 DEF LinkInv, Buses
  <2>3. Len(got) = Len(sent)
    BY <2>2 DEF StartTransfer
  <2>4. /\ OnWay(toReceiver, Latest, Len(Latest), snd.offset)
        /\ ReceiverAt(rcv, Latest, Len(Latest)) /\ Idles(rcv)
    BY <1>2, <2>3 DEF Transferring
  <2>5. ~(Len(Latest) < Len(Latest))
    BY <2>1 DEF Sendable
  <2>6. toReceiver = <<>>
    BY <2>1, <2>4, <2>5, FirstOnWay
  <2> QED BY <2>3, <2>4, <2>6, ReceiverDomain DEF ReceiverAt
<1> QED BY <1>1, <1>2 DEF LinkInv

LEMMA AnotherTransfer ==
  ASSUME LinkInv, NEW m \in Messages, StartTransfer(m)
  PROVE  LinkInv'
<1>1. /\ toReceiver = <<>> /\ Idles(rcv) /\ DOMAIN rcv = Members
      /\ Len(got) = Len(sent)
  BY NothingLeft
<1>2. /\ snd' = S!Begun(S!FreshSender, m) /\ sent' = Append(sent, m)
      /\ UNCHANGED <<bus, rcv, toReceiver, toSender, got>>
  BY DEF StartTransfer
<1>3. /\ sent' \in Seq(Messages) /\ Len(sent') = Len(sent) + 1 /\ sent'[Len(sent')] = m
      /\ \A i \in 1..Len(sent) : sent'[i] = sent[i]
      /\ Len(sent) \in Nat
  BY <1>2, AppendProperties, LenProperties DEF LinkInv
<1>4. sent' # <<>> /\ Latest' = m
  BY <1>3, EmptySeq DEF Latest
<1>5. Sendable(m) /\ Len(m) # 0
  BY MessagesAreSendable DEF Sendable
<1>6. SenderAt(snd', m) /\ snd'.offset = 0
  BY <1>2, <1>5, SenderBegins
<1>7. OnWay(toReceiver', m, 0, snd'.offset)
  BY <1>1, <1>2, <1>6, NothingOnWay
<1>8. ReceiverAt(rcv', m, 0)
  BY <1>1, <1>2, ReceiverDomain DEF ReceiverAt, Idles
<1>9. Len(got') # Len(sent')
  BY <1>1, <1>2, <1>3
<1>10. Transferring'
  BY <1>4, <1>6, <1>7, <1>8, <1>9 DEF Transferring
<1>11. Delivered'
  BY <1>1, <1>2, <1>3 DEF LinkInv, Delivered
<1> QED BY <1>2, <1>3, <1>4, <1>10, <1>11 DEF LinkInv, OneAtATime

(* The message the receiver offers is the latest, and not yet taken.       *)
LEMMA OfferedIsLatest ==
  ASSUME LinkInv, rcv.result = "Ok"
  PROVE  /\ sent # <<>> /\ rcv.payload = Latest /\ Latest \in Messages
         /\ Len(got) = Len(sent) - 1
         /\ \A p \in Nat : ReceiverAt(rcv, Latest, p) => p = Len(Latest)
<1>1. sent # <<>> /\ Transferring
  BY DEF LinkInv, Untouched, Idles
<1>2. Len(sent) \in Nat \ {0} /\ Latest \in Messages /\ Sendable(Latest)
  BY <1>1, LatestIsSendable DEF LinkInv
<1>3. ASSUME NEW p \in Nat, ReceiverAt(rcv, Latest, p)
      PROVE  Whole(rcv, Latest, p)
  BY <1>3 DEF ReceiverAt, Idles, Lost, Refusing, Filling
<1>4. Len(got) # Len(sent)
  BY <1>1 DEF Transferring, Idles
<1>5. Len(got) = Len(sent) - 1
  BY <1>2, <1>4, LenProperties DEF LinkInv, Delivered
<1> QED BY <1>1, <1>2, <1>3, <1>5 DEF Transferring, Whole

LEMMA MessageTaken ==
  ASSUME LinkInv, CollectMessage
  PROVE  /\ LinkInv' /\ sent' = sent /\ got' = Append(got, Latest) /\ Latest \in Messages
         /\ Len(got') = Len(sent) /\ Delivered'
<1>1. rcv.result = "Ok" /\ got' = Append(got, rcv.payload) /\ R!Reset
      /\ UNCHANGED <<bus, snd, toReceiver, sent>>
  BY DEF CollectMessage
<1>2. /\ sent # <<>> /\ rcv.payload = Latest /\ Latest \in Messages
      /\ Len(got) = Len(sent) - 1
      /\ \A p \in Nat : ReceiverAt(rcv, Latest, p) => p = Len(Latest)
  BY <1>1, OfferedIsLatest
<1>3. Len(sent) \in Nat \ {0} /\ Sendable(Latest)
  BY <1>2, LatestIsSendable DEF LinkInv
<1>4. /\ got' \in Seq(Messages) /\ Len(got') = Len(got) + 1 /\ got'[Len(got) + 1] = Latest
      /\ \A i \in 1..Len(got) : got'[i] = got[i]
      /\ Len(got) \in Nat
  BY <1>1, <1>2, AppendProperties, LenProperties DEF LinkInv
<1>5. Len(got') = Len(sent) /\ got'[Len(sent)] = sent[Len(sent)]
  BY <1>2, <1>3, <1>4 DEF Latest
<1>6. Delivered'
  BY <1>1, <1>2, <1>3, <1>4, <1>5 DEF LinkInv, Delivered
<1>7. Idles(rcv') /\ DOMAIN rcv' = Members
  BY <1>1, ReceiverIsReset
<1>8. Transferring'
  <2>1. /\ SenderAt(snd, Latest)
        /\ OnWay(toReceiver, Latest, Len(Latest), snd.offset)
        /\ ReceiverAt(rcv, Latest, Len(Latest))
    BY <1>1, <1>2 DEF LinkInv, Untouched, Transferring
  <2>2. Len(Latest) \in Nat /\ Len(Latest) # 0
    BY <1>3 DEF Sendable
  <2>3. ReceiverAt(rcv', Latest, Len(Latest))
    BY <1>7, <2>2, ReceiverDomain DEF ReceiverAt, Lost, Idles
  <2>4. Latest' = Latest
    BY <1>1 DEF Latest
  <2> QED BY <1>1, <1>7, <2>1, <2>2, <2>3, <2>4 DEF Transferring
<1> QED BY <1>1, <1>2, <1>4, <1>5, <1>6, <1>8 DEF LinkInv, OneAtATime

(* The other steps leave the record of messages alone.                     *)
Moves ==
  \/ DiscardFailure \/ PollSender \/ PollReceiver
  \/ DeliverToReceiver \/ DeliverToSender \/ LoseFrame \/ Elapse

LEMMA MovesKeepRecord ==
  ASSUME Moves
  PROVE  sent' = sent /\ got' = got /\ bus' = bus
BY DEF Moves, DiscardFailure, PollSender, PollReceiver, DeliverToReceiver,
       DeliverToSender, LoseFrame, Elapse

(* Before the first transfer only time passes.                             *)
LEMMA UntouchedMoves ==
  ASSUME Untouched, Moves
  PROVE  Untouched'
<1>1. /\ snd.state = "Idle" /\ snd.result = "InProgress" /\ snd.deadline = 0
      /\ snd.next_send = 0 /\ snd = S!FreshSender
  BY DEF Untouched, S!FreshSender
<1>2. rcv.state = "Idle" /\ rcv.result = "InProgress" /\ DOMAIN rcv = Members
  BY DEF Untouched, Idles
<1>3. ~DiscardFailure /\ ~PollReceiver
  BY <1>2 DEF DiscardFailure, R!ReceiverDone, PollReceiver, R!ReceiverPoll,
              R!SendFlowControl, R!ConsecutiveTimeout
<1>4. ~PollSender
  BY <1>1 DEF PollSender, S!SenderPoll, S!SendSingle, S!SendFirst, S!FlowControlTimeout,
              S!SendConsecutive
<1>5. ~DeliverToReceiver /\ ~DeliverToSender /\ ~LoseFrame
  BY DEF Untouched, DeliverToReceiver, DeliverToSender, LoseFrame
<1>6. Elapse
  BY <1>3, <1>4, <1>5 DEF Moves
<1>7. snd' = snd
  <2>1. S!SenderAged(S!FreshSender) = S!FreshSender
    BY DEF S!SenderAged, S!FreshSender, S!OneTickLess
  <2> QED BY <1>1, <1>6, <2>1 DEF Elapse
<1>8. DOMAIN rcv' = Members /\ Idles(rcv')
  BY <1>2, <1>6 DEF Elapse, R!ReceiverAged, Members, Idles
<1> QED BY <1>6, <1>7, <1>8 DEF Untouched, Elapse

LEMMA TransferMoves ==
  ASSUME LinkInv, sent # <<>>, Transferring, Moves
  PROVE  Transferring'
<1> DEFINE m == Latest
<1>1. Sendable(m) /\ Len(m) \in Nat /\ Len(m) # 0
  BY LatestIsSendable DEF LinkInv, Sendable
<1>2. SenderAt(snd, m)
  BY DEF Transferring
<1>3. PICK p \in Nat :
        /\ OnWay(toReceiver, m, p, snd.offset)
        /\ ReceiverAt(rcv, m, p)
        /\ Len(got) = Len(sent) => p = Len(m) /\ Idles(rcv)
  BY DEF Transferring
<1>4. m' = m /\ sent' = sent /\ got' = got
  BY MovesKeepRecord DEF Latest
<1>5. ASSUME NEW q \in Nat, SenderAt(snd', m), OnWay(toReceiver', m, q, snd'.offset),
             ReceiverAt(rcv', m, q), Len(got) = Len(sent) => q = Len(m) /\ Idles(rcv')
      PROVE  Transferring'
  BY <1>4, <1>5 DEF Transferring
<1> HIDE DEF m
<1>6. CASE DiscardFailure
  <2>1. /\ rcv.result # "InProgress" /\ rcv.result # "Ok" /\ R!Reset
        /\ UNCHANGED <<snd, toReceiver>>
    BY <1>6 DEF DiscardFailure, R!ReceiverDone
  <2>2. Idles(rcv') /\ DOMAIN rcv' = Members
    BY <2>1, ReceiverIsReset
  <2>3. p # 0
    BY <1>3, <2>1 DEF ReceiverAt, Idles
  <2>4. ReceiverAt(rcv', m, p)
    BY <2>2, <2>3, ReceiverDomain DEF ReceiverAt, Lost, Idles
  <2> QED BY <1>2, <1>3, <1>5, <2>1, <2>2, <2>4
<1>7. CASE PollSender
  <2>1. S!SenderPoll /\ rcv' = rcv
    BY <1>7 DEF PollSender
  <2>2. SenderAt(snd', m) /\ OnWay(toReceiver', m, p, snd'.offset)
    BY <1>1, <1>2, <1>3, <2>1, SenderSends
  <2> QED BY <1>3, <1>5, <2>1, <2>2
<1>8. CASE PollReceiver
  <2>1. R!ReceiverPoll /\ UNCHANGED <<snd, toReceiver>>
    BY <1>8 DEF PollReceiver
  <2>2. ReceiverAt(rcv', m, p)
    BY <1>1, <1>3, <2>1, ReceiverPolled
  <2>3. ~Idles(rcv)
    BY <2>1 DEF Idles, R!ReceiverPoll, R!SendFlowControl, R!ConsecutiveTimeout
  <2> QED BY <1>2, <1>3, <1>5, <2>1, <2>2, <2>3
<1>9. ASSUME toReceiver # <<>>
      PROVE  /\ p < Len(m) /\ FrameAt(Head(toReceiver), m, p)
             /\ OnWay(Tail(toReceiver), m, After(m, p), snd.offset)
             /\ After(m, p) \in Nat /\ Len(got) # Len(sent)
  <2>1. /\ p < Len(m) /\ FrameAt(Head(toReceiver), m, p)
        /\ OnWay(Tail(toReceiver), m, After(m, p), snd.offset)
    BY <1>1, <1>3, <1>9, FirstOnWay
  <2> QED BY <1>1, <1>3, <2>1, AfterIs
<1>10. CASE DeliverToReceiver
  <2>1. /\ toReceiver # <<>> /\ R!ReceiverOnFrame(Head(toReceiver))
        /\ toReceiver' = Tail(toReceiver) /\ snd' = snd
    BY <1>10 DEF DeliverToReceiver
  <2>2. ReceiverAt(rcv', m, After(m, p))
    BY <1>1, <1>3, <1>9, <2>1, ReceiverHearsFrame
  <2> QED BY <1>2, <1>5, <1>9, <2>1, <2>2
<1>11. CASE DeliverToSender
  <2>1. S!SenderOnFrame(Head(toSender)) /\ rcv' = rcv
    BY <1>11 DEF DeliverToSender
  <2>2. SenderAt(snd', m) /\ snd'.offset = snd.offset
    BY <1>2, <2>1, SenderHearsFrame
  <2>3. toReceiver' = toReceiver
    BY <2>1 DEF S!SenderOnFrame, S!IgnoreFrame, S!senderVars, S!OutOfPlace,
                S!MalformedFlowControl, S!ContinueToSend, S!KeepWaiting, S!PeerOverflow
  <2> QED BY <1>3, <1>5, <2>1, <2>2, <2>3
<1>12. CASE LoseFrame
  <2>1. UNCHANGED <<snd, rcv>>
    BY <1>12 DEF LoseFrame
  <2>2. CASE toReceiver # <<>> /\ toReceiver' = Tail(toReceiver)
    <3>1. ReceiverAt(rcv, m, After(m, p))
      BY <1>1, <1>3, <1>9, <2>2, ReceiverMissesFrame
    <3> QED BY <1>2, <1>5, <1>9, <2>1, <2>2, <3>1
  <2>3. CASE toReceiver' = toReceiver
    BY <1>2, <1>3, <1>5, <2>1, <2>3
  <2> QED BY <1>12, <2>2, <2>3 DEF LoseFrame
<1>13. CASE Elapse
  <2>1. /\ snd' = S!SenderAged(snd) /\ rcv' = R!ReceiverAged(rcv)
        /\ toReceiver' = toReceiver
    BY <1>13 DEF Elapse
  <2>2. SenderAt(snd', m) /\ snd'.offset = snd.offset
    BY <1>2, <2>1, SenderWaits
  <2>3. ReceiverAt(rcv', m, p) /\ (Idles(rcv) => Idles(rcv'))
    BY <1>3, <2>1, ReceiverWaits
  <2> QED BY <1>3, <1>5, <2>1, <2>2, <2>3
<1> QED BY <1>6, <1>7, <1>8, <1>10, <1>11, <1>12, <1>13 DEF Moves

LEMMA LinkGoesOn == LinkInv /\ [Next]_vars => LinkInv'
<1> SUFFICES ASSUME LinkInv, [Next]_vars PROVE LinkInv'
  OBVIOUS
<1>1. ASSUME NEW m \in Messages, StartTransfer(m) PROVE LinkInv'
  BY <1>1, AnotherTransfer
<1>2. CASE CollectMessage
  BY <1>2, MessageTaken
<1>3. CASE Moves
  <2>1. sent' = sent /\ got' = got /\ bus' = bus
    BY <1>3, MovesKeepRecord
  <2>2. Untouched' \/ (sent' # <<>> /\ Transferring')
    BY <1>3, <2>1, UntouchedMoves, TransferMoves DEF LinkInv
  <2> QED BY <2>1, <2>2 DEF LinkInv, OneAtATime, Delivered
<1>4. CASE UNCHANGED vars
  BY <1>4 DEF vars, LinkInv, OneAtATime, Delivered, Untouched, Transferring, Latest
<1> QED BY <1>1, <1>2, <1>3, <1>4 DEF Next, Moves

LEMMA LinkInvariant == Spec /\ OneAtATime => []LinkInv
BY LinkStarts, LinkGoesOn, PTL DEF Spec

(* A message taken when the record says so is one the mailbox hands out.   *)
LEMMA TakenIsEmbedded ==
  ASSUME sent' = sent, got' \in Seq(Messages), sent \in Seq(Messages),
         Len(got') = Len(sent), Delivered'
  PROVE  M!Embeds(got', sent)
<1> DEFINE at == [i \in 1..Len(got') |-> i]
<1>1. at \in [1..Len(got') -> 1..Len(sent)]
  OBVIOUS
<1>2. \A i \in 1..Len(got') : got'[i] = sent[at[i]]
  BY DEF Delivered
<1>3. \A i, j \in 1..Len(got') : i < j => at[i] < at[j]
  OBVIOUS
<1> HIDE DEF at
<1> QED BY <1>1, <1>2, <1>3 DEF M!Embeds

(* isotp::Sender and isotp::Receiver keep what their owners rely on:       *)
(* whatever is delayed, timed out or, on a bus that carries one transfer,  *)
(* lost, each message taken from has_message() is the one handed to        *)
(* begin(), whole and once.                                                *)
THEOREM LinkIsAMailbox == Spec /\ OneAtATime => ImplementsMailbox
<1>1. Init => M!Init
  BY DEF Init, M!Init
<1>2. LinkInv /\ LinkInv' /\ [Next]_vars => [M!Next]_(M!vars)
  <2> SUFFICES ASSUME LinkInv, LinkInv', [Next]_vars PROVE [M!Next]_(M!vars)
    OBVIOUS
  <2>1. ASSUME NEW m \in Messages, StartTransfer(m) PROVE M!Next
    BY <2>1 DEF StartTransfer, M!Next, M!Send
  <2>2. CASE CollectMessage
    <3>1. /\ sent' = sent /\ got' = Append(got, Latest) /\ Latest \in Messages
          /\ Len(got') = Len(sent) /\ Delivered'
      BY <2>2, MessageTaken
    <3>2. M!Embeds(got', sent)
      BY <3>1, TakenIsEmbedded DEF LinkInv
    <3>3. M!Take(Latest)
      BY <3>1, <3>2 DEF M!Take
    <3> QED BY <3>1, <3>3 DEF M!Next
  <2>3. CASE Moves
    BY <2>3, MovesKeepRecord DEF M!vars
  <2>4. CASE UNCHANGED vars
    BY <2>4 DEF vars, M!vars
  <2> QED BY <2>1, <2>2, <2>3, <2>4 DEF Next, Moves
<1> QED BY <1>1, <1>2, LinkInvariant, PTL DEF Spec, ImplementsMailbox, M!Spec
=============================================================================
