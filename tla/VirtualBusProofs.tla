-------------------------- MODULE VirtualBusProofs --------------------------
(***************************************************************************)
(* What holds of the virtual bus for any participants, traffic, filters    *)
(* and queue limits: who is on the wire and when, what reaches whom in     *)
(* which order, and that the bus is the medium of PriorityMedium.  Then    *)
(* what holds of the replay of any recording.                              *)
(*                                                                         *)
(* BusInv is the inductive invariant.  Numbers tie a frame that waits, one *)
(* on the wire and one received together; the wire is an ordered record    *)
(* of transmissions of which the last may be in flight; the clock is       *)
(* bounded by that one's end and by the target of the call that runs.      *)
(***************************************************************************)
EXTENDS MCVirtualBus, SequenceTheorems, NaturalsInduction, WellFoundedInduction, TLAPS

(* A frame takes a whole number of ticks.                                  *)
LEMMA TicksType ==
  ASSUME NEW bits \in Nat, NEW rate \in Nat
  PROVE  Ticks(bits, rate) \in Nat
<1>1. bits * Second \in Nat
  BY Rates DEF Rates
<1>2. ASSUME NEW a \in Nat, rate # 0 PROVE (a \div rate) \in Nat
  BY <1>2
<1> QED BY <1>1, <1>2 DEF Ticks

Frame == [id : CanId, dlc : 0..15, flags : SUBSET Flag]

LEMMA TimingType ==
  ASSUME NEW f \in Frame
  PROVE  FrameTiming(f).ticks \in Nat /\ FrameTiming(f).bits \in Nat
<1>1. Size(f) \in Nat
  BY DEF Size, DlcToLength, FdLengths, Frame
<1>2. ASSUME NEW b \in Nat PROVE WorstCaseStuffBits(b) \in Nat
  BY DEF WorstCaseStuffBits
<1>3. f.id.extended \in BOOLEAN /\ TrailerBits \in Nat
  <2>1. ASSUME NEW A, NEW B,
               NEW id \in [extended : {FALSE}, value : A] \cup [extended : {TRUE}, value : B]
        PROVE  id.extended \in BOOLEAN
    OBVIOUS
  <2>2. f.id \in CanId
    BY DEF Frame
  <2>3. f.id.extended \in BOOLEAN
    BY <2>1, <2>2, Zenon DEF CanId
  <2> QED BY <2>3 DEF TrailerBits
<1>4. ClassicTiming(f).ticks \in Nat /\ ClassicTiming(f).bits \in Nat
  <2> DEFINE stuffable == (IF f.id.extended THEN 54 ELSE 34) + (8 * Size(f))
             bits == stuffable + TrailerBits + WorstCaseStuffBits(stuffable)
  <2>1. stuffable \in Nat
    BY <1>1
  <2>2. bits \in Nat
    BY <1>2, <1>3, <2>1
  <2>3. ClassicTiming(f) = [bits |-> bits + 0, ticks |-> Ticks(bits, NominalRate)]
    BY DEF ClassicTiming, Timing
  <2> HIDE DEF bits
  <2> QED BY <2>2, <2>3, TicksType, Rates DEF Rates
<1>5. FdTiming(f).ticks \in Nat /\ FdTiming(f).bits \in Nat
  <2> DEFINE core == IF f.id.extended THEN 37 ELSE 17
             crc == (IF Size(f) > 16 THEN 21 ELSE 17) + 4
             payload == 8 * Size(f)
             stuff == (crc \div 4) + WorstCaseStuffBits(core + 1 + 4 + payload)
             arbitration == core + TrailerBits
             data == 1 + 4 + payload + crc + stuff
             rate == IF "Brs" \in f.flags /\ DataRate # 0 THEN DataRate ELSE NominalRate
  <2>1. core \in Nat /\ crc \in Nat /\ payload \in Nat
    BY <1>1
  <2>2. stuff \in Nat
    BY <1>2, <2>1
  <2>3. arbitration \in Nat /\ data \in Nat
    BY <1>3, <2>1, <2>2
  <2>4. rate \in Nat
    BY Rates DEF Rates
  <2>5. FdTiming(f) = [bits |-> arbitration + data,
                       ticks |-> Ticks(arbitration, NominalRate) + Ticks(data, rate)]
    BY DEF FdTiming, Timing
  <2> HIDE DEF arbitration, data, rate
  <2>6. Ticks(arbitration, NominalRate) \in Nat /\ Ticks(data, rate) \in Nat
    BY <2>3, <2>4, TicksType, Rates DEF Rates
  <2> QED BY <2>3, <2>5, <2>6
<1> QED BY <1>4, <1>5 DEF FrameTiming

(* The order without one of them: the others, each once.                   *)
LEMMA PlaceHolds ==
  ASSUME net.order \in Seq(Nodes), NEW n \in Attached
  PROVE  Place(n) \in DOMAIN net.order /\ net.order[Place(n)] = n
BY DEF Place, Attached

LEMMA ErasedOrder ==
  ASSUME net.order \in Seq(Nodes), NEW n \in Attached,
         \A i, j \in DOMAIN net.order : net.order[i] = net.order[j] => i = j
  PROVE  /\ Erased(n) \in Seq(Nodes)
         /\ \A i, j \in DOMAIN Erased(n) : Erased(n)[i] = Erased(n)[j] => i = j
         /\ {Erased(n)[i] : i \in DOMAIN Erased(n)} = Attached \ {n}
<1> DEFINE len == Len(net.order)
           p == Place(n)
           at(i) == IF i < p THEN i ELSE i + 1
<1>1. len \in Nat /\ DOMAIN net.order = 1..len /\ \A i \in 1..len : net.order[i] \in Nodes
  BY LenProperties
<1>2. p \in 1..len /\ net.order[p] = n
  BY <1>1, PlaceHolds
<1>3. Erased(n) = [i \in 1..(len - 1) |-> net.order[at(i)]]
  BY DEF Erased
<1> HIDE DEF p, len
<1>4. \A i \in 1..(len - 1) : at(i) \in 1..len /\ at(i) # p
  BY <1>1, <1>2
<1>5. Erased(n) \in Seq(Nodes) /\ DOMAIN Erased(n) = 1..(len - 1)
  BY <1>1, <1>2, <1>3, <1>4, IsASeq
<1>6. \A i, j \in 1..(len - 1) : at(i) = at(j) => i = j
  BY <1>1, <1>2
<1>7. \A i, j \in DOMAIN Erased(n) : Erased(n)[i] = Erased(n)[j] => i = j
  <2> SUFFICES ASSUME NEW i \in 1..(len - 1), NEW j \in 1..(len - 1), Erased(n)[i] = Erased(n)[j]
               PROVE  i = j
    BY <1>5
  <2>1. net.order[at(i)] = net.order[at(j)]
    BY <1>3
  <2>2. at(i) = at(j)
    BY <1>1, <1>4, <2>1
  <2> QED BY <1>6, <2>2
<1>8. \A k \in 1..len : k # p => \E i \in 1..(len - 1) : at(i) = k
  <2> SUFFICES ASSUME NEW k \in 1..len, k # p PROVE \E i \in 1..(len - 1) : at(i) = k
    OBVIOUS
  <2>1. CASE k < p
    <3>1. k \in 1..(len - 1) /\ at(k) = k
      BY <1>1, <1>2, <2>1
    <3> QED BY <3>1
  <2>2. CASE k > p
    <3>1. k - 1 \in 1..(len - 1) /\ at(k - 1) = k
      BY <1>1, <1>2, <2>2
    <3> QED BY <3>1
  <2> QED BY <1>1, <1>2, <2>1, <2>2
<1>9. {Erased(n)[i] : i \in DOMAIN Erased(n)} = Attached \ {n}
  <2>1. ASSUME NEW i \in DOMAIN Erased(n) PROVE Erased(n)[i] \in Attached \ {n}
    BY <1>1, <1>2, <1>3, <1>4, <1>5, <2>1 DEF Attached
  <2>2. ASSUME NEW m \in Attached, m # n PROVE \E i \in DOMAIN Erased(n) : Erased(n)[i] = m
    <3>1. PICK k \in 1..len : net.order[k] = m
      BY <1>1 DEF Attached
    <3>2. PICK i \in 1..(len - 1) : at(i) = k
      BY <1>2, <1>8, <2>2, <3>1
    <3> QED BY <1>3, <1>5, <3>1, <3>2
  <2> QED BY <2>1, <2>2
<1> QED BY <1>5, <1>7, <1>9

-----------------------------------------------------------------------------
(* The inductive invariant.                                                *)

(* A frame has a number of its own and waits without a timestamp.          *)
FramesAreNumbered ==
  /\ \A n \in Nodes : \A i \in DOMAIN bus[n].outbox :
       /\ bus[n].outbox[i].at = 0 /\ bus[n].outbox[i].nr <= Offered
       /\ \A m \in Nodes : \A j \in DOMAIN bus[m].outbox :
            bus[m].outbox[j].nr = bus[n].outbox[i].nr => m = n /\ j = i
       /\ \A k \in DOMAIN watch.wire : watch.wire[k].frame.nr # bus[n].outbox[i].nr
  /\ \A k \in DOMAIN watch.wire :
       /\ watch.wire[k].frame.nr <= Offered
       /\ \A l \in DOMAIN watch.wire : watch.wire[k].frame.nr = watch.wire[l].frame.nr => k = l

(* How many of the transmissions have ended.                               *)
Landed == Len(watch.wire) - Len(net.carried)

(* Transmissions follow each other, and the one in flight is the last.     *)
WireInOrder ==
  /\ \A k \in DOMAIN watch.wire :
       /\ watch.wire[k].start <= watch.wire[k].end
       /\ \A l \in DOMAIN watch.wire : k < l => watch.wire[k].end <= watch.wire[l].start
       /\ k <= Landed => watch.wire[k].end <= net.now
  /\ InFlight =>
       /\ watch.wire # <<>>
       /\ watch.wire[Len(watch.wire)].frame = [net.carried[1] EXCEPT !.at = 0]
       /\ watch.wire[Len(watch.wire)].end = net.until
       /\ net.carried[1].at = net.until

(* The clock stays between the last end and the next, and the target.      *)
ClockInBounds ==
  /\ InFlight => net.now <= net.until
  /\ InFlight /\ call = Idle => net.now < net.until
  /\ call.op = "advance" => net.now <= call.target

(* A sequence of frames received is a part of the wire, in its order.      *)
FromTheWire(got, wire, landed) ==
  /\ \A i \in DOMAIN got : \E k \in 1..landed :
       wire[k].frame.nr = got[i].nr /\ wire[k].end = got[i].at
  /\ \A i, j \in DOMAIN got : \A k, l \in DOMAIN wire :
       i < j /\ wire[k].frame.nr = got[i].nr /\ wire[l].frame.nr = got[j].nr => k < l

(* Somebody who is not attached has a clean record.                        *)
Strangers ==
  \A n \in Nodes \ Attached :
    watch.offered[n] = 0 /\ watch.taken[n] = <<>> /\ watch.cleared[n] = [out |-> 0, in |-> 0]

(* A frame queued behind nothing is the head of its queue, and the most    *)
(* urgent of all still waits for the moment it could first start.          *)
MediumFree == IF InFlight THEN net.until ELSE net.now

NextIfUrgent(f, i) ==
  watch.free[f.nr] <= Horizon => i = 1 /\ (Foremost(f.of) => watch.free[f.nr] = MediumFree)

StartedWhenFree(sent) ==
  watch.free[sent.frame.nr] <= Horizon /\ Foremost(sent.frame.of) =>
    sent.start = watch.free[sent.frame.nr]

UrgentIsNext ==
  /\ \A n \in Nodes : \A i \in DOMAIN bus[n].outbox : NextIfUrgent(bus[n].outbox[i], i)
  /\ \A k \in DOMAIN watch.wire : StartedWhenFree(watch.wire[k])

BusInv ==
  /\ BusTypeOK /\ FramesAreNumbered /\ WireInOrder /\ ClockInBounds
  /\ \A n \in Nodes : FromTheWire(Reaches(n), watch.wire, Landed)
  /\ Accounted /\ Strangers /\ UrgentIsNext

-----------------------------------------------------------------------------
(* Moving the head of one sequence to the end of another, and putting an   *)
(* element at the end of the second, as the two read together.             *)
LEMMA HeadMoved ==
  ASSUME NEW S, NEW a \in Seq(S), NEW b \in Seq(S), b # <<>>
  PROVE  Append(a, Head(b)) \o Tail(b) = a \o b
<1>1. Head(b) \in S /\ Tail(b) \in Seq(S) /\ Len(Tail(b)) = Len(b) - 1
      /\ \A i \in 1..Len(Tail(b)) : Tail(b)[i] = b[i + 1]
  BY HeadTailProperties
<1>2. Head(b) = b[1] /\ Len(a) \in Nat /\ Len(b) \in Nat \ {0}
  BY LenProperties, EmptySeq
<1>3. Append(a, Head(b)) \in Seq(S) /\ Len(Append(a, Head(b))) = Len(a) + 1
      /\ Append(a, Head(b))[Len(a) + 1] = Head(b)
      /\ \A i \in 1..Len(a) : Append(a, Head(b))[i] = a[i]
  BY <1>1, AppendProperties
<1> DEFINE l == Append(a, Head(b)) \o Tail(b)
           r == a \o b
<1>4. l \in Seq(S) /\ r \in Seq(S) /\ Len(l) = Len(a) + Len(b) /\ Len(r) = Len(a) + Len(b)
  BY <1>1, <1>2, <1>3, ConcatProperties
<1>5. \A i \in 1..(Len(a) + Len(b)) : l[i] = r[i]
  BY <1>1, <1>2, <1>3, ConcatProperties
<1> HIDE DEF l, r
<1>6. l = r
  BY <1>4, <1>5, SeqEqual
<1> QED BY <1>6 DEF l, r

LEMMA PutLast ==
  ASSUME NEW S, NEW a \in Seq(S), NEW b \in Seq(S), NEW x \in S
  PROVE  a \o Append(b, x) = Append(a \o b, x)
<1>1. a \o b \in Seq(S) /\ <<x>> \in Seq(S)
  BY ConcatProperties
<1>2. a \o Append(b, x) = a \o (b \o <<x>>)
  BY AppendIsConcat
<1>3. a \o (b \o <<x>>) = (a \o b) \o <<x>>
  BY <1>1, ConcatAssociative
<1> QED BY <1>1, <1>2, <1>3, AppendIsConcat

-----------------------------------------------------------------------------
(* The initial state.                                                      *)
LEMMA BusInvInit == Init => BusInv
<1> SUFFICES ASSUME Init PROVE BusInv
  OBVIOUS
<1> USE DEF Init, BusInit, Limits, InFlight, Idle
<1>1. BusTypeOK
  <2>1. net \in MediumMembers
    BY Limits, EmptySeq DEF MediumMembers
  <2>2. \A n \in Nodes : bus[n] = FreshBus \/ bus[n] = [FreshBus EXCEPT !.open = TRUE]
    OBVIOUS
  <2>3. bus \in [Nodes -> Participant]
    BY <2>2, EmptySeq DEF Participant, FreshBus
  <2>4. call \in Call
    BY DEF Call
  <2>5. watch \in Watched
    BY EmptySeq DEF Watched
  <2>6. \A n \in Nodes : bus[n].outbox = <<>> /\ bus[n].inbox = <<>>
    BY <2>2 DEF FreshBus
  <2>7. \A i, j \in DOMAIN net.order : net.order[i] = net.order[j] => i = j
    BY Limits
  <2>8. Len(net.carried) <= 1 /\ (InFlight <=> net.from # {})
    BY EmptySeq
  <2>9. \A n \in Nodes :
          /\ \A i \in DOMAIN bus[n].outbox : bus[n].outbox[i].of \in Traffic[n]
          /\ Len(bus[n].outbox) <= TxLimit /\ Len(bus[n].inbox) <= RxLimit
    BY <2>6, EmptySeq, Limits
  <2> QED BY <2>1, <2>3, <2>4, <2>5, <2>6, <2>7, <2>8, <2>9 DEF BusTypeOK
<1>2. \A n \in Nodes : bus[n].outbox = <<>> /\ bus[n].inbox = <<>>
  BY DEF FreshBus
<1>3. FramesAreNumbered
  BY <1>2 DEF FramesAreNumbered
<1>4. WireInOrder
  BY DEF WireInOrder
<1>5. ClockInBounds
  BY DEF ClockInBounds
<1>6. \A n \in Nodes : Reaches(n) = <<>>
  BY <1>2, ConcatEmptySeq, EmptySeq DEF Reaches
<1>7. \A n \in Nodes : FromTheWire(Reaches(n), watch.wire, Landed)
  BY <1>6 DEF FromTheWire
<1>8. Accounted
  BY <1>2, <1>6 DEF Accounted, FreshBus
<1>9. Strangers
  BY DEF Strangers
<1>10. UrgentIsNext
  BY <1>2 DEF UrgentIsNext
<1> QED BY <1>1, <1>3, <1>4, <1>5, <1>7, <1>8, <1>9, <1>10 DEF BusInv

-----------------------------------------------------------------------------
(* What a step keeps that puts no frame anywhere.                          *)
OutboxesShrink == \A n \in Nodes : bus'[n].outbox = bus[n].outbox \/ bus'[n].outbox = <<>>

LEMMA OutboxFrame ==
  ASSUME BusTypeOK, NEW n \in Nodes, NEW i \in DOMAIN bus[n].outbox
  PROVE  bus[n].outbox[i] \in FrameUnderWay /\ i \in Nat \ {0}
<1>1. bus[n].outbox \in Seq(FrameUnderWay)
  BY DEF BusTypeOK, Participant
<1> QED BY <1>1

LEMMA WireFrame ==
  ASSUME BusTypeOK, NEW k \in DOMAIN watch.wire
  PROVE  /\ watch.wire[k] \in [frame : FrameUnderWay, start : Nat, end : Nat]
         /\ k \in 1..Len(watch.wire) /\ Len(watch.wire) \in Nat
<1>1. watch.wire \in Seq(Transmission)
  BY DEF BusTypeOK, Watched
<1>2. watch.wire[k] \in Transmission /\ k \in 1..Len(watch.wire) /\ Len(watch.wire) \in Nat
  BY <1>1, LenProperties, ElementOfSeq
<1> QED BY <1>2 DEF Transmission

LEMMA FramesKept ==
  ASSUME BusTypeOK, FramesAreNumbered, OutboxesShrink, watch'.wire = watch.wire,
         Offered \in Nat, Offered' \in Nat, Offered <= Offered'
  PROVE  FramesAreNumbered'
<1>1. \A n \in Nodes : \A i \in DOMAIN bus'[n].outbox :
        i \in DOMAIN bus[n].outbox /\ bus'[n].outbox[i] = bus[n].outbox[i]
  BY EmptySeq DEF OutboxesShrink
<1>2. \A n \in Nodes : \A i \in DOMAIN bus[n].outbox : bus[n].outbox[i].nr \in Nat
  BY OutboxFrame DEF FrameUnderWay
<1>3. \A k \in DOMAIN watch.wire : watch.wire[k].frame.nr \in Nat
  BY WireFrame DEF FrameUnderWay
<1>4. ASSUME NEW n \in Nodes, NEW i \in DOMAIN bus'[n].outbox
      PROVE  /\ bus'[n].outbox[i].at = 0 /\ bus'[n].outbox[i].nr <= Offered'
             /\ \A m \in Nodes : \A j \in DOMAIN bus'[m].outbox :
                  bus'[m].outbox[j].nr = bus'[n].outbox[i].nr => m = n /\ j = i
             /\ \A k \in DOMAIN watch'.wire : watch'.wire[k].frame.nr # bus'[n].outbox[i].nr
  BY <1>1, <1>2 DEF FramesAreNumbered
<1>5. ASSUME NEW k \in DOMAIN watch'.wire
      PROVE  /\ watch'.wire[k].frame.nr <= Offered'
             /\ \A l \in DOMAIN watch'.wire :
                  watch'.wire[k].frame.nr = watch'.wire[l].frame.nr => k = l
  BY <1>3 DEF FramesAreNumbered
<1> QED BY <1>4, <1>5 DEF FramesAreNumbered

LEMMA UrgentKept ==
  ASSUME BusTypeOK, FramesAreNumbered, UrgentIsNext, OutboxesShrink, watch'.wire = watch.wire,
         Offered \in Nat, \A nr \in 1..Offered : watch'.free[nr] = watch.free[nr],
         (\E n \in Nodes : bus'[n].outbox # <<>>) => MediumFree' = MediumFree
  PROVE  UrgentIsNext'
<1>1. \A n \in Nodes : \A i \in DOMAIN bus'[n].outbox :
        /\ i \in DOMAIN bus[n].outbox /\ bus'[n].outbox[i] = bus[n].outbox[i]
        /\ MediumFree' = MediumFree
  BY EmptySeq DEF OutboxesShrink
<1>2. \A n \in Nodes : \A i \in DOMAIN bus[n].outbox :
        bus[n].outbox[i].nr \in 1..Offered
  BY OutboxFrame DEF FrameUnderWay, FramesAreNumbered
<1>3. \A k \in DOMAIN watch.wire : watch.wire[k].frame.nr \in 1..Offered
  BY WireFrame DEF FrameUnderWay, FramesAreNumbered
<1>4. ASSUME NEW n \in Nodes, NEW i \in DOMAIN bus'[n].outbox, watch'.free[bus'[n].outbox[i].nr] <= Horizon
      PROVE  i = 1 /\ (Foremost(bus'[n].outbox[i].of) => watch'.free[bus'[n].outbox[i].nr] = MediumFree')
  BY <1>1, <1>2, <1>4 DEF UrgentIsNext, NextIfUrgent
<1>5. ASSUME NEW k \in DOMAIN watch'.wire, watch'.free[watch'.wire[k].frame.nr] <= Horizon,
             Foremost(watch'.wire[k].frame.of)
      PROVE  watch'.wire[k].start = watch'.free[watch'.wire[k].frame.nr]
  BY <1>3, <1>5 DEF UrgentIsNext, StartedWhenFree
<1> QED BY <1>4, <1>5 DEF UrgentIsNext, NextIfUrgent, StartedWhenFree

LEMMA WireKept ==
  ASSUME BusTypeOK, WireInOrder, watch'.wire = watch.wire,
         net'.carried = net.carried, net'.until = net.until,
         net.now \in Nat, net'.now \in Nat, net.now <= net'.now
  PROVE  WireInOrder'
<1>1. \A k \in DOMAIN watch.wire : watch.wire[k].end \in Nat
  BY WireFrame
<1>2. Landed' = Landed /\ (InFlight' <=> InFlight)
  BY DEF InFlight, Landed
<1>3. ASSUME NEW k \in DOMAIN watch'.wire
      PROVE  /\ watch'.wire[k].start <= watch'.wire[k].end
             /\ \A l \in DOMAIN watch'.wire : k < l => watch'.wire[k].end <= watch'.wire[l].start
             /\ k <= Landed' => watch'.wire[k].end <= net'.now
  BY <1>1, <1>2 DEF WireInOrder
<1> QED BY <1>2, <1>3 DEF WireInOrder

LEMMA GotKept ==
  ASSUME NEW S, NEW got \in Seq(S), NEW more \in Seq(S), NEW wire, NEW landed \in Int,
         NEW later \in Int, landed <= later, FromTheWire(got \o more, wire, landed)
  PROVE  FromTheWire(got, wire, later)
<1>1. \A i \in DOMAIN got : i \in DOMAIN (got \o more) /\ (got \o more)[i] = got[i]
  BY ConcatProperties, LenProperties
<1>2. 1..landed \subseteq 1..later
  OBVIOUS
<1> HIDE DEF FromTheWire
<1>3. ASSUME NEW i \in DOMAIN got
      PROVE  \E k \in 1..later : wire[k].frame.nr = got[i].nr /\ wire[k].end = got[i].at
  BY <1>1, <1>2 DEF FromTheWire
<1>4. ASSUME NEW i \in DOMAIN got, NEW j \in DOMAIN got, NEW k \in DOMAIN wire, NEW l \in DOMAIN wire,
             i < j, wire[k].frame.nr = got[i].nr, wire[l].frame.nr = got[j].nr
      PROVE  k < l
  BY <1>1, <1>4 DEF FromTheWire
<1> QED BY <1>3, <1>4 DEF FromTheWire

(* The three sequences that a program's frames can become are prefixes.    *)
LEMMA QuietStep ==
  ASSUME BusInv, BusTypeOK', OutboxesShrink, watch'.wire = watch.wire,
         net'.carried = net.carried, net'.until = net.until, net.now <= net'.now,
         Offered <= Offered', \A nr \in 1..Offered : watch'.free[nr] = watch.free[nr],
         (\E n \in Nodes : bus'[n].outbox # <<>>) => MediumFree' = MediumFree,
         \A n \in Nodes : Reaches(n)' = Reaches(n) \/ Reaches(n)' = watch.taken[n] \/ Reaches(n)' = <<>>
  PROVE  /\ FramesAreNumbered' /\ WireInOrder' /\ UrgentIsNext'
         /\ \A n \in Nodes : FromTheWire(Reaches(n), watch.wire, Landed)'
<1>1. net.now \in Nat /\ net'.now \in Nat /\ Offered \in Nat /\ Offered' \in Nat
  BY LenProperties DEF BusInv, BusTypeOK, MediumMembers, Watched, Offered
<1>2. Landed \in Int /\ Landed' = Landed
  BY LenProperties DEF BusInv, BusTypeOK, MediumMembers, Watched, Landed
<1>3. ASSUME NEW n \in Nodes PROVE FromTheWire(Reaches(n), watch.wire, Landed)'
  <2>1. watch.taken[n] \in Seq(FrameUnderWay) /\ bus[n].inbox \in Seq(FrameUnderWay)
    BY DEF BusInv, BusTypeOK, Watched, Participant
  <2>2. FromTheWire(Reaches(n), watch.wire, Landed)
    BY DEF BusInv
  <2>3. FromTheWire(watch.taken[n], watch.wire, Landed)
    BY <1>2, <2>1, <2>2, GotKept DEF Reaches
  <2>4. FromTheWire(<<>>, watch.wire, Landed)
    BY DEF FromTheWire
  <2> QED BY <1>2, <2>2, <2>3, <2>4
<1>4. FramesAreNumbered'
  BY <1>1, FramesKept DEF BusInv
<1>5. WireInOrder'
  BY <1>1, WireKept DEF BusInv
<1>6. UrgentIsNext'
  BY <1>1, UrgentKept DEF BusInv
<1> QED BY <1>3, <1>4, <1>5, <1>6

-----------------------------------------------------------------------------
(* Each step keeps the invariant.                                          *)
LEMMA Typed ==
  ASSUME BusTypeOK
  PROVE  /\ net \in MediumMembers /\ bus \in [Nodes -> Participant] /\ call \in Call /\ watch \in Watched
         /\ net.order \in Seq(Nodes) /\ Attached \subseteq Nodes
         /\ net.now \in Nat /\ net.until \in Nat /\ Offered \in Nat
         /\ \A n \in Nodes :
              /\ bus[n].outbox \in Seq(FrameUnderWay) /\ bus[n].inbox \in Seq(FrameUnderWay)
              /\ Len(bus[n].outbox) \in Nat /\ Len(bus[n].inbox) \in Nat
              /\ watch.taken[n] \in Seq(FrameUnderWay)
<1>1. net \in MediumMembers /\ bus \in [Nodes -> Participant] /\ call \in Call /\ watch \in Watched
  BY DEF BusTypeOK
<1>2. net.order \in Seq(Nodes) /\ net.now \in Nat /\ net.until \in Nat
  BY <1>1 DEF MediumMembers
<1>3. Attached \subseteq Nodes
  BY <1>2 DEF Attached
<1>4. Offered \in Nat
  BY <1>1, LenProperties DEF Watched, Offered
<1>5. ASSUME NEW n \in Nodes
      PROVE  bus[n].outbox \in Seq(FrameUnderWay) /\ bus[n].inbox \in Seq(FrameUnderWay)
             /\ watch.taken[n] \in Seq(FrameUnderWay)
  BY <1>1 DEF Participant, Watched
<1> QED BY <1>1, <1>2, <1>3, <1>4, <1>5, LenProperties

LEMMA WatchedField ==
  ASSUME NEW w \in Watched
  PROVE  /\ [w EXCEPT !.made = @ + 1] \in Watched /\ [w EXCEPT !.changes = @ + 1] \in Watched
         /\ \A t \in Nat : [w EXCEPT !.free = Append(@, t)] \in Watched
         /\ \A x \in Transmission : [w EXCEPT !.wire = Append(@, x)] \in Watched
         /\ \A t \in [Nodes -> Seq(FrameUnderWay)] : [w EXCEPT !.taken = t] \in Watched
         /\ \A n \in Nodes :
              /\ [w EXCEPT !.offered[n] = 0] \in Watched /\ [w EXCEPT !.offered[n] = @ + 1] \in Watched
              /\ [w EXCEPT !.taken[n] = <<>>] \in Watched
              /\ \A c \in [out : Nat, in : Nat] : [w EXCEPT !.cleared[n] = c] \in Watched
<1> DEFINE W == Seq(Transmission)
           F == Seq(Nat)
           O == [Nodes -> Nat]
           T == [Nodes -> Seq(FrameUnderWay)]
           C == [Nodes -> [out : Nat, in : Nat]]
           All == [made : Nat, changes : Nat, free : F, wire : W, offered : O, taken : T, cleared : C]
<1>1. w \in All
  BY DEF Watched
<1>2. All = Watched
  BY DEF Watched
<1>3. /\ \A t \in Nat : Append(w.free, t) \in F
      /\ \A x \in Transmission : Append(w.wire, x) \in W
  BY <1>1, AppendProperties
<1>4. ASSUME NEW n \in Nodes
      PROVE  /\ [w.offered EXCEPT ![n] = 0] \in O /\ [w.offered EXCEPT ![n] = @ + 1] \in O
             /\ [w.taken EXCEPT ![n] = <<>>] \in T
             /\ \A c \in [out : Nat, in : Nat] : [w.cleared EXCEPT ![n] = c] \in C
  BY <1>1, EmptySeq
<1> HIDE DEF F, W, O, T, C
<1>5. /\ [w EXCEPT !.made = @ + 1] \in All /\ [w EXCEPT !.changes = @ + 1] \in All
      /\ \A x \in F : [w EXCEPT !.free = x] \in All
      /\ \A x \in W : [w EXCEPT !.wire = x] \in All
      /\ \A x \in O : [w EXCEPT !.offered = x] \in All
      /\ \A x \in T : [w EXCEPT !.taken = x] \in All
      /\ \A x \in C : [w EXCEPT !.cleared = x] \in All
  BY <1>1
<1> HIDE DEF All
<1>6. ASSUME NEW n \in Nodes
      PROVE  /\ [w EXCEPT !.offered[n] = 0] \in All /\ [w EXCEPT !.offered[n] = @ + 1] \in All
             /\ [w EXCEPT !.taken[n] = <<>>] \in All
             /\ \A c \in [out : Nat, in : Nat] : [w EXCEPT !.cleared[n] = c] \in All
  BY <1>4, <1>5
<1>7. \A t \in [Nodes -> Seq(FrameUnderWay)] : [w EXCEPT !.taken = t] \in All
  BY <1>5 DEF T
<1> QED BY <1>2, <1>3, <1>5, <1>6, <1>7

LEMMA WatchedSteps ==
  ASSUME BusTypeOK
  PROVE  /\ [watch EXCEPT !.made = @ + 1] \in Watched /\ [watch EXCEPT !.changes = @ + 1] \in Watched
         /\ \A n \in Nodes :
              /\ [watch EXCEPT !.changes = @ + 1, !.offered[n] = 0, !.taken[n] = <<>>,
                               !.cleared[n] = [out |-> 0, in |-> 0]] \in Watched
              /\ \A c \in [out : Nat, in : Nat] :
                   [watch EXCEPT !.changes = @ + 1, !.cleared[n] = c] \in Watched
              /\ \A t \in Nat :
                   [watch EXCEPT !.offered[n] = @ + 1, !.free = Append(@, t)] \in Watched
<1>1. watch \in Watched
  BY Typed
<1> DEFINE w == [watch EXCEPT !.changes = @ + 1]
<1>2. w \in Watched /\ [watch EXCEPT !.made = @ + 1] \in Watched
  BY <1>1, WatchedField
<1> HIDE DEF w
<1>3. ASSUME NEW n \in Nodes, NEW c \in [out : Nat, in : Nat]
      PROVE  /\ [w EXCEPT !.cleared[n] = c] \in Watched
             /\ [w EXCEPT !.offered[n] = 0, !.taken[n] = <<>>, !.cleared[n] = c] \in Watched
  <2> DEFINE v == [w EXCEPT !.offered[n] = 0]
             u == [v EXCEPT !.taken[n] = <<>>]
  <2>1. [w EXCEPT !.cleared[n] = c] \in Watched /\ v \in Watched
    BY <1>2, WatchedField
  <2> HIDE DEF v
  <2>2. u \in Watched
    BY <2>1, WatchedField
  <2> HIDE DEF u
  <2>3. [u EXCEPT !.cleared[n] = c] \in Watched
    BY <2>2, WatchedField
  <2> QED BY <2>1, <2>3 DEF u, v
<1>4. ASSUME NEW n \in Nodes, NEW t \in Nat
      PROVE  [watch EXCEPT !.offered[n] = @ + 1, !.free = Append(@, t)] \in Watched
  <2> DEFINE v == [watch EXCEPT !.offered[n] = @ + 1]
  <2>1. v \in Watched
    BY <1>1, WatchedField
  <2> HIDE DEF v
  <2>2. [v EXCEPT !.free = Append(@, t)] \in Watched
    BY <2>1, WatchedField
  <2> QED BY <2>2 DEF v
<1>5. [out |-> 0, in |-> 0] \in [out : Nat, in : Nat]
  OBVIOUS
<1> QED BY <1>2, <1>3, <1>4, <1>5 DEF w

LEMMA ParticipantField ==
  ASSUME NEW q \in Participant
  PROVE  /\ \A k \in Nat :
              /\ [q EXCEPT !.sent = k] \in Participant /\ [q EXCEPT !.received = k] \in Participant
              /\ [q EXCEPT !.dropped = k] \in Participant /\ [q EXCEPT !.refused = k] \in Participant
              /\ [q EXCEPT !.losses = k] \in Participant /\ [q EXCEPT !.bits = k] \in Participant
              /\ [q EXCEPT !.first = k] \in Participant /\ [q EXCEPT !.last = k] \in Participant
         /\ \A s \in Seq(FrameUnderWay) :
              [q EXCEPT !.outbox = s] \in Participant /\ [q EXCEPT !.inbox = s] \in Participant
         /\ q.sent \in Nat /\ q.received \in Nat /\ q.dropped \in Nat /\ q.refused \in Nat
         /\ q.losses \in Nat /\ q.bits \in Nat /\ q.first \in Nat /\ q.last \in Nat
         /\ q.outbox \in Seq(FrameUnderWay) /\ q.inbox \in Seq(FrameUnderWay)
<1> DEFINE S == Seq(FrameUnderWay)
           F == FilterSets \cup {<<>>}
           All == [open : BOOLEAN, outbox : S, inbox : S, filters : F, sent : Nat, received : Nat,
                   dropped : Nat, refused : Nat, losses : Nat, bits : Nat, first : Nat, last : Nat]
<1>1. q \in All /\ All = Participant
  BY DEF Participant
<1> HIDE DEF S, F
<1>2. \A k \in Nat :
        /\ [q EXCEPT !.sent = k] \in All /\ [q EXCEPT !.received = k] \in All
        /\ [q EXCEPT !.dropped = k] \in All /\ [q EXCEPT !.refused = k] \in All
        /\ [q EXCEPT !.losses = k] \in All /\ [q EXCEPT !.bits = k] \in All
        /\ [q EXCEPT !.first = k] \in All /\ [q EXCEPT !.last = k] \in All
  BY <1>1
<1>3. \A s \in S : [q EXCEPT !.outbox = s] \in All /\ [q EXCEPT !.inbox = s] \in All
  BY <1>1
<1>4. /\ q.sent \in Nat /\ q.received \in Nat /\ q.dropped \in Nat /\ q.refused \in Nat
      /\ q.losses \in Nat /\ q.bits \in Nat /\ q.first \in Nat /\ q.last \in Nat
      /\ q.outbox \in S /\ q.inbox \in S
  BY <1>1
<1> HIDE DEF All
<1> QED BY <1>1, <1>2, <1>3, <1>4 DEF S

LEMMA FreshType == FreshBus \in Participant
BY EmptySeq DEF FreshBus, Participant

LEMMA JoinKeeps ==
  ASSUME BusInv, NEW n \in Nodes, Join(n)
  PROVE  BusInv'
<1> USE DEF Join, Attach
<1>0. BusTypeOK
  BY DEF BusInv
<1>1. Append(net.order, n) \in Seq(Nodes)
      /\ \A i, j \in DOMAIN Append(net.order, n) : Append(net.order, n)[i] = Append(net.order, n)[j] => i = j
  <2> DEFINE len == Len(net.order)
  <2>1. len \in Nat /\ DOMAIN net.order = 1..len /\ net.order \in Seq(Nodes)
    BY <1>0, Typed, LenProperties
  <2>2. /\ Append(net.order, n) \in Seq(Nodes) /\ DOMAIN Append(net.order, n) = 1..(len + 1)
        /\ \A i \in 1..len : Append(net.order, n)[i] = net.order[i]
        /\ Append(net.order, n)[len + 1] = n
    BY <2>1, AppendProperties, LenProperties
  <2>3. \A i \in 1..len : net.order[i] # n
    BY <2>1 DEF Attached
  <2>4. \A i \in 1..(len + 1) : i = len + 1 \/ i \in 1..len
    BY <2>1
  <2>5. \A i, j \in 1..len : net.order[i] = net.order[j] => i = j
    BY <1>0, <2>1 DEF BusTypeOK
  <2> HIDE DEF len
  <2> QED BY <2>2, <2>3, <2>4, <2>5
<1>2. bus' = [bus EXCEPT ![n] = FreshBus] /\ bus \in [Nodes -> Participant]
  BY <1>0, Typed
<1>3. \A m \in Nodes : bus'[m] = IF m = n THEN FreshBus ELSE bus[m]
  BY <1>2
<1>4. Attached \subseteq Attached'
  <2>1. net.order \in Seq(Nodes) /\ net'.order = Append(net.order, n)
    BY <1>0, <1>1, Typed
  <2>2. /\ DOMAIN net.order = 1..Len(net.order) /\ Len(net.order) \in Nat
        /\ DOMAIN net'.order = 1..Len(net'.order)
    BY <2>1, AppendProperties, LenProperties
  <2>3. /\ Len(net'.order) = Len(net.order) + 1
        /\ \A i \in 1..Len(net.order) : net'.order[i] = net.order[i]
    BY <2>1, AppendProperties
  <2>4. \A i \in DOMAIN net.order : i \in DOMAIN net'.order /\ net'.order[i] = net.order[i]
    BY <2>2, <2>3
  <2> QED BY <2>4 DEF Attached
<1>5. BusTypeOK'
  <2>1. net' \in MediumMembers
    BY <1>0, <1>1, Typed DEF MediumMembers
  <2>2. watch' \in Watched
    BY <1>0, WatchedSteps
  <2>3. call' \in Call
    BY <1>0, Typed
  <2>4. bus' \in [Nodes -> Participant]
    BY <1>2, FreshType
  <2>5. \A i, j \in DOMAIN net'.order : net'.order[i] = net'.order[j] => i = j
    BY <1>0, <1>1, Typed DEF MediumMembers
  <2>6. Len(net'.carried) <= 1 /\ (InFlight' <=> net'.from # {})
    BY <1>0, Typed DEF BusTypeOK, InFlight, MediumMembers
  <2>7. \A m \in Nodes :
          /\ \A i \in DOMAIN bus'[m].outbox : bus'[m].outbox[i].of \in Traffic[m]
          /\ Len(bus'[m].outbox) <= TxLimit /\ Len(bus'[m].inbox) <= RxLimit
          /\ m \notin Attached' \/ ~bus'[m].open => bus'[m].outbox = <<>> /\ bus'[m].inbox = <<>>
    BY <1>0, <1>3, <1>4, EmptySeq, Limits DEF BusTypeOK, FreshBus, Limits
  <2> QED BY <2>1, <2>2, <2>3, <2>4, <2>5, <2>6, <2>7 DEF BusTypeOK
<1>6. \A m \in Nodes : bus'[m].outbox = bus[m].outbox /\ bus'[m].inbox = bus[m].inbox
  BY <1>0, <1>3 DEF FreshBus, BusTypeOK
<1>7. \A m \in Nodes : Reaches(m)' = Reaches(m)
  BY <1>0, <1>6, Typed DEF Reaches, Watched
<1>8. FramesAreNumbered' /\ WireInOrder' /\ UrgentIsNext'
      /\ \A m \in Nodes : FromTheWire(Reaches(m), watch.wire, Landed)'
  BY <1>0, <1>5, <1>6, <1>7, Typed, QuietStep DEF OutboxesShrink, Offered, MediumFree, InFlight, MediumMembers
<1>9. ClockInBounds'
  BY <1>0, Typed DEF BusInv, ClockInBounds, InFlight, MediumMembers
<1>10. Accounted'
  <2>1. watch.taken[n] = <<>> /\ bus[n].inbox = <<>> /\ watch.offered[n] = 0 /\ watch.cleared[n] = [out |-> 0, in |-> 0]
    BY <1>0 DEF BusInv, Strangers, BusTypeOK
  <2>2. Reaches(n)' = <<>>
    BY <1>7, <2>1, EmptySeq, ConcatEmptySeq DEF Reaches
  <2>3. watch'.offered = watch.offered /\ watch'.cleared = watch.cleared
    BY <1>0, Typed
  <2>4. ASSUME NEW m \in Nodes, m # n
        PROVE  /\ watch'.offered[m] = bus'[m].sent + bus'[m].refused + Len(bus'[m].outbox) + watch'.cleared[m].out
               /\ bus'[m].received = Len(Reaches(m)') + watch'.cleared[m].in
    BY <1>3, <1>7, <2>3, <2>4 DEF BusInv, Accounted
  <2>5. /\ watch'.offered[n] = bus'[n].sent + bus'[n].refused + Len(bus'[n].outbox) + watch'.cleared[n].out
        /\ bus'[n].received = Len(Reaches(n)') + watch'.cleared[n].in
    BY <1>3, <2>1, <2>2, <2>3, EmptySeq DEF FreshBus
  <2> QED BY <2>4, <2>5 DEF Accounted
<1>11. Strangers'
  BY <1>0, <1>4, Typed DEF BusInv, Strangers, Watched
<1> QED BY <1>5, <1>8, <1>9, <1>10, <1>11 DEF BusInv

LEMMA LeavesKeeps ==
  ASSUME BusInv, NEW n \in Nodes, Leaves(n)
  PROVE  BusInv'
<1> USE DEF Leaves, Destroy
<1>0. BusTypeOK
  BY DEF BusInv
<1>1. /\ Erased(n) \in Seq(Nodes)
      /\ \A i, j \in DOMAIN Erased(n) : Erased(n)[i] = Erased(n)[j] => i = j
      /\ {Erased(n)[i] : i \in DOMAIN Erased(n)} = Attached \ {n}
  BY <1>0, Typed, ErasedOrder DEF BusTypeOK
<1>2. bus' = [bus EXCEPT ![n] = FreshBus] /\ bus \in [Nodes -> Participant]
  BY <1>0, Typed
<1>3. \A m \in Nodes : bus'[m] = IF m = n THEN FreshBus ELSE bus[m]
  BY <1>2
<1>4. net'.order = Erased(n)
  BY <1>0, Typed DEF MediumMembers
<1>5. Attached' = Attached \ {n}
  BY <1>1, <1>4 DEF Attached
<1>6. BusTypeOK'
  <2>1. net' \in MediumMembers
    BY <1>0, <1>1, Typed DEF MediumMembers
  <2>2. watch' \in Watched
    BY <1>0, WatchedSteps
  <2>3. call' \in Call
    BY <1>0, Typed
  <2>4. bus' \in [Nodes -> Participant]
    BY <1>2, FreshType
  <2>5. \A i, j \in DOMAIN net'.order : net'.order[i] = net'.order[j] => i = j
    BY <1>1, <1>4
  <2>6. Len(net'.carried) <= 1 /\ (InFlight' <=> net'.from # {})
    BY <1>0, Typed DEF BusTypeOK, InFlight, MediumMembers
  <2>7. \A m \in Nodes :
          /\ \A i \in DOMAIN bus'[m].outbox : bus'[m].outbox[i].of \in Traffic[m]
          /\ Len(bus'[m].outbox) <= TxLimit /\ Len(bus'[m].inbox) <= RxLimit
          /\ m \notin Attached' \/ ~bus'[m].open => bus'[m].outbox = <<>> /\ bus'[m].inbox = <<>>
    BY <1>0, <1>3, <1>5, EmptySeq, Limits DEF BusTypeOK, FreshBus, Limits
  <2> QED BY <2>1, <2>2, <2>3, <2>4, <2>5, <2>6, <2>7 DEF BusTypeOK
<1>7. /\ \A m \in Nodes \ {n} : watch'.taken[m] = watch.taken[m] /\ watch'.offered[m] = watch.offered[m]
                               /\ watch'.cleared[m] = watch.cleared[m]
      /\ watch'.taken[n] = <<>> /\ watch'.offered[n] = 0 /\ watch'.cleared[n] = [out |-> 0, in |-> 0]
      /\ watch'.free = watch.free /\ watch'.wire = watch.wire
  BY <1>0, Typed DEF Watched
<1>8. Reaches(n)' = <<>> /\ \A m \in Nodes : m # n => Reaches(m)' = Reaches(m)
  <2>1. bus'[n].inbox = <<>> /\ watch'.taken[n] = <<>> /\ <<>> \o <<>> = <<>>
    BY <1>3, <1>7, EmptySeq, ConcatEmptySeq DEF FreshBus
  <2> QED BY <1>3, <1>7, <2>1 DEF Reaches
<1>9. FramesAreNumbered' /\ WireInOrder' /\ UrgentIsNext'
      /\ \A m \in Nodes : FromTheWire(Reaches(m), watch.wire, Landed)'
  <2>1. OutboxesShrink
    BY <1>3 DEF OutboxesShrink, FreshBus
  <2> QED BY <1>0, <1>6, <1>7, <1>8, <2>1, Typed, QuietStep DEF Offered, MediumFree, InFlight, MediumMembers
<1>10. ClockInBounds'
  BY <1>0, Typed DEF BusInv, ClockInBounds, InFlight, MediumMembers
<1>11. Accounted'
  <2>1. ASSUME NEW m \in Nodes, m # n
        PROVE  /\ watch'.offered[m] = bus'[m].sent + bus'[m].refused + Len(bus'[m].outbox) + watch'.cleared[m].out
               /\ bus'[m].received = Len(Reaches(m)') + watch'.cleared[m].in
    BY <1>3, <1>7, <1>8, <2>1 DEF BusInv, Accounted
  <2>2. /\ watch'.offered[n] = bus'[n].sent + bus'[n].refused + Len(bus'[n].outbox) + watch'.cleared[n].out
        /\ bus'[n].received = Len(Reaches(n)') + watch'.cleared[n].in
    BY <1>3, <1>7, <1>8, EmptySeq DEF FreshBus
  <2> QED BY <2>1, <2>2 DEF Accounted
<1>12. Strangers'
  BY <1>5, <1>7 DEF BusInv, Strangers
<1> QED BY <1>6, <1>8, <1>9, <1>10, <1>11, <1>12 DEF BusInv

(* A call is made or returns, or the clock moves.                          *)
MediumStays ==
  /\ net' \in MediumMembers /\ net'.order = net.order /\ net'.from = net.from
  /\ net'.carried = net.carried /\ net'.until = net.until /\ net.now <= net'.now
  /\ call' \in Call /\ ClockInBounds'
  /\ (\E n \in Nodes : bus'[n].outbox # <<>>) => MediumFree' = MediumFree

(* A participant opens, closes, sets filters or takes a frame.             *)
Touches(n, p) ==
  /\ n \in Attached
  /\ bus' = [bus EXCEPT ![n] = p] /\ p \in Participant
  /\ watch' \in Watched /\ watch'.wire = watch.wire /\ watch'.free = watch.free
  /\ watch'.offered = watch.offered
  /\ \A m \in Nodes : m # n => watch'.taken[m] = watch.taken[m] /\ watch'.cleared[m] = watch.cleared[m]
  /\ p.outbox = bus[n].outbox \/ p.outbox = <<>>
  /\ Len(p.inbox) <= RxLimit
  /\ ~p.open => p.outbox = <<>> /\ p.inbox = <<>>
  /\ watch'.taken[n] \o p.inbox = Reaches(n) \/ watch'.taken[n] \o p.inbox = watch.taken[n]
  /\ watch.offered[n] = p.sent + p.refused + Len(p.outbox) + watch'.cleared[n].out
  /\ p.received = Len(watch'.taken[n] \o p.inbox) + watch'.cleared[n].in

LEMMA ParticipantStep ==
  ASSUME BusInv, NEW n \in Nodes, NEW p, MediumStays, Touches(n, p)
  PROVE  BusInv'
<1>0. BusTypeOK
  BY DEF BusInv
<1>1. bus'[n] = p /\ \A m \in Nodes : m # n => bus'[m] = bus[m]
  BY <1>0, Typed DEF Touches
<1>2. BusTypeOK'
  <2>1. bus' \in [Nodes -> Participant]
    BY <1>0, Typed DEF Touches
  <2>2. ASSUME NEW m \in Nodes
        PROVE
          /\ \A i \in DOMAIN bus'[m].outbox : bus'[m].outbox[i].of \in Traffic[m]
          /\ Len(bus'[m].outbox) <= TxLimit /\ Len(bus'[m].inbox) <= RxLimit
          /\ m \notin Attached' \/ ~bus'[m].open => bus'[m].outbox = <<>> /\ bus'[m].inbox = <<>>
    <3>1. CASE m = n
      BY <1>0, <1>1, <3>1, EmptySeq, Limits DEF BusTypeOK, Limits, Attached, Touches, MediumStays
    <3>2. CASE m # n
      BY <1>0, <1>1, <3>2 DEF BusTypeOK, Attached, Touches, MediumStays
    <3> QED BY <3>1, <3>2
  <2> QED BY <1>0, <2>1, <2>2 DEF BusTypeOK, InFlight, Touches, MediumStays
<1>3. Reaches(n)' = watch'.taken[n] \o p.inbox /\ \A m \in Nodes : m # n => Reaches(m)' = Reaches(m)
  BY <1>1 DEF Reaches, Touches
<1>4. FramesAreNumbered' /\ WireInOrder' /\ UrgentIsNext'
      /\ \A m \in Nodes : FromTheWire(Reaches(m), watch.wire, Landed)'
  <2>1. OutboxesShrink
    BY <1>1 DEF OutboxesShrink, Touches
  <2>2. \A m \in Nodes : Reaches(m)' = Reaches(m) \/ Reaches(m)' = watch.taken[m] \/ Reaches(m)' = <<>>
    BY <1>3 DEF Touches
  <2>3. UNCHANGED <<watch.wire, watch.free>>
    BY DEF Touches
  <2> QED BY <1>0, <1>2, <2>1, <2>2, <2>3, Typed, QuietStep DEF Offered, MediumStays
<1>5. ClockInBounds'
  BY DEF MediumStays
<1>6. Accounted'
  <2>1. ASSUME NEW m \in Nodes, m # n
        PROVE  /\ watch'.offered[m] = bus'[m].sent + bus'[m].refused + Len(bus'[m].outbox) + watch'.cleared[m].out
               /\ bus'[m].received = Len(Reaches(m)') + watch'.cleared[m].in
    <3>1. bus'[m] = bus[m] /\ Reaches(m)' = Reaches(m)
          /\ watch'.offered[m] = watch.offered[m] /\ watch'.cleared[m] = watch.cleared[m]
      BY <1>1, <1>3, <2>1 DEF Touches
    <3> QED BY <3>1 DEF BusInv, Accounted
  <2>2. /\ watch'.offered[n] = bus'[n].sent + bus'[n].refused + Len(bus'[n].outbox) + watch'.cleared[n].out
        /\ bus'[n].received = Len(Reaches(n)') + watch'.cleared[n].in
    BY <1>1, <1>3 DEF Touches
  <2> QED BY <2>1, <2>2 DEF Accounted
<1>7. Strangers'
  BY DEF BusInv, Strangers, Attached, Touches, MediumStays
<1> QED BY <1>2, <1>4, <1>5, <1>6, <1>7 DEF BusInv

LEMMA CallStep ==
  ASSUME BusInv, MediumStays, bus' = bus, watch' \in Watched,
         watch'.wire = watch.wire, watch'.free = watch.free, watch'.offered = watch.offered,
         watch'.taken = watch.taken, watch'.cleared = watch.cleared
  PROVE  BusInv'
<1>0. BusTypeOK
  BY DEF BusInv
<1>1. BusTypeOK'
  BY <1>0 DEF BusTypeOK, MediumStays, InFlight, Attached
<1>2. \A n \in Nodes : Reaches(n)' = Reaches(n)
  BY DEF Reaches
<1>3. FramesAreNumbered' /\ WireInOrder' /\ UrgentIsNext'
      /\ \A n \in Nodes : FromTheWire(Reaches(n), watch.wire, Landed)'
  BY <1>0, <1>1, <1>2, Typed, QuietStep DEF OutboxesShrink, Offered, MediumStays
<1>4. Accounted'
  BY <1>2 DEF BusInv, Accounted
<1>5. Strangers'
  BY DEF BusInv, Strangers, Attached, MediumStays
<1> QED BY <1>1, <1>2, <1>3, <1>4, <1>5 DEF BusInv, MediumStays

LEMMA OpensKeeps ==
  ASSUME BusInv, NEW n \in Nodes, Opens(n)
  PROVE  BusInv'
<1> USE DEF Opens, Open, Unwatched
<1>0. BusTypeOK
  BY DEF BusInv
<1> DEFINE p == [bus[n] EXCEPT !.open = TRUE]
<1>1. bus[n] \in Participant
  BY <1>0, Typed
<1>2. p \in Participant /\ p.open /\ p.outbox = bus[n].outbox /\ p.inbox = bus[n].inbox
      /\ p.sent = bus[n].sent /\ p.refused = bus[n].refused /\ p.received = bus[n].received
  BY <1>1 DEF Participant
<1>3. bus' = [bus EXCEPT ![n] = p]
  BY <1>0, Typed
<1> HIDE DEF p
<1>4. MediumStays
  BY <1>0, Typed DEF MediumStays, BusInv, ClockInBounds, InFlight, MediumFree
<1>5. Touches(n, p)
  BY <1>0, <1>2, <1>3, Typed DEF Touches, Reaches, BusInv, Accounted, BusTypeOK
<1> QED BY <1>4, <1>5, ParticipantStep

LEMMA ClosesKeeps ==
  ASSUME BusInv, NEW n \in Nodes, Closes(n)
  PROVE  BusInv'
<1>0. BusTypeOK
  BY DEF BusInv
<1> DEFINE p == [bus[n] EXCEPT !.open = FALSE, !.outbox = <<>>, !.inbox = <<>>]
           c == [out |-> watch.cleared[n].out + Len(bus[n].outbox),
                 in |-> watch.cleared[n].in + Len(bus[n].inbox)]
<1>1. bus[n] \in Participant /\ watch \in Watched
  BY <1>0, Typed
<1>2. p \in Participant /\ ~p.open /\ p.outbox = <<>> /\ p.inbox = <<>>
      /\ p.sent = bus[n].sent /\ p.refused = bus[n].refused /\ p.received = bus[n].received
  BY <1>1, EmptySeq DEF Participant
<1>3. bus' = [bus EXCEPT ![n] = p] /\ net' = net /\ call' = call /\ n \in Attached
  BY <1>0, Typed DEF Closes, Close
<1>4. watch.cleared[n] \in [out : Nat, in : Nat]
  BY <1>1 DEF Watched
<1>5. c \in [out : Nat, in : Nat]
  <2>1. watch.cleared[n].out \in Nat /\ watch.cleared[n].in \in Nat
    BY <1>4
  <2>2. Len(bus[n].outbox) \in Nat /\ Len(bus[n].inbox) \in Nat
    BY <1>0, Typed
  <2>3. c.out \in Nat /\ c.in \in Nat
    BY <2>1, <2>2
  <2> QED BY <2>3
<1>6. watch' = [watch EXCEPT !.changes = @ + 1, !.cleared[n] = c]
  BY <1>1 DEF Watched, Closes
<1>7. watch' \in Watched
  BY <1>0, <1>5, <1>6, WatchedSteps
<1>8. /\ watch'.wire = watch.wire /\ watch'.free = watch.free /\ watch'.offered = watch.offered
      /\ watch'.taken = watch.taken
      /\ \A m \in Nodes : watch'.cleared[m] = IF m = n THEN c ELSE watch.cleared[m]
  BY <1>1, <1>6 DEF Watched
<1>9. watch'.taken[n] \o p.inbox = watch.taken[n]
  BY <1>0, <1>2, <1>8, Typed, ConcatEmptySeq
<1>10. /\ watch.offered[n] = p.sent + p.refused + Len(p.outbox) + watch'.cleared[n].out
       /\ p.received = Len(watch.taken[n]) + watch'.cleared[n].in
  <2>1. Len(Reaches(n)) = Len(watch.taken[n]) + Len(bus[n].inbox)
    BY <1>0, Typed, ConcatProperties DEF Reaches
  <2>2. watch'.cleared[n] = c /\ Len(p.outbox) = 0
    BY <1>2, <1>8, EmptySeq
  <2>3. bus[n].sent \in Nat /\ bus[n].refused \in Nat /\ bus[n].received \in Nat
    BY <1>1 DEF Participant
  <2>4. Len(bus[n].outbox) \in Nat /\ Len(bus[n].inbox) \in Nat /\ Len(watch.taken[n]) \in Nat
    BY <1>0, Typed, LenProperties
  <2>5. /\ watch.offered[n] = bus[n].sent + bus[n].refused + Len(bus[n].outbox) + watch.cleared[n].out
        /\ bus[n].received = Len(Reaches(n)) + watch.cleared[n].in
    BY DEF BusInv, Accounted
  <2>6. c.out = watch.cleared[n].out + Len(bus[n].outbox) /\ c.in = watch.cleared[n].in + Len(bus[n].inbox)
        /\ watch.cleared[n].out \in Nat /\ watch.cleared[n].in \in Nat
    BY <1>4
  <2>7. p.sent = bus[n].sent /\ p.refused = bus[n].refused /\ p.received = bus[n].received
    BY <1>2
  <2> HIDE DEF p, c
  <2>8. watch.offered[n] = p.sent + p.refused + 0 + c.out
    BY <2>3, <2>4, <2>5, <2>6, <2>7
  <2>9. p.received = Len(watch.taken[n]) + c.in
    <3> DEFINE all == Len(Reaches(n))
               gone == Len(watch.taken[n])
               here == Len(bus[n].inbox)
               old == watch.cleared[n].in
    <3>1. /\ all = gone + here /\ gone \in Nat /\ here \in Nat /\ old \in Nat
          /\ p.received = all + old /\ c.in = old + here
      BY <2>1, <2>4, <2>5, <2>6, <2>7
    <3> HIDE DEF all, gone, here, old
    <3>2. p.received = gone + c.in
      BY <3>1
    <3> QED BY <3>2 DEF gone
  <2> QED BY <2>2, <2>8, <2>9
<1> HIDE DEF p, c
<1>11. MediumStays
  BY <1>0, <1>3, Typed DEF MediumStays, BusInv, ClockInBounds, InFlight, MediumFree
<1>12. Len(p.inbox) <= RxLimit
  BY <1>2, EmptySeq, Limits DEF Limits
<1>13. Touches(n, p)
  BY <1>2, <1>3, <1>7, <1>8, <1>9, <1>10, <1>12 DEF Touches
<1> QED BY <1>11, <1>13, ParticipantStep

LEMMA FiltersKeeps ==
  ASSUME BusInv, NEW n \in Nodes, Filters(n)
  PROVE  BusInv'
<1>0. BusTypeOK
  BY DEF BusInv
<1>1. PICK filters \in FilterSets : SetFilters(n, filters) /\ watch' = [watch EXCEPT !.changes = @ + 1]
  BY DEF Filters
<1> DEFINE p == [bus[n] EXCEPT !.filters = filters]
<1>2. bus[n] \in Participant /\ watch \in Watched
  BY <1>0, Typed
<1>3. p \in Participant /\ p.open = bus[n].open /\ p.outbox = bus[n].outbox /\ p.inbox = bus[n].inbox
      /\ p.sent = bus[n].sent /\ p.refused = bus[n].refused /\ p.received = bus[n].received
  BY <1>2 DEF Participant
<1>4. bus' = [bus EXCEPT ![n] = p] /\ net' = net /\ call' = call /\ n \in Attached
  BY <1>0, <1>1, Typed DEF SetFilters
<1>5. watch' \in Watched
  BY <1>0, <1>1, WatchedSteps
<1>6. /\ watch'.wire = watch.wire /\ watch'.free = watch.free /\ watch'.offered = watch.offered
      /\ watch'.taken = watch.taken /\ watch'.cleared = watch.cleared
  BY <1>1, <1>2 DEF Watched
<1> HIDE DEF p
<1>7. MediumStays
  BY <1>0, <1>4, Typed DEF MediumStays, BusInv, ClockInBounds, InFlight, MediumFree
<1>8. Touches(n, p)
  BY <1>0, <1>3, <1>4, <1>5, <1>6, Typed DEF Touches, Reaches, BusInv, Accounted, BusTypeOK
<1> QED BY <1>7, <1>8, ParticipantStep

(* What receive() hands over is the head of one inbox, or nothing.         *)
LEMMA TakenType ==
  ASSUME BusTypeOK
  PROVE  /\ Taken \in Watched
         /\ Taken.wire = watch.wire /\ Taken.free = watch.free
         /\ Taken.offered = watch.offered /\ Taken.cleared = watch.cleared
         /\ \A n \in Nodes :
              Taken.taken[n] = IF bus[n].inbox # <<>> /\ bus'[n].inbox = Tail(bus[n].inbox)
                               THEN Append(watch.taken[n], Head(bus[n].inbox)) ELSE watch.taken[n]
<1> DEFINE t == [n \in Nodes |-> IF bus[n].inbox # <<>> /\ bus'[n].inbox = Tail(bus[n].inbox)
                                THEN Append(watch.taken[n], Head(bus[n].inbox)) ELSE watch.taken[n]]
<1>1. watch \in Watched
  BY Typed
<1>2. t \in [Nodes -> Seq(FrameUnderWay)]
  <2>1. ASSUME NEW n \in Nodes, bus[n].inbox # <<>>
        PROVE  Append(watch.taken[n], Head(bus[n].inbox)) \in Seq(FrameUnderWay)
    BY <2>1, Typed, HeadTailProperties, AppendProperties
  <2>2. ASSUME NEW n \in Nodes PROVE watch.taken[n] \in Seq(FrameUnderWay)
    BY Typed
  <2> QED BY <2>1, <2>2
<1>3. Taken = [watch EXCEPT !.taken = t]
  BY DEF Taken
<1>4. \A n \in Nodes : t[n] = IF bus[n].inbox # <<>> /\ bus'[n].inbox = Tail(bus[n].inbox)
                             THEN Append(watch.taken[n], Head(bus[n].inbox)) ELSE watch.taken[n]
  OBVIOUS
<1> HIDE DEF t
<1>5. Taken \in Watched
  BY <1>1, <1>2, <1>3, WatchedField
<1>6. /\ Taken.wire = watch.wire /\ Taken.free = watch.free
      /\ Taken.offered = watch.offered /\ Taken.cleared = watch.cleared /\ Taken.taken = t
  BY <1>1, <1>3 DEF Watched
<1> QED BY <1>4, <1>5, <1>6

LEMMA TailDiffers ==
  ASSUME NEW S, NEW s \in Seq(S), s # <<>>
  PROVE  Tail(s) # s
<1>1. Len(Tail(s)) = Len(s) - 1 /\ Len(s) \in Nat
  BY HeadTailProperties, LenProperties
<1>2. Len(Tail(s)) # Len(s)
  <2> DEFINE k == Len(s)
             l == Len(Tail(s))
  <2>1. l = k - 1 /\ k \in Nat
    BY <1>1
  <2> HIDE DEF k, l
  <2>2. l # k
    BY <2>1
  <2> QED BY <2>2 DEF k, l
<1> QED BY <1>2, Zenon

LEMMA TakenStays ==
  ASSUME BusTypeOK, \A n \in Nodes : bus'[n] = bus[n]
  PROVE  Taken.taken = watch.taken
<1>1. \A n \in Nodes : Taken.taken[n] = watch.taken[n]
  BY TakenType, Typed, TailDiffers
<1>2. Taken.taken \in [Nodes -> Seq(FrameUnderWay)] /\ watch.taken \in [Nodes -> Seq(FrameUnderWay)]
  BY TakenType, Typed DEF Watched
<1> QED BY <1>1, <1>2

LEMMA PopKeeps ==
  ASSUME BusInv, MediumStays, NEW n \in Nodes, n \in Attached, bus[n].inbox # <<>>,
         bus' = Popped(n), watch' = Taken
  PROVE  BusInv'
<1>0. BusTypeOK
  BY DEF BusInv
<1> DEFINE p == [bus[n] EXCEPT !.inbox = Tail(@)]
<1>1. bus[n] \in Participant /\ watch.taken[n] \in Seq(FrameUnderWay)
  BY <1>0, Typed
<1>2. bus[n].inbox \in Seq(FrameUnderWay) /\ Tail(bus[n].inbox) \in Seq(FrameUnderWay)
      /\ Len(Tail(bus[n].inbox)) = Len(bus[n].inbox) - 1 /\ Len(bus[n].inbox) \in Nat
  BY <1>0, Typed, HeadTailProperties
<1>3. p \in Participant /\ p.open = bus[n].open /\ p.outbox = bus[n].outbox
      /\ p.inbox = Tail(bus[n].inbox)
      /\ p.sent = bus[n].sent /\ p.refused = bus[n].refused /\ p.received = bus[n].received
  BY <1>1, <1>2 DEF Participant
<1>4. bus' = [bus EXCEPT ![n] = p]
  BY DEF Popped
<1> HIDE DEF p
<1>5. bus'[n] = p /\ \A m \in Nodes : m # n => bus'[m] = bus[m]
  BY <1>0, <1>4, Typed
<1>6. /\ watch' \in Watched /\ watch'.wire = watch.wire /\ watch'.free = watch.free
      /\ watch'.offered = watch.offered /\ watch'.cleared = watch.cleared
  BY <1>0, TakenType
<1>7. watch'.taken[n] = Append(watch.taken[n], Head(bus[n].inbox))
  BY <1>0, <1>3, <1>5, TakenType
<1>8. \A m \in Nodes : m # n => watch'.taken[m] = watch.taken[m]
  BY <1>0, <1>5, TakenType, Typed, TailDiffers
<1>9. watch'.taken[n] \o p.inbox = Reaches(n)
  BY <1>1, <1>2, <1>3, <1>7, HeadMoved DEF Reaches
<1>10. Len(p.inbox) <= RxLimit
  BY <1>0, <1>2, <1>3, Limits DEF BusTypeOK, Limits
<1>11. bus[n].open
  BY <1>0 DEF BusTypeOK
<1>12. Touches(n, p)
  <2>1. /\ watch.offered[n] = bus[n].sent + bus[n].refused + Len(bus[n].outbox) + watch.cleared[n].out
        /\ bus[n].received = Len(Reaches(n)) + watch.cleared[n].in
    BY DEF BusInv, Accounted
  <2>2. /\ watch.offered[n] = p.sent + p.refused + Len(p.outbox) + watch'.cleared[n].out
        /\ p.received = Len(watch'.taken[n] \o p.inbox) + watch'.cleared[n].in
    BY <1>3, <1>6, <1>9, <2>1
  <2> QED BY <1>3, <1>4, <1>6, <1>8, <1>9, <1>10, <1>11, <2>2 DEF Touches
<1> QED BY <1>12, ParticipantStep

LEMMA TakesKeeps ==
  ASSUME BusInv, NEW n \in Nodes, Takes(n)
  PROVE  BusInv'
<1>0. BusTypeOK
  BY DEF BusInv
<1>1. PICK t \in Intervals \cup {0} : Receive(n, t) /\ watch' = Taken
  BY DEF Takes
<1>2. CASE bus[n].inbox # <<>> /\ bus' = Popped(n) /\ UNCHANGED <<net, call>>
  <2>1. MediumStays
    BY <1>0, <1>2, Typed DEF MediumStays, BusInv, ClockInBounds, InFlight, MediumFree
  <2>2. n \in Attached
    BY <1>1 DEF Receive
  <2> QED BY <1>1, <1>2, <2>1, <2>2, PopKeeps
<1>3. CASE /\ t > 0 /\ call' = [op |-> "advance", target |-> net.now + t, reader |-> {n}]
           /\ call = Idle /\ UNCHANGED <<net, bus>>
  <2>1. net.now \in Nat /\ t \in Nat
    BY <1>0, <1>1, Typed, WatchBounds DEF WatchBounds
  <2>2. call' \in Call /\ call'.op = "advance" /\ call'.target = net.now + t /\ call' # Idle
    BY <1>3, <2>1 DEF Call, Idle
  <2>3. MediumStays
    BY <1>0, <1>3, <2>1, <2>2, Typed DEF MediumStays, BusInv, ClockInBounds, InFlight, MediumFree
  <2> QED BY <1>0, <1>1, <1>3, <2>3, TakenType, TakenStays, CallStep
<1> QED BY <1>1, <1>2, <1>3 DEF Receive

LEMMA WaitsKeeps ==
  ASSUME BusInv, Waits
  PROVE  BusInv'
<1>0. BusTypeOK
  BY DEF BusInv
<1>1. PICK t \in Intervals : Advance(t) /\ Unwatched
  BY DEF Waits
<1>2. net.now \in Nat /\ t \in Nat
  BY <1>0, <1>1, Typed, WatchBounds DEF WatchBounds
<1>3. call' \in Call /\ call'.op = "advance" /\ call'.target = net.now + t /\ call' # Idle
  BY <1>1, <1>2 DEF Call, Idle, Advance
<1>4. MediumStays
  BY <1>0, <1>1, <1>2, <1>3, Typed
     DEF MediumStays, BusInv, ClockInBounds, InFlight, MediumFree, Advance
<1> QED BY <1>0, <1>1, <1>4, Typed, CallStep DEF Advance, Unwatched

LEMMA DrainsKeeps ==
  ASSUME BusInv, Drains
  PROVE  BusInv'
<1>0. BusTypeOK
  BY DEF BusInv
<1>1. PICK max \in DrainLimits : Drain(max) /\ Unwatched
  BY DEF Drains
<1>2. max \in Nat
  BY WatchBounds DEF WatchBounds
<1>3. call' \in Call /\ call'.op = "drain" /\ call' # Idle
  BY <1>1, <1>2 DEF Call, Idle, Drain
<1>4. MediumStays
  BY <1>0, <1>1, <1>3, Typed DEF MediumStays, BusInv, ClockInBounds, InFlight, MediumFree, Drain
<1> QED BY <1>0, <1>1, <1>4, Typed, CallStep DEF Drain, Unwatched

LEMMA DrainReturnsKeeps ==
  ASSUME BusInv, DrainReturns, Unwatched
  PROVE  BusInv'
<1>0. BusTypeOK
  BY DEF BusInv
<1>1. call' = Idle /\ call' \in Call /\ ~InFlight /\ UNCHANGED <<net, bus>>
  BY DEF DrainReturns, Call
<1>2. MediumStays
  BY <1>0, <1>1, Typed DEF MediumStays, BusInv, ClockInBounds, InFlight, MediumFree, Idle
<1> QED BY <1>0, <1>1, <1>2, Typed, CallStep DEF Unwatched

LEMMA WaitingMeansContending ==
  ASSUME BusTypeOK
  PROVE  Contenders = {n \in Nodes : bus[n].outbox # <<>>}
BY Typed DEF BusTypeOK, Contenders, Attached

LEMMA CallFields ==
  ASSUME BusTypeOK, call.op = "advance"
  PROVE  /\ call.target \in Nat /\ call # Idle
         /\ call.reader = {} \/ \E n \in Nodes : call.reader = {n}
BY Typed DEF Call, Idle

LEMMA AdvanceReturnsKeeps ==
  ASSUME BusInv, AdvanceReturns, watch' = Taken
  PROVE  BusInv'
<1>0. BusTypeOK
  BY DEF BusInv
<1>1. call' = Idle /\ call' \in Call /\ net' = [net EXCEPT !.now = call.target]
      /\ (InFlight => net.until > call.target) /\ (~InFlight => Contenders = {})
      /\ call.op = "advance"
  BY DEF AdvanceReturns, Call
<1>2. net \in MediumMembers /\ call.target \in Nat /\ net.now \in Nat /\ net.now <= call.target
  BY <1>0, <1>1, Typed, CallFields DEF BusInv, ClockInBounds
<1>3. net' \in MediumMembers /\ net'.now = call.target /\ net'.order = net.order /\ net'.from = net.from
      /\ net'.carried = net.carried /\ net'.until = net.until
  BY <1>1, <1>2 DEF MediumMembers
<1>4. ClockInBounds'
  <2>1. net.until \in Nat /\ call'.op # "advance"
    BY <1>0, <1>1, Typed DEF Idle
  <2>2. InFlight' => net'.now < net'.until
    BY <1>1, <1>2, <1>3, <2>1 DEF InFlight
  <2> QED BY <1>2, <1>3, <2>1, <2>2 DEF ClockInBounds
<1>5. \A n \in Nodes : bus'[n].outbox = bus[n].outbox
  <2>1. bus' = bus \/ \E n \in Nodes : bus' = Popped(n)
    BY <1>0, <1>1, CallFields DEF AdvanceReturns
  <2>2. ASSUME NEW n \in Nodes, bus' = Popped(n) PROVE \A m \in Nodes : bus'[m].outbox = bus[m].outbox
    BY <1>0, <2>2, Typed DEF Popped, Participant
  <2> QED BY <2>1, <2>2
<1>6. (\E n \in Nodes : bus'[n].outbox # <<>>) => MediumFree' = MediumFree
  BY <1>0, <1>1, <1>3, <1>5, WaitingMeansContending DEF MediumFree, InFlight
<1>7. MediumStays
  BY <1>1, <1>2, <1>3, <1>4, <1>6 DEF MediumStays
<1>8. CASE bus' = bus
  BY <1>0, <1>7, <1>8, TakenType, TakenStays, CallStep
<1>9. CASE \E n \in call.reader : bus[n].inbox # <<>>
  <2>1. PICK n \in Nodes : call.reader = {n}
    BY <1>0, <1>1, <1>9, CallFields
  <2>2. bus[n].inbox # <<>> /\ bus' = Popped(n)
    BY <1>9, <2>1 DEF AdvanceReturns
  <2>3. n \in Attached
    BY <1>0, <2>2 DEF BusTypeOK
  <2> QED BY <1>7, <2>2, <2>3, PopKeeps
<1> QED BY <1>8, <1>9 DEF AdvanceReturns

(* The clock moves to the end of the transmission.                         *)
LEMMA ClockMoves ==
  ASSUME BusInv, call.op = "advance", UNCHANGED <<call, bus, watch>>,
         InFlight, net.until <= call.target, net' = [net EXCEPT !.now = net.until]
  PROVE  BusInv'
<1>0. BusTypeOK
  BY DEF BusInv
<1>1. net \in MediumMembers /\ net.until \in Nat /\ net.now <= net.until /\ call \in Call /\ call # Idle
  BY <1>0, Typed, CallFields DEF BusInv, ClockInBounds
<1>2. net' \in MediumMembers /\ net'.now = net.until /\ net'.order = net.order /\ net'.from = net.from
      /\ net'.carried = net.carried /\ net'.until = net.until
  BY <1>1 DEF MediumMembers
<1>3. MediumStays
  BY <1>1, <1>2 DEF MediumStays, ClockInBounds, InFlight, MediumFree
<1> QED BY <1>0, <1>3, Typed, CallStep

-----------------------------------------------------------------------------
(* A frame is offered.                                                     *)
LEMMA RefusedKeeps ==
  ASSUME BusInv, NEW n \in Nodes, NEW f, NEW t \in Nat, Send(n, f), n \in Attached,
         Len(bus[n].outbox) >= TxLimit,
         watch' = [watch EXCEPT !.offered[n] = @ + 1, !.free = Append(@, t)]
  PROVE  BusInv'
<1>0. BusTypeOK
  BY DEF BusInv
<1>1. bus \in [Nodes -> Participant] /\ bus[n] \in Participant /\ watch \in Watched
  BY <1>0, Typed
<1> DEFINE p == [bus[n] EXCEPT !.refused = @ + 1]
<1>2. p \in Participant /\ p.open = bus[n].open /\ p.outbox = bus[n].outbox /\ p.inbox = bus[n].inbox
      /\ p.sent = bus[n].sent /\ p.refused = bus[n].refused + 1 /\ p.received = bus[n].received
  <2>1. bus[n].refused \in Nat /\ \A k \in Nat : [bus[n] EXCEPT !.refused = k] \in Participant
    BY <1>1, ParticipantField
  <2>2. p \in Participant
    BY <2>1
  <2> QED BY <1>1, <2>1, <2>2 DEF Participant
<1>3. bus' = [bus EXCEPT ![n] = p] /\ net' = net /\ call' = call /\ bus[n].open
  BY DEF Send, Sendable
<1> HIDE DEF p
<1>4. bus'[n] = p /\ \A m \in Nodes : m # n => bus'[m] = bus[m]
  BY <1>1, <1>3
<1>5. watch' \in Watched
  BY <1>0, WatchedSteps
<1>6. /\ watch'.free = Append(watch.free, t) /\ watch'.wire = watch.wire
      /\ watch'.taken = watch.taken /\ watch'.cleared = watch.cleared
      /\ watch'.offered[n] = watch.offered[n] + 1
      /\ \A m \in Nodes : m # n => watch'.offered[m] = watch.offered[m]
  BY <1>1 DEF Watched
<1>7. Offered' = Offered + 1 /\ Offered \in Nat /\ \A nr \in 1..Offered : watch'.free[nr] = watch.free[nr]
  BY <1>1, <1>6, AppendProperties, LenProperties DEF Watched, Offered
<1>8. BusTypeOK'
  <2>1. bus' \in [Nodes -> Participant]
    BY <1>1, <1>2, <1>3
  <2>2. \A m \in Nodes : /\ bus'[m].outbox = bus[m].outbox /\ bus'[m].inbox = bus[m].inbox
                        /\ bus'[m].open = bus[m].open
    BY <1>2, <1>4
  <2> QED BY <1>0, <1>3, <1>5, <2>1, <2>2 DEF BusTypeOK, InFlight, Attached
<1>9. \A m \in Nodes : Reaches(m)' = Reaches(m)
  BY <1>2, <1>4, <1>6 DEF Reaches
<1>10. FramesAreNumbered' /\ WireInOrder' /\ UrgentIsNext'
      /\ \A m \in Nodes : FromTheWire(Reaches(m), watch.wire, Landed)'
  <2>1. OutboxesShrink
    BY <1>2, <1>4 DEF OutboxesShrink
  <2>2. net.now <= net'.now /\ Offered <= Offered'
    BY <1>0, <1>3, <1>7, Typed
  <2> QED BY <1>3, <1>6, <1>7, <1>8, <1>9, <2>1, <2>2, QuietStep DEF MediumFree, InFlight
<1>11. ClockInBounds'
  BY <1>3 DEF BusInv, ClockInBounds, InFlight
<1>12. Accounted'
  <2>1. ASSUME NEW m \in Nodes, m # n
        PROVE  /\ watch'.offered[m] = bus'[m].sent + bus'[m].refused + Len(bus'[m].outbox) + watch'.cleared[m].out
               /\ bus'[m].received = Len(Reaches(m)') + watch'.cleared[m].in
    BY <1>4, <1>6, <1>9, <2>1 DEF BusInv, Accounted
  <2>2. bus'[n].received = Len(Reaches(n)') + watch'.cleared[n].in
    BY <1>2, <1>4, <1>6, <1>9 DEF BusInv, Accounted
  <2>3. watch'.offered[n] = bus'[n].sent + bus'[n].refused + Len(bus'[n].outbox) + watch'.cleared[n].out
    <3> DEFINE sent == bus[n].sent
               refused == bus[n].refused
               len == Len(bus[n].outbox)
               out == watch.cleared[n].out
    <3>1. sent \in Nat /\ refused \in Nat /\ len \in Nat /\ out \in Nat
      BY <1>0, <1>1, Typed DEF Participant, Watched
    <3>2. watch.offered[n] = sent + refused + len + out
      BY DEF BusInv, Accounted
    <3>3. /\ watch'.offered[n] = watch.offered[n] + 1 /\ bus'[n].sent = sent
          /\ bus'[n].refused = refused + 1
      BY <1>2, <1>4, <1>6
    <3>4. Len(bus'[n].outbox) = len /\ watch'.cleared[n].out = out
      BY <1>2, <1>4, <1>6
    <3> HIDE DEF sent, refused, len, out
    <3>5. watch'.offered[n] = bus'[n].sent + bus'[n].refused + len + out
      BY <3>1, <3>2, <3>3
    <3> QED BY <3>4, <3>5
  <2> QED BY <2>1, <2>2, <2>3 DEF Accounted
<1>13. Strangers'
  BY <1>3, <1>6 DEF BusInv, Strangers, Attached
<1> QED BY <1>8, <1>10, <1>11, <1>12, <1>13 DEF BusInv

LEMMA QueuedKeeps ==
  ASSUME BusInv, NEW n \in Nodes, NEW frame \in Traffic[n], NEW t \in Nat, Offered < MaxSends,
         Send(n, Tagged(frame, Offered + 1)), Len(bus[n].outbox) < TxLimit,
         t = IF bus[n].outbox # <<>> THEN Horizon + 1 ELSE MediumFree,
         watch' = [watch EXCEPT !.offered[n] = @ + 1, !.free = Append(@, t)]
  PROVE  BusInv'
<1>0. BusTypeOK
  BY DEF BusInv
<1> DEFINE f == Tagged(frame, Offered + 1)
           out == bus[n].outbox
           len == Len(out)
           p == [bus[n] EXCEPT !.outbox = Append(@, f)]
<1>1. bus \in [Nodes -> Participant] /\ bus[n] \in Participant /\ watch \in Watched
      /\ Offered \in Nat /\ out \in Seq(FrameUnderWay) /\ len \in Nat
  BY <1>0, Typed
<1>2. f \in FrameUnderWay /\ f.nr = Offered + 1 /\ f.at = 0 /\ f.of = frame
  BY <1>1, WatchBounds DEF WatchBounds, FrameUnderWay, Tagged
<1> HIDE DEF f
<1>3. /\ Append(out, f) \in Seq(FrameUnderWay) /\ Len(Append(out, f)) = len + 1
      /\ DOMAIN Append(out, f) = 1..(len + 1) /\ DOMAIN out = 1..len
      /\ \A i \in 1..len : Append(out, f)[i] = out[i]
      /\ Append(out, f)[len + 1] = f
  BY <1>1, <1>2, AppendProperties, LenProperties
<1>4. p \in Participant /\ p.open = bus[n].open /\ p.outbox = Append(out, f) /\ p.inbox = bus[n].inbox
      /\ p.sent = bus[n].sent /\ p.refused = bus[n].refused /\ p.received = bus[n].received
  <2>1. p \in Participant
    BY <1>1, <1>3, ParticipantField
  <2> QED BY <1>1, <2>1 DEF Participant
<1>5. bus' = [bus EXCEPT ![n] = p] /\ net' = net /\ call' = call /\ bus[n].open /\ n \in Attached
  BY <1>1, Limits DEF Send, Sendable, f, Limits
<1> HIDE DEF p
<1>6. bus'[n] = p /\ \A m \in Nodes : m # n => bus'[m] = bus[m]
  BY <1>1, <1>5
<1>7. watch' \in Watched
  BY <1>0, WatchedSteps
<1>8. /\ watch'.free = Append(watch.free, t) /\ watch'.wire = watch.wire
      /\ watch'.taken = watch.taken /\ watch'.cleared = watch.cleared
      /\ watch'.offered[n] = watch.offered[n] + 1
      /\ \A m \in Nodes : m # n => watch'.offered[m] = watch.offered[m]
  BY <1>1 DEF Watched
<1>9. Offered' = Offered + 1 /\ watch'.free[Offered + 1] = t
      /\ \A nr \in 1..Offered : watch'.free[nr] = watch.free[nr]
  BY <1>1, <1>8, AppendProperties, LenProperties DEF Watched, Offered
<1> HIDE DEF out, len
<1>10. bus'[n].outbox = Append(out, f) /\ out = bus[n].outbox /\ len = Len(out)
       /\ \A m \in Nodes : m # n => bus'[m].outbox = bus[m].outbox
  BY <1>4, <1>6 DEF out, len
<1>11. \A m \in Nodes : \A i \in DOMAIN bus[m].outbox : bus[m].outbox[i].nr \in 1..Offered
  BY <1>0, OutboxFrame DEF FrameUnderWay, BusInv, FramesAreNumbered
<1>12. \A k \in DOMAIN watch.wire : watch.wire[k].frame.nr \in 1..Offered
  BY <1>0, WireFrame DEF FrameUnderWay, BusInv, FramesAreNumbered, Transmission
<1>13. \A m \in Nodes : \A i \in DOMAIN bus'[m].outbox :
         \/ i \in DOMAIN bus[m].outbox /\ bus'[m].outbox[i] = bus[m].outbox[i]
         \/ m = n /\ i = len + 1 /\ bus'[m].outbox[i] = f
  <2>1. \A i \in 1..(len + 1) : i \in 1..len \/ i = len + 1
    BY <1>1
  <2> QED BY <1>3, <1>10, <2>1
<1>14. BusTypeOK'
  <2>1. bus' \in [Nodes -> Participant]
    BY <1>1, <1>4, <1>5
  <2>2. ASSUME NEW m \in Nodes
        PROVE  /\ \A i \in DOMAIN bus'[m].outbox : bus'[m].outbox[i].of \in Traffic[m]
               /\ Len(bus'[m].outbox) <= TxLimit /\ Len(bus'[m].inbox) <= RxLimit
               /\ m \notin Attached' \/ ~bus'[m].open => bus'[m].outbox = <<>> /\ bus'[m].inbox = <<>>
    <3>1. \A i \in DOMAIN bus'[m].outbox : bus'[m].outbox[i].of \in Traffic[m]
      BY <1>0, <1>2, <1>13 DEF BusTypeOK
    <3>2. CASE m = n
      <4>1. Len(bus'[m].outbox) <= TxLimit
        BY <1>1, <1>3, <1>10, <3>2, Limits DEF Limits, len, out
      <4>2. bus'[m].inbox = bus[m].inbox /\ bus'[m].open /\ m \in Attached'
        BY <1>4, <1>5, <1>6, <3>2 DEF Attached
      <4>3. Len(bus[m].inbox) <= RxLimit
        BY <1>0 DEF BusTypeOK
      <4> QED BY <3>1, <4>1, <4>2, <4>3
    <3>3. CASE m # n
      BY <1>0, <1>5, <1>6, <3>1, <3>3 DEF BusTypeOK, Attached
    <3> QED BY <3>2, <3>3
  <2> QED BY <1>0, <1>5, <1>7, <2>1, <2>2 DEF BusTypeOK, InFlight
<1>15. FramesAreNumbered'
  <2>1. ASSUME NEW m \in Nodes, NEW i \in DOMAIN bus'[m].outbox
        PROVE  /\ bus'[m].outbox[i].at = 0 /\ bus'[m].outbox[i].nr <= Offered'
               /\ \A k \in DOMAIN watch'.wire : watch'.wire[k].frame.nr # bus'[m].outbox[i].nr
    <3>1. CASE i \in DOMAIN bus[m].outbox /\ bus'[m].outbox[i] = bus[m].outbox[i]
      BY <1>1, <1>8, <1>9, <1>11, <3>1 DEF BusInv, FramesAreNumbered
    <3>2. CASE bus'[m].outbox[i] = f
      BY <1>1, <1>2, <1>8, <1>9, <1>12, <3>2
    <3> QED BY <1>13, <3>1, <3>2
  <2>2. ASSUME NEW m \in Nodes, NEW i \in DOMAIN bus'[m].outbox,
               NEW l \in Nodes, NEW j \in DOMAIN bus'[l].outbox,
               bus'[l].outbox[j].nr = bus'[m].outbox[i].nr
        PROVE  l = m /\ j = i
    <3>1. Offered + 1 \notin 1..Offered
      BY <1>1
    <3>2. CASE /\ i \in DOMAIN bus[m].outbox /\ bus'[m].outbox[i] = bus[m].outbox[i]
               /\ j \in DOMAIN bus[l].outbox /\ bus'[l].outbox[j] = bus[l].outbox[j]
      BY <2>2, <3>2 DEF BusInv, FramesAreNumbered
    <3> QED BY <1>2, <1>11, <1>13, <2>2, <3>1, <3>2
  <2>3. ASSUME NEW k \in DOMAIN watch'.wire
        PROVE  /\ watch'.wire[k].frame.nr <= Offered'
               /\ \A l \in DOMAIN watch'.wire :
                    watch'.wire[k].frame.nr = watch'.wire[l].frame.nr => k = l
    BY <1>1, <1>8, <1>9, <1>12 DEF BusInv, FramesAreNumbered
  <2> QED BY <2>1, <2>2, <2>3 DEF FramesAreNumbered
<1>16. WireInOrder'
  BY <1>0, <1>5, <1>8, Typed, WireKept DEF BusInv
<1>17. MediumFree' = MediumFree
  BY <1>5 DEF MediumFree, InFlight
<1>18. UrgentIsNext'
  <2>1. ASSUME NEW m \in Nodes, NEW i \in DOMAIN bus'[m].outbox,
               watch'.free[bus'[m].outbox[i].nr] <= Horizon
        PROVE  i = 1 /\ (Foremost(bus'[m].outbox[i].of) =>
                           watch'.free[bus'[m].outbox[i].nr] = MediumFree')
    <3>1. CASE i \in DOMAIN bus[m].outbox /\ bus'[m].outbox[i] = bus[m].outbox[i]
      <4>1. watch'.free[bus[m].outbox[i].nr] = watch.free[bus[m].outbox[i].nr]
        BY <1>9, <1>11, <3>1
      <4>2. NextIfUrgent(bus[m].outbox[i], i)
        BY <3>1 DEF BusInv, UrgentIsNext
      <4> QED BY <1>17, <2>1, <3>1, <4>1, <4>2, Zenon DEF NextIfUrgent
    <3>2. CASE i = len + 1 /\ bus'[m].outbox[i] = f
      <4>1. t <= Horizon
        BY <1>2, <1>9, <2>1, <3>2
      <4>2. out = <<>>
        BY <4>1, WatchBounds DEF WatchBounds, out
      <4>3. i = 1
        BY <3>2, <4>2, EmptySeq DEF len
      <4> QED BY <1>2, <1>9, <1>17, <3>2, <4>2, <4>3 DEF out
    <3> QED BY <1>13, <3>1, <3>2
  <2>2. ASSUME NEW k \in DOMAIN watch'.wire, watch'.free[watch'.wire[k].frame.nr] <= Horizon,
               Foremost(watch'.wire[k].frame.of)
        PROVE  watch'.wire[k].start = watch'.free[watch'.wire[k].frame.nr]
    <3>1. k \in DOMAIN watch.wire /\ watch'.wire[k] = watch.wire[k]
          /\ watch'.free[watch.wire[k].frame.nr] = watch.free[watch.wire[k].frame.nr]
      BY <1>8, <1>9, <1>12
    <3>2. StartedWhenFree(watch.wire[k])
      BY <3>1 DEF BusInv, UrgentIsNext
    <3> QED BY <2>2, <3>1, <3>2, Zenon DEF StartedWhenFree
  <2> QED BY <2>1, <2>2 DEF UrgentIsNext, NextIfUrgent, StartedWhenFree
<1>19. ClockInBounds'
  BY <1>5 DEF BusInv, ClockInBounds, InFlight
<1>20. \A m \in Nodes : Reaches(m)' = Reaches(m)
  BY <1>4, <1>6, <1>8 DEF Reaches
<1>21. \A m \in Nodes : FromTheWire(Reaches(m), watch.wire, Landed)'
  BY <1>5, <1>8, <1>20 DEF BusInv, Landed
<1>22. Accounted'
  <2>1. ASSUME NEW m \in Nodes, m # n
        PROVE  /\ watch'.offered[m] = bus'[m].sent + bus'[m].refused + Len(bus'[m].outbox) + watch'.cleared[m].out
               /\ bus'[m].received = Len(Reaches(m)') + watch'.cleared[m].in
    BY <1>6, <1>8, <1>20, <2>1 DEF BusInv, Accounted
  <2>2. bus'[n].received = Len(Reaches(n)') + watch'.cleared[n].in
    BY <1>4, <1>6, <1>8, <1>20 DEF BusInv, Accounted
  <2>3. watch'.offered[n] = bus'[n].sent + bus'[n].refused + Len(bus'[n].outbox) + watch'.cleared[n].out
    <3> DEFINE gone == watch.cleared[n].out
    <3>1. bus[n].sent \in Nat /\ bus[n].refused \in Nat /\ gone \in Nat
      BY <1>1 DEF Participant, Watched
    <3>2. watch.offered[n] = bus[n].sent + bus[n].refused + len + gone
      BY DEF BusInv, Accounted, len, out
    <3>3. /\ watch'.offered[n] = watch.offered[n] + 1 /\ bus'[n].sent = bus[n].sent
          /\ bus'[n].refused = bus[n].refused
      BY <1>4, <1>6, <1>8
    <3>4. Len(bus'[n].outbox) = len + 1 /\ watch'.cleared[n].out = gone
      BY <1>3, <1>8, <1>10
    <3> HIDE DEF gone
    <3>5. watch'.offered[n] = bus'[n].sent + bus'[n].refused + (len + 1) + gone
      BY <1>1, <3>1, <3>2, <3>3
    <3> QED BY <3>4, <3>5
  <2> QED BY <2>1, <2>2, <2>3 DEF Accounted
<1>23. Strangers'
  BY <1>5, <1>8 DEF BusInv, Strangers, Attached
<1> QED BY <1>14, <1>15, <1>16, <1>18, <1>19, <1>21, <1>22, <1>23 DEF BusInv

LEMMA OfferKeeps ==
  ASSUME BusInv, NEW n \in Nodes, Offer(n)
  PROVE  BusInv'
<1>0. BusTypeOK
  BY DEF BusInv
<1> DEFINE t == IF bus[n].outbox # <<>> THEN Horizon + 1 ELSE MediumFree
<1>1. PICK frame \in Traffic[n] :
        /\ Offered < MaxSends /\ Send(n, Tagged(frame, Offered + 1))
        /\ watch' = [watch EXCEPT !.offered[n] = @ + 1, !.free = Append(@, t)]
  BY DEF Offer, MediumFree
<1>2. t \in Nat
  BY <1>0, Typed, WatchBounds DEF WatchBounds, MediumFree
<1> HIDE DEF t
<1>3. CASE Len(bus[n].outbox) >= TxLimit
  BY <1>1, <1>2, <1>3, RefusedKeeps DEF Send
<1>4. CASE Len(bus[n].outbox) < TxLimit
  BY <1>1, <1>2, <1>4, QueuedKeeps DEF t
<1> QED BY <1>0, <1>3, <1>4, Typed, Limits DEF Limits

-----------------------------------------------------------------------------
(* A transmission starts.                                                  *)
LEMMA KeyType ==
  ASSUME NEW f \in Frame
  PROVE  ArbitrationKey(f.id) \in Nat
<1> DEFINE e == 2^ExtBits
           v == f.id.value
<1>1. e \in Nat \ {0}
  BY IdWidths DEF IdWidths
<1>2. v \in Nat
  <2>1. ASSUME NEW a, NEW c,
               NEW id \in [extended : {FALSE}, value : 0..a] \cup [extended : {TRUE}, value : 0..c]
        PROVE  id.value \in Nat
    <3>1. id.value \in 0..a \/ id.value \in 0..c
      OBVIOUS
    <3>2. \A i : i \in 0..a \/ i \in 0..c => i \in Nat
      OBVIOUS
    <3> QED BY <3>1, <3>2
  <2>2. f.id \in CanId
    BY DEF Frame
  <2> QED BY <2>1, <2>2, Zenon DEF CanId
<1>3. ArbitrationKey(f.id) = IF f.id.extended THEN (v \div e) * (2 * e) + e + (v % e) ELSE v * (2 * e)
  BY DEF ArbitrationKey
<1> HIDE DEF e, v
<1>4. (v \div e) \in Nat /\ (v % e) \in Nat /\ (2 * e) \in Nat
  BY <1>1, <1>2
<1>5. \A x, y \in Nat : x * y \in Nat
  OBVIOUS
<1>6. (v \div e) * (2 * e) \in Nat /\ v * (2 * e) \in Nat
  BY <1>2, <1>4, <1>5
<1>7. (v \div e) * (2 * e) + e + (v % e) \in Nat
  BY <1>1, <1>4, <1>6
<1> QED BY <1>3, <1>6, <1>7

Starts(n, f, end) ==
  /\ n \in Attached /\ ~InFlight /\ net.now <= end
  /\ bus[n].outbox # <<>> /\ f = bus[n].outbox[1] /\ Wins(n)
  /\ net' \in MediumMembers /\ net'.order = net.order /\ net'.now = net.now
  /\ net'.until = end /\ net'.from = {n} /\ net'.carried = <<[f EXCEPT !.at = end]>>
  /\ bus' \in [Nodes -> Participant]
  /\ bus'[n].outbox = Tail(bus[n].outbox) /\ bus'[n].sent = bus[n].sent + 1
  /\ \A m \in Nodes :
       /\ bus'[m].inbox = bus[m].inbox /\ bus'[m].open = bus[m].open
       /\ bus'[m].refused = bus[m].refused /\ bus'[m].received = bus[m].received
       /\ m # n => bus'[m].outbox = bus[m].outbox /\ bus'[m].sent = bus[m].sent
  /\ watch' \in Watched
  /\ watch'.wire = Append(watch.wire, [frame |-> f, start |-> net.now, end |-> end])
  /\ watch'.free = watch.free /\ watch'.offered = watch.offered
  /\ watch'.taken = watch.taken /\ watch'.cleared = watch.cleared

LEMMA StartEffect ==
  ASSUME BusInv, StartTransmission, watch' = Started
  PROVE  \E n \in Nodes, f \in FrameUnderWay, end \in Nat : Starts(n, f, end)
<1>0. BusTypeOK
  BY DEF BusInv
<1>1. PICK n \in Contenders :
        Wins(n) /\ Transmit(n, Contenders \ {n}, FrameTiming(Head(bus[n].outbox).of))
  BY DEF StartTransmission
<1> DEFINE f == Head(bus[n].outbox)
           timing == FrameTiming(f.of)
           end == net.now + timing.ticks
           losers == Contenders \ {n}
<1>2. n \in Attached /\ n \in Nodes /\ bus[n].outbox # <<>> /\ ~InFlight
  BY <1>0, <1>1, Typed DEF Contenders, StartTransmission
<1>3. /\ f \in FrameUnderWay /\ f = bus[n].outbox[1] /\ 1 \in DOMAIN bus[n].outbox
      /\ Tail(bus[n].outbox) \in Seq(FrameUnderWay)
  BY <1>0, <1>2, Typed, HeadTailProperties, EmptySeq, LenProperties
<1>4. f.at = 0 /\ f.of \in Frame /\ f.of \in Traffic[n]
  BY <1>0, <1>2, <1>3, TrafficIsFrames DEF BusInv, FramesAreNumbered, BusTypeOK, TrafficIsFrames, Frame
<1>5. timing.ticks \in Nat /\ timing.bits \in Nat
  BY <1>4, TimingType
<1> HIDE DEF f, timing
<1>6. net \in MediumMembers /\ net.now \in Nat /\ end \in Nat /\ net.now <= end
  BY <1>0, <1>5, Typed
<1>7. /\ net' = [net EXCEPT
                  !.until = end, !.from = {n}, !.carried = <<[f EXCEPT !.at = end]>>,
                  !.log = IF losers = {} THEN @
                          ELSE Append(@, [at |-> net.now, winner |-> n, losers |-> losers])]
      /\ bus' = [m \in Nodes |->
                  IF m = n
                  THEN Seen([bus[m] EXCEPT !.outbox = Tail(@), !.sent = @ + 1,
                                           !.bits = @ + timing.bits], net.now, end)
                  ELSE IF m \in losers THEN [bus[m] EXCEPT !.losses = @ + 1]
                  ELSE bus[m]]
  BY <1>1 DEF Transmit, f, timing
<1> HIDE DEF end, losers
<1>8. [f EXCEPT !.at = end] \in FrameUnderWay /\ [[f EXCEPT !.at = end] EXCEPT !.at = 0] = f
      /\ [f EXCEPT !.at = end].at = end
  BY <1>3, <1>4, <1>6 DEF FrameUnderWay
<1>9. /\ net' \in MediumMembers /\ net'.order = net.order /\ net'.now = net.now
      /\ net'.until = end /\ net'.from = {n} /\ net'.carried = <<[f EXCEPT !.at = end]>>
  <2> DEFINE log == IF losers = {} THEN net.log
                    ELSE Append(net.log, [at |-> net.now, winner |-> n, losers |-> losers])
  <2>1. losers \subseteq Nodes
    BY <1>0, Typed DEF losers, Contenders
  <2>2. net.log \in Seq(Arbitration)
    BY <1>6 DEF MediumMembers
  <2>3. [at |-> net.now, winner |-> n, losers |-> losers] \in Arbitration
    BY <1>2, <1>6, <2>1 DEF Arbitration
  <2>4. log \in Seq(Arbitration)
    BY <2>2, <2>3, AppendProperties
  <2>5. net' = [net EXCEPT !.until = end, !.from = {n}, !.carried = <<[f EXCEPT !.at = end]>>, !.log = log]
    BY <1>7
  <2> HIDE DEF log
  <2>6. <<[f EXCEPT !.at = end]>> \in Seq(FrameUnderWay) /\ {n} \in SUBSET Nodes
    BY <1>2, <1>8
  <2> DEFINE C == <<[f EXCEPT !.at = end]>>
  <2> HIDE DEF C
  <2>7. net' = [net EXCEPT !.until = end, !.from = {n}, !.carried = C, !.log = log]
    BY <2>5 DEF C
  <2>8. C \in Seq(FrameUnderWay)
    BY <2>6 DEF C
  <2>9. [net EXCEPT !.until = end, !.from = {n}, !.carried = C, !.log = log] \in MediumMembers
    BY <1>6, <2>4, <2>6, <2>8 DEF MediumMembers
  <2> QED BY <1>6, <2>7, <2>9 DEF MediumMembers, C
<1>10. bus \in [Nodes -> Participant]
  BY <1>0, Typed
<1> DEFINE p == Seen([bus[n] EXCEPT !.outbox = Tail(@), !.sent = @ + 1, !.bits = @ + timing.bits],
                     net.now, end)
<1>11. /\ p \in Participant /\ p.outbox = Tail(bus[n].outbox) /\ p.sent = bus[n].sent + 1
       /\ p.inbox = bus[n].inbox /\ p.open = bus[n].open /\ p.refused = bus[n].refused
       /\ p.received = bus[n].received
  <2> DEFINE p1 == [bus[n] EXCEPT !.outbox = Tail(@)]
             p2 == [p1 EXCEPT !.sent = @ + 1]
             p3 == [p2 EXCEPT !.bits = @ + timing.bits]
             p4 == [p3 EXCEPT !.first = IF @ = 0 THEN net.now ELSE @]
             p5 == [p4 EXCEPT !.last = end]
  <2>1. p1 \in Participant /\ p1.outbox = Tail(bus[n].outbox) /\ p1.sent = bus[n].sent
        /\ p1.inbox = bus[n].inbox /\ p1.open = bus[n].open /\ p1.refused = bus[n].refused
        /\ p1.received = bus[n].received
    <3>1. p1 \in Participant
      BY <1>2, <1>3, <1>10, ParticipantField
    <3> QED BY <1>2, <1>10, <3>1 DEF Participant
  <2>2. p = p5
    BY DEF Seen
  <2> HIDE DEF p1, p
  <2>3. p2 \in Participant /\ p2.outbox = p1.outbox /\ p2.sent = p1.sent + 1
        /\ p2.inbox = p1.inbox /\ p2.open = p1.open /\ p2.refused = p1.refused
        /\ p2.received = p1.received
    <3>1. p1.sent \in Nat /\ \A k \in Nat : [p1 EXCEPT !.sent = k] \in Participant
      BY <2>1, ParticipantField
    <3>2. p1.sent + 1 \in Nat
      BY <3>1
    <3> QED BY <2>1, <3>1, <3>2 DEF Participant
  <2> HIDE DEF p2
  <2>4. p3 \in Participant /\ p3.outbox = p2.outbox /\ p3.sent = p2.sent
        /\ p3.inbox = p2.inbox /\ p3.open = p2.open /\ p3.refused = p2.refused
        /\ p3.received = p2.received
    <3>1. p2.bits \in Nat /\ \A k \in Nat : [p2 EXCEPT !.bits = k] \in Participant
      BY <2>3, ParticipantField
    <3>2. p2.bits + timing.bits \in Nat
      BY <1>5, <3>1
    <3> QED BY <2>3, <3>1, <3>2 DEF Participant
  <2> HIDE DEF p3
  <2>5. p4 \in Participant /\ p4.outbox = p3.outbox /\ p4.sent = p3.sent
        /\ p4.inbox = p3.inbox /\ p4.open = p3.open /\ p4.refused = p3.refused
        /\ p4.received = p3.received
    <3>1. (IF p3.first = 0 THEN net.now ELSE p3.first) \in Nat
          /\ \A k \in Nat : [p3 EXCEPT !.first = k] \in Participant
      BY <1>6, <2>4, ParticipantField
    <3> QED BY <2>4, <3>1 DEF Participant
  <2> HIDE DEF p4
  <2>6. p5 \in Participant /\ p5.outbox = p4.outbox /\ p5.sent = p4.sent
        /\ p5.inbox = p4.inbox /\ p5.open = p4.open /\ p5.refused = p4.refused
        /\ p5.received = p4.received
    <3>1. p5 \in Participant
      BY <1>6, <2>5, ParticipantField
    <3> QED BY <2>5, <3>1 DEF Participant
  <2> HIDE DEF p5
  <2> QED BY <2>1, <2>2, <2>3, <2>4, <2>5, <2>6
<1> HIDE DEF p
<1>12. ASSUME NEW m \in Nodes
       PROVE  LET q == [bus[m] EXCEPT !.losses = @ + 1]
              IN  /\ q \in Participant /\ q.outbox = bus[m].outbox /\ q.sent = bus[m].sent
                  /\ q.inbox = bus[m].inbox /\ q.open = bus[m].open /\ q.refused = bus[m].refused
                  /\ q.received = bus[m].received
  <2>1. bus[m] \in Participant
    BY <1>10
  <2>2. bus[m].losses \in Nat /\ \A k \in Nat : [bus[m] EXCEPT !.losses = k] \in Participant
    BY <2>1, ParticipantField
  <2>3. bus[m].losses + 1 \in Nat
    BY <2>2
  <2> QED BY <2>1, <2>2, <2>3 DEF Participant
<1>13. bus' = [m \in Nodes |-> IF m = n THEN p
                              ELSE IF m \in losers THEN [bus[m] EXCEPT !.losses = @ + 1] ELSE bus[m]]
  BY <1>7 DEF p
<1>14. bus' \in [Nodes -> Participant]
  BY <1>10, <1>11, <1>12, <1>13
<1>15. /\ bus'[n].outbox = Tail(bus[n].outbox) /\ bus'[n].sent = bus[n].sent + 1
       /\ \A m \in Nodes :
            /\ bus'[m].inbox = bus[m].inbox /\ bus'[m].open = bus[m].open
            /\ bus'[m].refused = bus[m].refused /\ bus'[m].received = bus[m].received
            /\ m # n => bus'[m].outbox = bus[m].outbox /\ bus'[m].sent = bus[m].sent
  BY <1>2, <1>11, <1>12, <1>13
<1> DEFINE x == [frame |-> f, start |-> net.now, end |-> end]
<1>16. x \in Transmission
  BY <1>3, <1>6 DEF Transmission
<1>17. watch' = [watch EXCEPT !.wire = Append(@, x)]
  <2>1. net'.from # net.from
    BY <1>0, <1>2, <1>9 DEF BusTypeOK
  <2>2. net'.carried[1] = [f EXCEPT !.at = end] /\ net'.until = end
    BY <1>9
  <2>3. [net'.carried[1] EXCEPT !.at = 0] = f
    BY <1>8, <2>2
  <2> QED BY <2>1, <2>2, <2>3 DEF Started
<1> HIDE DEF x
<1>18. watch \in Watched
  BY <1>0, Typed
<1>19. watch' \in Watched
  BY <1>16, <1>17, <1>18, WatchedField
<1>20. /\ watch'.wire = Append(watch.wire, x)
       /\ watch'.free = watch.free /\ watch'.offered = watch.offered
       /\ watch'.taken = watch.taken /\ watch'.cleared = watch.cleared
  BY <1>17, <1>18 DEF Watched
<1> QED BY <1>1, <1>2, <1>3, <1>6, <1>9, <1>14, <1>15, <1>19, <1>20 DEF Starts, x

LEMMA StartKeeps ==
  ASSUME BusInv, NEW n \in Nodes, NEW f \in FrameUnderWay, NEW end \in Nat, Starts(n, f, end),
         call' \in Call, call' # Idle, call'.op = "advance" => call' = call
  PROVE  BusInv'
<1>0. BusTypeOK
  BY DEF BusInv
<1> DEFINE len == Len(watch.wire)
           x == [frame |-> f, start |-> net.now, end |-> end]
<1>1. /\ len \in Nat /\ watch.wire \in Seq(Transmission) /\ x \in Transmission /\ net.now \in Nat
      /\ DOMAIN watch.wire = 1..len
  BY <1>0, Typed, LenProperties DEF Watched, Transmission
<1>2. x.frame = f /\ x.start = net.now /\ x.end = end
  OBVIOUS
<1> HIDE DEF x
<1>3. /\ Len(watch'.wire) = len + 1 /\ DOMAIN watch'.wire = 1..(len + 1) /\ watch'.wire[len + 1] = x
      /\ \A k \in 1..len : watch'.wire[k] = watch.wire[k]
  BY <1>1, AppendProperties, LenProperties DEF Starts, x
<1>4. \A k \in 1..(len + 1) : k \in 1..len \/ k = len + 1
  BY <1>1
<1>5. Landed = len /\ Landed' = len /\ InFlight' /\ ~InFlight
  <2>1. Len(net.carried) = 0
    BY EmptySeq DEF Starts, InFlight
  <2>2. Len(net'.carried) = 1 /\ net'.carried # <<>>
    BY EmptySeq DEF Starts
  <2>3. Len(watch.wire) - Len(net.carried) = len /\ Len(watch'.wire) - Len(net'.carried) = len
    BY <1>1, <1>3, <2>1, <2>2
  <2> QED BY <2>2, <2>3 DEF Landed, InFlight, Starts
<1>6. net'.carried[1] = [f EXCEPT !.at = end] /\ net'.until = end /\ net'.now = net.now /\ net.now <= end
  BY DEF Starts
<1>7. /\ bus[n].outbox \in Seq(FrameUnderWay) /\ bus[n].outbox # <<>> /\ 1 \in DOMAIN bus[n].outbox
      /\ Len(bus[n].outbox) \in Nat \ {0} /\ DOMAIN bus[n].outbox = 1..Len(bus[n].outbox)
      /\ f = bus[n].outbox[1]
  BY <1>0, Typed, EmptySeq, LenProperties DEF Starts
<1>8. /\ Len(bus'[n].outbox) = Len(bus[n].outbox) - 1
      /\ DOMAIN bus'[n].outbox = 1..(Len(bus[n].outbox) - 1)
      /\ \A i \in 1..(Len(bus[n].outbox) - 1) : bus'[n].outbox[i] = bus[n].outbox[i + 1]
  BY <1>7, HeadTailProperties, LenProperties DEF Starts
<1> DEFINE was(m, i) == IF m = n THEN i + 1 ELSE i
<1>9. \A m \in Nodes : \A i \in DOMAIN bus'[m].outbox :
        /\ was(m, i) \in DOMAIN bus[m].outbox /\ bus'[m].outbox[i] = bus[m].outbox[was(m, i)]
        /\ i \in Nat \ {0}
  <2>1. ASSUME NEW m \in Nodes, NEW i \in DOMAIN bus'[m].outbox, m # n
        PROVE  /\ i \in DOMAIN bus[m].outbox /\ bus'[m].outbox[i] = bus[m].outbox[i] /\ i \in Nat \ {0}
    <3>1. bus'[m].outbox = bus[m].outbox
      BY <2>1 DEF Starts
    <3> QED BY <1>0, <3>1, OutboxFrame
  <2>2. ASSUME NEW i \in DOMAIN bus'[n].outbox
        PROVE  /\ i + 1 \in DOMAIN bus[n].outbox /\ bus'[n].outbox[i] = bus[n].outbox[i + 1]
               /\ i \in Nat \ {0}
    BY <1>7, <1>8
  <2> QED BY <2>1, <2>2
<1>10. \A m \in Nodes : \A i \in DOMAIN bus'[m].outbox : m = n => was(m, i) # 1
  BY <1>9
<1>11. \A m, l \in Nodes : \A i \in DOMAIN bus'[m].outbox, j \in DOMAIN bus'[l].outbox :
         m = l /\ was(m, i) = was(l, j) => i = j
  BY <1>9
<1>12. f.nr \in Nat /\ f.nr <= Offered /\ f.of \in Traffic[n] /\ f.at = 0
  BY <1>0, <1>7 DEF BusInv, FramesAreNumbered, FrameUnderWay, BusTypeOK
<1>13. \A k \in 1..len : watch.wire[k].frame.nr # f.nr
  BY <1>1, <1>7 DEF BusInv, FramesAreNumbered
<1>14. Offered' = Offered /\ watch'.free = watch.free
  BY DEF Offered, Starts
<1> HIDE DEF len, was
<1>15. BusTypeOK'
  <2>1. Attached' = Attached /\ n \in Attached
    BY DEF Attached, Starts
  <2>2. ASSUME NEW m \in Nodes
        PROVE  /\ \A i \in DOMAIN bus'[m].outbox : bus'[m].outbox[i].of \in Traffic[m]
               /\ Len(bus'[m].outbox) <= TxLimit /\ Len(bus'[m].inbox) <= RxLimit
               /\ m \notin Attached' \/ ~bus'[m].open => bus'[m].outbox = <<>> /\ bus'[m].inbox = <<>>
    <3>1. \A i \in DOMAIN bus'[m].outbox : bus'[m].outbox[i].of \in Traffic[m]
      BY <1>0, <1>9 DEF BusTypeOK
    <3>2. bus'[m].inbox = bus[m].inbox /\ bus'[m].open = bus[m].open
          /\ (m # n => bus'[m].outbox = bus[m].outbox)
      BY DEF Starts
    <3>3. Len(bus'[m].outbox) <= TxLimit
      <4>1. Len(bus[m].outbox) <= TxLimit
        BY <1>0 DEF BusTypeOK
      <4> QED BY <1>7, <1>8, <3>2, <4>1, Limits DEF Limits
    <3>4. Len(bus[m].inbox) <= RxLimit
          /\ (m \notin Attached \/ ~bus[m].open => bus[m].outbox = <<>> /\ bus[m].inbox = <<>>)
      BY <1>0 DEF BusTypeOK
    <3>5. n \in Attached /\ bus[n].open
      BY <1>0, <1>7, <2>1 DEF BusTypeOK
    <3> QED BY <2>1, <3>1, <3>2, <3>3, <3>4, <3>5
  <2>3. \A i, j \in DOMAIN net'.order : net'.order[i] = net'.order[j] => i = j
    BY <1>0 DEF BusTypeOK, Starts
  <2>4. Len(net'.carried) <= 1 /\ (InFlight' <=> net'.from # {})
    BY <1>5, EmptySeq DEF Starts
  <2> QED BY <2>2, <2>3, <2>4 DEF BusTypeOK, Starts
<1>16. FramesAreNumbered'
  <2>1. ASSUME NEW m \in Nodes, NEW i \in DOMAIN bus'[m].outbox
        PROVE  /\ bus'[m].outbox[i].at = 0 /\ bus'[m].outbox[i].nr <= Offered'
               /\ \A k \in DOMAIN watch'.wire : watch'.wire[k].frame.nr # bus'[m].outbox[i].nr
    <3> DEFINE w == was(m, i)
    <3>1. w \in DOMAIN bus[m].outbox /\ bus'[m].outbox[i] = bus[m].outbox[w] /\ (m = n => w # 1)
      BY <1>9, <1>10
    <3> HIDE DEF w
    <3>2. bus[m].outbox[w].at = 0 /\ bus[m].outbox[w].nr <= Offered
          /\ \A k \in 1..len : watch.wire[k].frame.nr # bus[m].outbox[w].nr
      BY <1>1, <3>1 DEF BusInv, FramesAreNumbered, len
    <3>3. bus[m].outbox[w].nr # f.nr
      BY <1>7, <3>1 DEF BusInv, FramesAreNumbered
    <3> QED BY <1>2, <1>3, <1>4, <1>14, <3>1, <3>2, <3>3
  <2>2. ASSUME NEW m \in Nodes, NEW i \in DOMAIN bus'[m].outbox,
               NEW l \in Nodes, NEW j \in DOMAIN bus'[l].outbox,
               bus'[l].outbox[j].nr = bus'[m].outbox[i].nr
        PROVE  l = m /\ j = i
    <3>1. l = m /\ was(l, j) = was(m, i)
      BY <1>9, <2>2 DEF BusInv, FramesAreNumbered
    <3> QED BY <1>11, <3>1
  <2>3. ASSUME NEW k \in DOMAIN watch'.wire
        PROVE  /\ watch'.wire[k].frame.nr <= Offered'
               /\ \A l \in DOMAIN watch'.wire :
                    watch'.wire[k].frame.nr = watch'.wire[l].frame.nr => k = l
    <3>1. \A i \in 1..len : watch.wire[i].frame.nr <= Offered
            /\ \A j \in 1..len : watch.wire[i].frame.nr = watch.wire[j].frame.nr => i = j
      BY <1>1 DEF BusInv, FramesAreNumbered, len
    <3> QED BY <1>2, <1>3, <1>4, <1>12, <1>13, <1>14, <3>1
  <2> QED BY <2>1, <2>2, <2>3 DEF FramesAreNumbered
<1>17. WireInOrder'
  <2>1. \A k \in 1..len :
          /\ watch.wire[k].start <= watch.wire[k].end /\ watch.wire[k].end <= net.now
          /\ \A l \in 1..len : k < l => watch.wire[k].end <= watch.wire[l].start
    BY <1>1, <1>5 DEF BusInv, WireInOrder, len
  <2>2. ASSUME NEW k \in DOMAIN watch'.wire
        PROVE  /\ watch'.wire[k].start <= watch'.wire[k].end
               /\ \A l \in DOMAIN watch'.wire : k < l => watch'.wire[k].end <= watch'.wire[l].start
               /\ k <= Landed' => watch'.wire[k].end <= net'.now
    <3>1. CASE k \in 1..len
      BY <1>2, <1>3, <1>4, <1>6, <2>1, <3>1
    <3>2. CASE k = len + 1
      <4>1. ~(k <= Landed') /\ \A l \in 1..(len + 1) : ~(k < l)
        BY <1>1, <1>5, <3>2 DEF len
      <4> QED BY <1>2, <1>3, <1>6, <3>2, <4>1
    <3> QED BY <1>3, <1>4, <3>1, <3>2
  <2>3. /\ watch'.wire # <<>> /\ watch'.wire[Len(watch'.wire)] = x
    BY <1>1, <1>3, EmptySeq DEF len
  <2>4. [[f EXCEPT !.at = end] EXCEPT !.at = 0] = f /\ [f EXCEPT !.at = end].at = end
    BY <1>12 DEF FrameUnderWay
  <2>5. InFlight' =>
         /\ watch'.wire # <<>>
         /\ watch'.wire[Len(watch'.wire)].frame = [net'.carried[1] EXCEPT !.at = 0]
         /\ watch'.wire[Len(watch'.wire)].end = net'.until
         /\ net'.carried[1].at = net'.until
    BY <1>2, <1>6, <2>3, <2>4
  <2> QED BY <2>2, <2>5 DEF WireInOrder
<1>18. ClockInBounds'
  BY <1>6 DEF BusInv, ClockInBounds
<1>19. ASSUME NEW m \in Nodes PROVE FromTheWire(Reaches(m), watch.wire, Landed)'
  <2>1. Reaches(m)' = Reaches(m)
    BY DEF Reaches, Starts
  <2> DEFINE got == Reaches(m)
  <2>2. FromTheWire(got, watch.wire, len)
    BY <1>5 DEF BusInv
  <2> HIDE DEF got
  <2>3. \A i \in DOMAIN got : \E k \in 1..len :
          watch'.wire[k].frame.nr = got[i].nr /\ watch'.wire[k].end = got[i].at
    BY <1>3, <2>2 DEF FromTheWire
  <2>4. \A i \in DOMAIN got : got[i].nr # f.nr
    BY <1>13, <2>2 DEF FromTheWire
  <2>5. ASSUME NEW i \in DOMAIN got, NEW j \in DOMAIN got,
               NEW k \in DOMAIN watch'.wire, NEW l \in DOMAIN watch'.wire,
               i < j, watch'.wire[k].frame.nr = got[i].nr, watch'.wire[l].frame.nr = got[j].nr
        PROVE  k < l
    <3>1. k \in 1..len /\ l \in 1..len
      BY <1>2, <1>3, <1>4, <2>4, <2>5
    <3> QED BY <1>1, <1>3, <2>2, <2>5, <3>1 DEF FromTheWire, len
  <2>6. FromTheWire(got, watch'.wire, len)
    BY <2>3, <2>5 DEF FromTheWire
  <2> QED BY <1>5, <2>1, <2>6 DEF got
<1>20. Accounted'
  <2>1. ASSUME NEW m \in Nodes
        PROVE  bus'[m].received = Len(Reaches(m)') + watch'.cleared[m].in
    <3>1. Reaches(m)' = Reaches(m)
      BY DEF Reaches, Starts
    <3>2. bus'[m].received = bus[m].received /\ watch'.cleared = watch.cleared
      BY DEF Starts
    <3> QED BY <3>1, <3>2 DEF BusInv, Accounted
  <2>2. ASSUME NEW m \in Nodes, m # n
        PROVE  watch'.offered[m] = bus'[m].sent + bus'[m].refused + Len(bus'[m].outbox) + watch'.cleared[m].out
    BY <2>2 DEF BusInv, Accounted, Starts
  <2>3. watch'.offered[n] = bus'[n].sent + bus'[n].refused + Len(bus'[n].outbox) + watch'.cleared[n].out
    <3> DEFINE gone == watch.cleared[n].out
               here == Len(bus[n].outbox)
    <3>1. bus[n].sent \in Nat /\ bus[n].refused \in Nat /\ gone \in Nat /\ here \in Nat
      BY <1>0, <1>7, Typed DEF Participant, Watched
    <3>2. watch.offered[n] = bus[n].sent + bus[n].refused + here + gone
      BY DEF BusInv, Accounted
    <3>3. /\ watch'.offered[n] = watch.offered[n] /\ bus'[n].sent = bus[n].sent + 1
          /\ bus'[n].refused = bus[n].refused /\ watch'.cleared[n].out = gone
      BY DEF Starts
    <3>4. Len(bus'[n].outbox) = here - 1
      BY <1>8
    <3> HIDE DEF gone, here
    <3>5. watch'.offered[n] = bus'[n].sent + bus'[n].refused + (here - 1) + gone
      BY <3>1, <3>2, <3>3
    <3> QED BY <3>3, <3>4, <3>5
  <2> QED BY <2>1, <2>2, <2>3 DEF Accounted
<1>21. Strangers'
  BY DEF BusInv, Strangers, Attached, Starts
<1>22. UrgentIsNext'
  <2>1. MediumFree = net.now
    BY <1>5 DEF MediumFree
  <2>2. ASSUME NEW m \in Nodes, NEW i \in DOMAIN bus'[m].outbox,
               watch'.free[bus'[m].outbox[i].nr] <= Horizon
        PROVE  i = 1 /\ ~Foremost(bus'[m].outbox[i].of)
    <3> DEFINE w == was(m, i)
    <3>1. w \in DOMAIN bus[m].outbox /\ bus'[m].outbox[i] = bus[m].outbox[w]
      BY <1>9
    <3>2. w = 1
      BY <1>14, <2>2, <3>1 DEF BusInv, UrgentIsNext, NextIfUrgent
    <3>3. m # n /\ i = 1
      BY <1>9, <1>10, <3>2 DEF was
    <3> HIDE DEF w
    <3>4. 1 \in DOMAIN bus[m].outbox /\ bus[m].outbox # <<>>
      BY <3>1, <3>2, EmptySeq
    <3>5. m \in Contenders
      BY <1>0, <3>4, WaitingMeansContending
    <3> DEFINE g == bus[m].outbox[1]
    <3>6. KeyOfNode(n) = ArbitrationKey(f.of.id) /\ KeyOfNode(m) = ArbitrationKey(g.of.id)
      BY <1>0, <1>7, Typed DEF KeyOfNode
    <3>7. g.of \in Traffic[m] /\ g.of \in Frame /\ f.of \in Frame
      BY <1>0, <1>12, <3>4, TrafficIsFrames DEF BusTypeOK, TrafficIsFrames, Frame
    <3>8. ArbitrationKey(f.of.id) \in Nat /\ ArbitrationKey(g.of.id) \in Nat
      BY <3>7, KeyType
    <3> HIDE DEF g
    <3>9. ArbitrationKey(f.of.id) <= ArbitrationKey(g.of.id)
      BY <3>5, <3>6, <3>8 DEF Starts, Wins
    <3>10. ~Foremost(g.of)
      BY <1>12, <3>3, <3>7, <3>8, <3>9 DEF Foremost
    <3> QED BY <3>1, <3>2, <3>3, <3>10 DEF g
  <2>3. ASSUME NEW k \in DOMAIN watch'.wire, watch'.free[watch'.wire[k].frame.nr] <= Horizon,
               Foremost(watch'.wire[k].frame.of)
        PROVE  watch'.wire[k].start = watch'.free[watch'.wire[k].frame.nr]
    <3>1. CASE k \in 1..len
      <4>1. StartedWhenFree(watch.wire[k])
        BY <1>1, <3>1 DEF BusInv, UrgentIsNext, len
      <4> QED BY <1>3, <1>14, <2>3, <3>1, <4>1 DEF StartedWhenFree
    <3>2. CASE k = len + 1
      <4>1. NextIfUrgent(f, 1)
        BY <1>7 DEF BusInv, UrgentIsNext
      <4> QED BY <1>2, <1>3, <1>14, <2>1, <2>3, <3>2, <4>1 DEF NextIfUrgent
    <3> QED BY <1>3, <1>4, <3>1, <3>2
  <2> QED BY <2>2, <2>3 DEF UrgentIsNext, NextIfUrgent, StartedWhenFree
<1> QED BY <1>15, <1>16, <1>17, <1>18, <1>19, <1>20, <1>21, <1>22 DEF BusInv

-----------------------------------------------------------------------------
(* A transmission ends.                                                    *)
Delivers(m, f) ==
  /\ bus'[m].outbox = bus[m].outbox /\ bus'[m].open = bus[m].open
  /\ bus'[m].sent = bus[m].sent /\ bus'[m].refused = bus[m].refused
  /\ \/ bus'[m].inbox = bus[m].inbox /\ bus'[m].received = bus[m].received
     \/ /\ m \in Attached /\ bus[m].open /\ Len(bus[m].inbox) < RxLimit
        /\ bus'[m].inbox = Append(bus[m].inbox, f) /\ bus'[m].received = bus[m].received + 1

LEMMA CompleteEffect ==
  ASSUME BusTypeOK, CompleteTransmission, net.carried[1] \in FrameUnderWay
  PROVE  /\ bus' \in [Nodes -> Participant]
         /\ \A m \in Nodes : Delivers(m, net.carried[1])
<1> DEFINE f == net.carried[1]
           got(m) == Seen([bus[m] EXCEPT !.inbox = Append(@, f), !.received = @ + 1], f.at, f.at)
           lost(m) == [bus[m] EXCEPT !.dropped = @ + 1]
<1>1. bus' = [m \in Nodes |-> IF ~Hears(m, f) THEN bus[m]
                             ELSE IF Len(bus[m].inbox) >= RxLimit THEN lost(m) ELSE got(m)]
  BY DEF CompleteTransmission
<1>2. f \in FrameUnderWay /\ f.at \in Nat
  BY DEF FrameUnderWay
<1> HIDE DEF f
<1>3. bus \in [Nodes -> Participant]
  BY Typed
<1>4. ASSUME NEW m \in Nodes
      PROVE  /\ lost(m) \in Participant /\ lost(m).outbox = bus[m].outbox /\ lost(m).open = bus[m].open
             /\ lost(m).sent = bus[m].sent /\ lost(m).refused = bus[m].refused
             /\ lost(m).inbox = bus[m].inbox /\ lost(m).received = bus[m].received
  <2>1. bus[m].dropped \in Nat /\ \A k \in Nat : [bus[m] EXCEPT !.dropped = k] \in Participant
    BY <1>3, ParticipantField
  <2>2. bus[m].dropped + 1 \in Nat
    BY <2>1
  <2>3. bus[m] \in Participant
    BY <1>3
  <2> QED BY <2>1, <2>2, <2>3 DEF Participant
<1>5. ASSUME NEW m \in Nodes
      PROVE  /\ got(m) \in Participant /\ got(m).outbox = bus[m].outbox /\ got(m).open = bus[m].open
             /\ got(m).sent = bus[m].sent /\ got(m).refused = bus[m].refused
             /\ got(m).inbox = Append(bus[m].inbox, f) /\ got(m).received = bus[m].received + 1
  <2> DEFINE p1 == [bus[m] EXCEPT !.inbox = Append(@, f)]
             p2 == [p1 EXCEPT !.received = @ + 1]
             p3 == [p2 EXCEPT !.first = IF @ = 0 THEN f.at ELSE @]
             p4 == [p3 EXCEPT !.last = f.at]
  <2>1. bus[m] \in Participant
    BY <1>3
  <2>2. p1 \in Participant /\ p1.outbox = bus[m].outbox /\ p1.sent = bus[m].sent
        /\ p1.inbox = Append(bus[m].inbox, f) /\ p1.open = bus[m].open
        /\ p1.refused = bus[m].refused /\ p1.received = bus[m].received
    <3>1. bus[m].inbox \in Seq(FrameUnderWay)
          /\ \A s \in Seq(FrameUnderWay) : [bus[m] EXCEPT !.inbox = s] \in Participant
      BY <2>1, ParticipantField
    <3>2. Append(bus[m].inbox, f) \in Seq(FrameUnderWay)
      BY <1>2, <3>1, AppendProperties
    <3>3. p1 \in Participant
      BY <3>1, <3>2
    <3> QED BY <2>1, <3>3 DEF Participant
  <2>3. got(m) = p4
    BY DEF Seen
  <2> HIDE DEF p1, got
  <2>4. p2 \in Participant /\ p2.outbox = p1.outbox /\ p2.sent = p1.sent
        /\ p2.inbox = p1.inbox /\ p2.open = p1.open /\ p2.refused = p1.refused
        /\ p2.received = p1.received + 1
    <3>1. p1.received \in Nat /\ \A k \in Nat : [p1 EXCEPT !.received = k] \in Participant
      BY <2>2, ParticipantField
    <3>2. p1.received + 1 \in Nat
      BY <3>1
    <3> QED BY <2>2, <3>1, <3>2 DEF Participant
  <2> HIDE DEF p2
  <2>5. p3 \in Participant /\ p3.outbox = p2.outbox /\ p3.sent = p2.sent
        /\ p3.inbox = p2.inbox /\ p3.open = p2.open /\ p3.refused = p2.refused
        /\ p3.received = p2.received
    <3>1. (IF p2.first = 0 THEN f.at ELSE p2.first) \in Nat
          /\ \A k \in Nat : [p2 EXCEPT !.first = k] \in Participant
      BY <1>2, <2>4, ParticipantField
    <3> QED BY <2>4, <3>1 DEF Participant
  <2> HIDE DEF p3
  <2>6. p4 \in Participant /\ p4.outbox = p3.outbox /\ p4.sent = p3.sent
        /\ p4.inbox = p3.inbox /\ p4.open = p3.open /\ p4.refused = p3.refused
        /\ p4.received = p3.received
    <3>1. p4 \in Participant
      BY <1>2, <2>5, ParticipantField
    <3> QED BY <2>5, <3>1 DEF Participant
  <2> HIDE DEF p4
  <2> QED BY <2>2, <2>3, <2>4, <2>5, <2>6
<1> HIDE DEF got, lost
<1>6. bus' \in [Nodes -> Participant]
  BY <1>1, <1>3, <1>4, <1>5
<1>7. ASSUME NEW m \in Nodes PROVE Delivers(m, f)
  <2>1. Len(bus[m].inbox) \in Nat
    BY Typed
  <2>2. CASE ~Hears(m, f) \/ Len(bus[m].inbox) >= RxLimit
    <3>1. bus'[m] = bus[m] \/ bus'[m] = lost(m)
      BY <1>1, <2>2
    <3> QED BY <1>4, <3>1 DEF Delivers
  <2>3. CASE Hears(m, f) /\ ~(Len(bus[m].inbox) >= RxLimit)
    <3>1. bus'[m] = got(m)
      BY <1>1, <2>3
    <3>2. m \in Attached /\ bus[m].open /\ Len(bus[m].inbox) < RxLimit
      BY <2>1, <2>3, Limits DEF Hears, Limits
    <3> QED BY <1>5, <3>1, <3>2 DEF Delivers
  <2> QED BY <2>2, <2>3
<1> QED BY <1>6, <1>7 DEF f

LEMMA GotOneMore ==
  ASSUME NEW S, NEW got \in Seq(S), NEW f \in S, NEW wire, NEW len \in Nat \ {0},
         DOMAIN wire = 1..len, FromTheWire(got, wire, len - 1),
         \A k, l \in 1..len : wire[k].frame.nr = wire[l].frame.nr => k = l,
         wire[len].frame.nr = f.nr, wire[len].end = f.at
  PROVE  FromTheWire(Append(got, f), wire, len)
<1> DEFINE more == Append(got, f)
           n == Len(got)
<1>1. /\ n \in Nat /\ DOMAIN got = 1..n /\ DOMAIN more = 1..(n + 1) /\ more[n + 1] = f
      /\ \A i \in 1..n : more[i] = got[i]
  BY AppendProperties, LenProperties
<1>2. \A i \in 1..(n + 1) : i \in 1..n \/ i = n + 1
  BY <1>1
<1> HIDE DEF more, n
<1>3. len \in 1..len /\ \A k \in 1..(len - 1) : k \in 1..len /\ k < len
  OBVIOUS
<1>4. ASSUME NEW i \in 1..n
      PROVE  \E k \in 1..(len - 1) : wire[k].frame.nr = got[i].nr /\ wire[k].end = got[i].at
  BY <1>1 DEF FromTheWire
<1>5. ASSUME NEW i \in 1..(n + 1)
      PROVE  \E k \in 1..len : wire[k].frame.nr = more[i].nr /\ wire[k].end = more[i].at
  <2>1. CASE i \in 1..n
    BY <1>1, <1>3, <1>4, <2>1
  <2>2. CASE i = n + 1
    BY <1>1, <1>3, <2>2
  <2> QED BY <1>2, <2>1, <2>2
<1>6. ASSUME NEW i \in 1..(n + 1), NEW j \in 1..(n + 1), NEW k \in 1..len, NEW l \in 1..len,
             i < j, wire[k].frame.nr = more[i].nr, wire[l].frame.nr = more[j].nr
      PROVE  k < l
  <2>1. i \in 1..n
    BY <1>1, <1>6
  <2>2. CASE j \in 1..n
    <3>1. \A a, b \in 1..n : \A c, d \in 1..len :
            a < b /\ wire[c].frame.nr = got[a].nr /\ wire[d].frame.nr = got[b].nr => c < d
      BY <1>1 DEF FromTheWire
    <3>2. more[i] = got[i] /\ more[j] = got[j]
      BY <1>1, <2>1, <2>2
    <3> QED BY <1>6, <2>1, <2>2, <3>1, <3>2
  <2>3. CASE j = n + 1
    <3>1. l = len
      BY <1>1, <1>3, <1>6, <2>3
    <3>2. k < len
      BY <1>1, <1>3, <1>4, <1>6, <2>1
    <3> QED BY <3>1, <3>2
  <2> QED BY <1>2, <2>2, <2>3
<1>7. FromTheWire(more, wire, len)
  BY <1>1, <1>5, <1>6 DEF FromTheWire
<1> QED BY <1>7 DEF more

LEMMA CompleteKeeps ==
  ASSUME BusInv, Complete(net.until), UNCHANGED <<call, watch>>, call # Idle,
         call.op = "advance" => net.until <= call.target
  PROVE  BusInv'
<1>0. BusTypeOK
  BY DEF BusInv
<1> DEFINE f == net.carried[1]
           len == Len(watch.wire)
<1>1. /\ net \in MediumMembers /\ net.until \in Nat /\ net.now \in Nat /\ net.now <= net.until
      /\ InFlight /\ CompleteTransmission
  BY <1>0, Typed DEF BusInv, ClockInBounds, Complete, CompleteTransmission
<1>2. /\ net.carried \in Seq(FrameUnderWay) /\ Len(net.carried) = 1 /\ f \in FrameUnderWay
  <2>1. net.carried \in Seq(FrameUnderWay) /\ net.carried # <<>>
    BY <1>1 DEF MediumMembers, InFlight
  <2>2. Len(net.carried) = 1
    <3>1. Len(net.carried) \in Nat \ {0}
      BY <2>1, EmptySeq
    <3> DEFINE k == Len(net.carried)
    <3>2. k \in Nat \ {0} /\ k <= 1
      BY <1>0, <3>1 DEF BusTypeOK
    <3> HIDE DEF k
    <3>3. k = 1
      BY <3>2
    <3> QED BY <3>3 DEF k
  <2> QED BY <2>1, <2>2, ElementOfSeq
<1>3. net' \in MediumMembers /\ net'.order = net.order /\ net'.carried = <<>> /\ net'.from = {}
      /\ net'.now = net.until /\ net'.until = net.until
  BY <1>1, EmptySeq DEF Complete, MediumMembers
<1>4. bus' \in [Nodes -> Participant] /\ \A m \in Nodes : Delivers(m, f)
  BY <1>0, <1>1, <1>2, CompleteEffect
<1>5. /\ len \in Nat \ {0} /\ watch.wire \in Seq(Transmission) /\ DOMAIN watch.wire = 1..len
      /\ watch.wire[len].frame = [f EXCEPT !.at = 0] /\ watch.wire[len].end = net.until
      /\ f.at = net.until
  BY <1>0, <1>1, Typed, EmptySeq, LenProperties DEF Watched, BusInv, WireInOrder
<1>6. Landed = len - 1 /\ Landed' = len /\ ~InFlight'
  BY <1>2, <1>3, <1>5, EmptySeq DEF Landed, InFlight
<1>7. watch.wire[len].frame.nr = f.nr /\ f.of \in UNION {Traffic[m] : m \in Nodes}
  BY <1>2, <1>5 DEF FrameUnderWay
<1>8. net.carried' = <<>> /\ watch' = watch /\ call' = call
  BY <1>3
<1> HIDE DEF f
<1>9. \A m \in Nodes : bus'[m].outbox = bus[m].outbox
  BY <1>4 DEF Delivers
<1>10. Offered \in Nat
  BY <1>0, Typed
<1>11. BusTypeOK'
  <2>1. ASSUME NEW m \in Nodes
        PROVE  /\ \A i \in DOMAIN bus'[m].outbox : bus'[m].outbox[i].of \in Traffic[m]
               /\ Len(bus'[m].outbox) <= TxLimit /\ Len(bus'[m].inbox) <= RxLimit
               /\ m \notin Attached' \/ ~bus'[m].open => bus'[m].outbox = <<>> /\ bus'[m].inbox = <<>>
    <3>1. Attached' = Attached
      BY <1>3 DEF Attached
    <3>2. /\ \A i \in DOMAIN bus[m].outbox : bus[m].outbox[i].of \in Traffic[m]
          /\ Len(bus[m].outbox) <= TxLimit /\ Len(bus[m].inbox) <= RxLimit
          /\ m \notin Attached \/ ~bus[m].open => bus[m].outbox = <<>> /\ bus[m].inbox = <<>>
      BY <1>0 DEF BusTypeOK
    <3>3. /\ bus'[m].outbox = bus[m].outbox /\ bus'[m].open = bus[m].open
          /\ \/ bus'[m].inbox = bus[m].inbox
             \/ /\ m \in Attached /\ bus[m].open /\ Len(bus[m].inbox) < RxLimit
                /\ bus'[m].inbox = Append(bus[m].inbox, f)
      BY <1>4 DEF Delivers
    <3>4. Len(Append(bus[m].inbox, f)) = Len(bus[m].inbox) + 1 /\ Len(bus[m].inbox) \in Nat
      BY <1>0, <1>2, Typed, AppendProperties
    <3>5. Len(bus'[m].inbox) <= RxLimit
      BY <3>2, <3>3, <3>4, Limits DEF Limits
    <3> QED BY <3>1, <3>2, <3>3, <3>5
  <2>2. \A i, j \in DOMAIN net'.order : net'.order[i] = net'.order[j] => i = j
    BY <1>0, <1>3 DEF BusTypeOK
  <2>3. Len(net'.carried) <= 1 /\ (InFlight' <=> net'.from # {})
    BY <1>3, <1>6, EmptySeq
  <2>4. call' \in Call /\ watch' \in Watched
    BY <1>0, <1>8, Typed
  <2> QED BY <1>3, <1>4, <2>1, <2>2, <2>3, <2>4 DEF BusTypeOK
<1>12. FramesAreNumbered'
  BY <1>0, <1>8, <1>9, <1>10, FramesKept DEF BusInv, OutboxesShrink, Offered
<1>13. WireInOrder'
  <2>1. \A k \in 1..len :
          /\ watch.wire[k].start <= watch.wire[k].end /\ watch.wire[k].end \in Nat
          /\ \A l \in 1..len : k < l => watch.wire[k].end <= watch.wire[l].start
          /\ k <= len - 1 => watch.wire[k].end <= net.now
    BY <1>0, <1>5, <1>6, WireFrame DEF BusInv, WireInOrder, Transmission, len
  <2>2. \A k \in 1..len : watch.wire[k].end <= net.until
    BY <1>1, <1>5, <2>1
  <2>3. ASSUME NEW k \in DOMAIN watch'.wire
        PROVE  /\ watch'.wire[k].start <= watch'.wire[k].end
               /\ \A l \in DOMAIN watch'.wire : k < l => watch'.wire[k].end <= watch'.wire[l].start
               /\ k <= Landed' => watch'.wire[k].end <= net'.now
    BY <1>3, <1>5, <1>8, <2>1, <2>2
  <2> QED BY <1>6, <2>3 DEF WireInOrder
<1>14. ClockInBounds'
  BY <1>3, <1>6, <1>8 DEF ClockInBounds
<1>15. ASSUME NEW m \in Nodes
       PROVE  /\ \/ Reaches(m)' = Reaches(m) /\ bus'[m].received = bus[m].received
                 \/ Reaches(m)' = Append(Reaches(m), f) /\ bus'[m].received = bus[m].received + 1
              /\ Reaches(m) \in Seq(FrameUnderWay)
  <2>1. watch.taken[m] \in Seq(FrameUnderWay) /\ bus[m].inbox \in Seq(FrameUnderWay)
    BY <1>0, Typed
  <2>2. watch.taken[m] \o Append(bus[m].inbox, f) = Append(watch.taken[m] \o bus[m].inbox, f)
    <3> DEFINE a == watch.taken[m]
               b == bus[m].inbox
    <3>1. a \in Seq(FrameUnderWay) /\ b \in Seq(FrameUnderWay) /\ f \in FrameUnderWay
      BY <1>2, <2>1
    <3> HIDE DEF a, b
    <3>2. a \o Append(b, f) = Append(a \o b, f)
      BY <3>1, PutLast
    <3> QED BY <3>2 DEF a, b
  <2> QED BY <1>4, <1>8, <2>1, <2>2, ConcatProperties DEF Delivers, Reaches
<1>16. ASSUME NEW m \in Nodes PROVE FromTheWire(Reaches(m), watch.wire, Landed)'
  <2> DEFINE got == Reaches(m)
  <2>1. got \in Seq(FrameUnderWay) /\ FromTheWire(got, watch.wire, len - 1)
    BY <1>6, <1>15 DEF BusInv
  <2> HIDE DEF got
  <2>2. \A k, l \in 1..len : watch.wire[k].frame.nr = watch.wire[l].frame.nr => k = l
    BY <1>5 DEF BusInv, FramesAreNumbered
  <2>3. FromTheWire(Append(got, f), watch.wire, len)
    BY <1>2, <1>5, <1>7, <2>1, <2>2, GotOneMore
  <2>4. FromTheWire(got, watch.wire, len)
    <3>1. got \o <<>> = got /\ <<>> \in Seq(FrameUnderWay)
      BY <2>1, ConcatEmptySeq, EmptySeq
    <3>2. len - 1 <= len /\ len - 1 \in Int /\ len \in Int
      BY <1>5
    <3> HIDE DEF len
    <3> QED BY <2>1, <3>1, <3>2, GotKept
  <2>5. Reaches(m)' = got \/ Reaches(m)' = Append(got, f)
    BY <1>15 DEF got
  <2> QED BY <1>6, <1>8, <2>3, <2>4, <2>5
<1>17. Accounted'
  <2>1. ASSUME NEW m \in Nodes
        PROVE  watch'.offered[m] = bus'[m].sent + bus'[m].refused + Len(bus'[m].outbox) + watch'.cleared[m].out
    BY <1>4, <1>8 DEF BusInv, Accounted, Delivers
  <2>2. ASSUME NEW m \in Nodes
        PROVE  bus'[m].received = Len(Reaches(m)') + watch'.cleared[m].in
    <3> DEFINE had == Len(Reaches(m))
               gone == watch.cleared[m].in
    <3>1. had \in Nat /\ gone \in Nat /\ Len(Append(Reaches(m), f)) = had + 1
      BY <1>0, <1>2, <1>15, Typed, LenProperties, AppendProperties DEF Watched
    <3>2. bus[m].received = had + gone
      BY DEF BusInv, Accounted
    <3>3. \/ Len(Reaches(m)') = had /\ bus'[m].received = bus[m].received
          \/ Len(Reaches(m)') = had + 1 /\ bus'[m].received = bus[m].received + 1
      BY <1>15, <3>1
    <3> HIDE DEF had, gone
    <3>4. bus'[m].received = Len(Reaches(m)') + gone
      BY <3>1, <3>2, <3>3
    <3> QED BY <1>8, <3>4 DEF gone
  <2> QED BY <2>1, <2>2 DEF Accounted
<1>18. Strangers'
  BY <1>3, <1>8 DEF BusInv, Strangers, Attached
<1>19. UrgentIsNext'
  <2>1. MediumFree' = MediumFree
    BY <1>1, <1>3, <1>6 DEF MediumFree
  <2>2. \A nr \in 1..Offered : watch'.free[nr] = watch.free[nr]
    BY <1>8
  <2> QED BY <1>0, <1>8, <1>9, <1>10, <2>1, <2>2, UrgentKept DEF BusInv, OutboxesShrink
<1> QED BY <1>11, <1>12, <1>13, <1>14, <1>16, <1>17, <1>18, <1>19 DEF BusInv

-----------------------------------------------------------------------------
(* Every step.                                                             *)
LEMMA RunsKeeps ==
  ASSUME BusInv, Runs
  PROVE  BusInv'
<1>0. BusTypeOK /\ call \in Call
  BY Typed DEF BusInv
<1>1. CASE AdvanceTurn /\ watch' = IF InFlight THEN watch ELSE Started
  <2>1. call.op = "advance" /\ call' = call /\ call # Idle
    BY <1>0, <1>1, CallFields DEF AdvanceTurn
  <2>2. CASE InFlight /\ net.until <= net.now /\ Complete(net.now)
    <3>1. net.until = net.now /\ net.until <= call.target
      BY <1>0, <2>1, <2>2, Typed, CallFields DEF BusInv, ClockInBounds
    <3> QED BY <1>1, <2>1, <2>2, <3>1, CompleteKeeps
  <2>3. CASE StartTransmission
    <3>1. watch' = Started
      BY <1>1, <2>3 DEF StartTransmission
    <3>2. PICK n \in Nodes, f \in FrameUnderWay, end \in Nat : Starts(n, f, end)
      BY <2>3, <3>1, StartEffect
    <3> QED BY <1>0, <2>1, <3>2, StartKeeps
  <2>4. CASE /\ InFlight /\ net.until <= call.target
             /\ net' = [net EXCEPT !.now = net.until] /\ bus' = bus
    BY <1>1, <2>1, <2>4, ClockMoves
  <2> QED BY <1>1, <2>2, <2>3, <2>4 DEF AdvanceTurn
<1>2. CASE AdvanceReturns /\ watch' = Taken
  BY <1>2, AdvanceReturnsKeeps
<1>3. CASE DrainTurn /\ watch' = IF InFlight THEN watch ELSE Started
  <2>1. call.op = "drain" /\ call # Idle
    BY <1>3 DEF DrainTurn, Idle
  <2>2. CASE Complete(net.until) /\ call' = call
    <3>1. watch' = watch
      BY <1>3, <2>2 DEF Complete, CompleteTransmission
    <3> QED BY <2>1, <2>2, <3>1, CompleteKeeps
  <2>3. CASE call.left > 0 /\ StartTransmission /\ call' = [call EXCEPT !.left = @ - 1]
    <3>1. watch' = Started
      BY <1>3, <2>3 DEF StartTransmission
    <3>2. PICK n \in Nodes, f \in FrameUnderWay, end \in Nat : Starts(n, f, end)
      BY <2>3, <3>1, StartEffect
    <3>3. call \in [op : {"drain"}, left : Nat]
      BY <1>0, <2>1 DEF Call, Idle
    <3>4. call' \in Call /\ call'.op = "drain" /\ call' # Idle
      BY <2>3, <3>3 DEF Call, Idle
    <3> QED BY <3>2, <3>4, StartKeeps
  <2> QED BY <1>3, <2>2, <2>3 DEF DrainTurn
<1>4. CASE DrainReturns /\ Unwatched
  BY <1>4, DrainReturnsKeeps
<1> QED BY <1>1, <1>2, <1>3, <1>4 DEF Runs

LEMMA BusInvStep == BusInv /\ [Next]_vars => BusInv'
<1> SUFFICES ASSUME BusInv, [Next]_vars PROVE BusInv'
  OBVIOUS
<1>1. ASSUME NEW n \in Nodes,
             Join(n) \/ Leaves(n) \/ Opens(n) \/ Closes(n) \/ Filters(n) \/ Offer(n) \/ Takes(n)
      PROVE  BusInv'
  BY <1>1, JoinKeeps, LeavesKeeps, OpensKeeps, ClosesKeeps, FiltersKeeps, OfferKeeps, TakesKeeps
<1>2. CASE Waits \/ Drains \/ Runs
  BY <1>2, WaitsKeeps, DrainsKeeps, RunsKeeps
<1>3. CASE UNCHANGED vars
  <2>1. UNCHANGED <<net, bus, call, watch>>
    BY <1>3 DEF vars
  <2>2. BusTypeOK'
    BY <2>1 DEF BusInv, BusTypeOK, InFlight, Attached
  <2>3. FramesAreNumbered'
    BY <2>1 DEF BusInv, FramesAreNumbered, Offered
  <2>4. WireInOrder'
    BY <2>1 DEF BusInv, WireInOrder, InFlight, Landed
  <2>5. ClockInBounds'
    BY <2>1 DEF BusInv, ClockInBounds, InFlight
  <2>6. \A n \in Nodes : Reaches(n)' = Reaches(n)
    BY <2>1 DEF Reaches
  <2>7. Accounted' /\ \A n \in Nodes : FromTheWire(Reaches(n), watch.wire, Landed)'
    BY <2>1, <2>6 DEF BusInv, Accounted, Landed
  <2>8. Strangers'
    BY <2>1 DEF BusInv, Strangers, Attached
  <2>9. UrgentIsNext'
    BY <2>1 DEF BusInv, UrgentIsNext, NextIfUrgent, StartedWhenFree, MediumFree, InFlight
  <2> QED BY <2>2, <2>3, <2>4, <2>5, <2>7, <2>8, <2>9 DEF BusInv
<1> QED BY <1>1, <1>2, <1>3 DEF Next

(* The invariant holds at every moment, whatever programs send, open,      *)
(* close, filter or destroy (VirtualMedium, VirtualBus).                   *)
THEOREM BusInvAlways == Spec => []BusInv
<1>1. Init => BusInv
  BY BusInvInit
<1>2. BusInv /\ [Next]_vars => BusInv'
  BY BusInvStep
<1> QED BY <1>1, <1>2, PTL DEF Spec

(* At every moment one frame at most is on the wire, transmissions follow  *)
(* each other, and a frame more urgent than all others starts at the tick  *)
(* the medium falls free (start_next_transmission(), advance(), drain()).  *)
THEOREM OneFrameAtATime == Spec => []OnTheWire
<1>1. BusInv => OnTheWire
  <2> SUFFICES ASSUME BusInv PROVE OnTheWire
    OBVIOUS
  <2>1. BusTypeOK /\ WireInOrder /\ ClockInBounds /\ UrgentIsNext
    BY DEF BusInv
  <2>2. OneAtATime
    <3>1. \A i \in DOMAIN watch.wire : i > 1 => i - 1 \in DOMAIN watch.wire /\ i - 1 < i
      BY <2>1, WireFrame, LenProperties DEF BusTypeOK, Watched
    <3> QED BY <2>1, <3>1 DEF OneAtATime, WireInOrder, ClockInBounds
  <2>3. UrgentStartsWhenFree
    <3>1. \A k \in DOMAIN watch.wire :
            Urgent(watch.wire[k].frame) => watch.wire[k].start = watch.free[watch.wire[k].frame.nr]
      BY <2>1 DEF UrgentIsNext, StartedWhenFree, Urgent
    <3>2. net.now <= MediumFree
      BY <2>1, Typed DEF MediumFree, ClockInBounds
    <3>3. \A n \in Nodes : \A i \in DOMAIN bus[n].outbox :
            Urgent(bus[n].outbox[i]) => watch.free[bus[n].outbox[i].nr] = MediumFree
      BY <2>1 DEF UrgentIsNext, NextIfUrgent, Urgent
    <3> QED BY <3>1, <3>2, <3>3 DEF UrgentStartsWhenFree
  <2> QED BY <2>1, <2>2, <2>3 DEF OnTheWire
<1> QED BY <1>1, BusInvAlways, PTL

LEMMA FramesInOrder == BusInv => EveryFrameOnceAndInOrder
<1> SUFFICES ASSUME BusInv PROVE EveryFrameOnceAndInOrder
  OBVIOUS
<1>0. BusTypeOK
  BY DEF BusInv
<1>1. ASSUME NEW n \in Nodes
      PROVE  LET got == Reaches(n)
                 on(i) == {k \in DOMAIN watch.wire : watch.wire[k].frame.nr = got[i].nr}
             IN  /\ \A i \in DOMAIN got : \E k \in on(i) : got[i].at = watch.wire[k].end /\ got[i].at <= net.now
                 /\ \A i, j \in DOMAIN got : i < j => \A k \in on(i), l \in on(j) : k < l
  <2> DEFINE got == Reaches(n)
  <2>1. FromTheWire(got, watch.wire, Landed)
    BY DEF BusInv
  <2>2. \A k \in 1..Landed : k \in DOMAIN watch.wire /\ watch.wire[k].end <= net.now
    <3>1. /\ DOMAIN watch.wire = 1..Len(watch.wire) /\ Len(watch.wire) \in Nat
          /\ Len(net.carried) \in Nat
      BY <1>0, LenProperties DEF BusTypeOK, Watched, MediumMembers
    <3>2. \A k \in 1..Landed : k \in DOMAIN watch.wire /\ k <= Landed
      BY <3>1 DEF Landed
    <3> QED BY <3>2 DEF BusInv, WireInOrder
  <2> HIDE DEF got
  <2>3. \A i \in DOMAIN got : \E k \in DOMAIN watch.wire :
          watch.wire[k].frame.nr = got[i].nr /\ got[i].at = watch.wire[k].end /\ got[i].at <= net.now
    BY <2>1, <2>2 DEF FromTheWire
  <2>4. \A i, j \in DOMAIN got : \A k, l \in DOMAIN watch.wire :
          i < j /\ watch.wire[k].frame.nr = got[i].nr /\ watch.wire[l].frame.nr = got[j].nr => k < l
    BY <2>1 DEF FromTheWire
  <2> QED BY <2>3, <2>4 DEF got
<1>2. ReceivedInWireOrder
  BY <1>1 DEF ReceivedInWireOrder
<1> QED BY <1>2 DEF EveryFrameOnceAndInOrder, BusInv

(* Every frame that reaches a program comes in the order of the wire, once *)
(* and with the time its transmission ended, and none is lost unaccounted  *)
(* for (deliver(), receive(), send(), close(), statistics()).              *)
THEOREM FramesComeOnceAndInOrder == Spec => []EveryFrameOnceAndInOrder
BY FramesInOrder, BusInvAlways, PTL

-----------------------------------------------------------------------------
(* The bus is a medium that serves the waiting frames by priority.         *)
Queues == [n \in Nodes |-> bus[n].outbox]
OnWire == [i \in DOMAIN net.carried |-> [net.carried[i] EXCEPT !.at = 0]]
Gone == [i \in 1..(Len(watch.wire) - Len(net.carried)) |-> watch.wire[i].frame]

LEMMA MediumVars ==
  ASSUME Queues' = Queues, OnWire' = OnWire, Gone' = Gone
  PROVE  UNCHANGED Medium!vars
BY DEF Medium!vars, Queues, OnWire, Gone

LEMMA NoneOnWire ==
  ASSUME ~InFlight
  PROVE  OnWire = <<>>
BY DEF InFlight, OnWire

LEMMA MediumInit ==
  ASSUME Init
  PROVE  Medium!Init
<1>1. \A n \in Nodes : bus[n].outbox = <<>>
  BY DEF Init, BusInit, FreshBus
<1>2. net.carried = <<>> /\ watch.wire = <<>>
  BY DEF Init, BusInit
<1>3. Queues = [n \in Nodes |-> <<>>]
  BY <1>1 DEF Queues
<1>4. OnWire = <<>>
  BY <1>2, NoneOnWire DEF InFlight
<1>5. Gone = <<>>
  BY <1>2, EmptySeq DEF Gone
<1> QED BY <1>3, <1>4, <1>5 DEF Medium!Init, Queues, OnWire, Gone

LEMMA SameMedium ==
  ASSUME \A n \in Nodes : bus'[n].outbox = bus[n].outbox,
         net'.carried = net.carried, watch'.wire = watch.wire
  PROVE  UNCHANGED Medium!vars
<1>1. Queues' = Queues
  BY DEF Queues
<1>2. OnWire' = OnWire /\ Gone' = Gone
  BY DEF OnWire, Gone
<1> QED BY <1>1, <1>2, MediumVars

LEMMA EmptiedQueue ==
  ASSUME NEW n \in Nodes, bus'[n].outbox = <<>>,
         \A m \in Nodes : m # n => bus'[m].outbox = bus[m].outbox,
         net'.carried = net.carried, watch'.wire = watch.wire
  PROVE  Medium!Next
<1>1. Queues' = [Queues EXCEPT ![n] = <<>>]
  BY DEF Queues
<1>2. OnWire' = OnWire /\ Gone' = Gone
  BY DEF OnWire, Gone
<1>3. Medium!Leave(n)
  BY <1>1, <1>2 DEF Medium!Leave, Queues, OnWire, Gone
<1> QED BY <1>3 DEF Medium!Next

LEMMA QueuedFrame ==
  ASSUME NEW n \in Nodes, NEW f \in Untimed, bus'[n].outbox = Append(bus[n].outbox, f),
         \A m \in Nodes : m # n => bus'[m].outbox = bus[m].outbox,
         net'.carried = net.carried, watch'.wire = watch.wire
  PROVE  Medium!Next
<1>1. Queues' = [Queues EXCEPT ![n] = Append(@, f)]
  BY DEF Queues
<1>2. OnWire' = OnWire /\ Gone' = Gone
  BY DEF OnWire, Gone
<1>3. Medium!Queue(n)
  BY <1>1, <1>2 DEF Medium!Queue, Queues, OnWire, Gone
<1> QED BY <1>3 DEF Medium!Next

(* Whoever wins the arbitration is the abstract medium's winner.           *)
LEMMA StartWins ==
  ASSUME BusInv, NEW n \in Nodes, NEW f \in FrameUnderWay, NEW end \in Nat, Starts(n, f, end)
  PROVE  Medium!Next
<1>0. BusTypeOK
  BY DEF BusInv
<1>1. /\ bus[n].outbox \in Seq(FrameUnderWay) /\ bus[n].outbox # <<>> /\ 1 \in DOMAIN bus[n].outbox
      /\ f = bus[n].outbox[1] /\ f = Head(bus[n].outbox) /\ f.at = 0
  BY <1>0, Typed, EmptySeq, LenProperties DEF Starts, BusInv, FramesAreNumbered
<1>2. OnWire = <<>>
  BY NoneOnWire DEF Starts
<1>3. OnWire' = <<f>>
  <2>1. [[f EXCEPT !.at = end] EXCEPT !.at = 0] = f
    BY <1>1 DEF FrameUnderWay
  <2>2. net'.carried = <<[f EXCEPT !.at = end]>>
    BY DEF Starts
  <2> DEFINE c == [f EXCEPT !.at = end]
  <2> HIDE DEF c
  <2>3. [i \in DOMAIN <<c>> |-> [<<c>>[i] EXCEPT !.at = 0]] = <<[c EXCEPT !.at = 0]>>
    OBVIOUS
  <2> QED BY <2>1, <2>2, <2>3 DEF OnWire, c
<1>4. Queues' = [Queues EXCEPT ![n] = Tail(@)]
  BY DEF Queues, Starts
<1>5. Gone' = Gone
  <2> DEFINE len == Len(watch.wire)
             x == [frame |-> f, start |-> net.now, end |-> end]
  <2>1. len \in Nat /\ watch.wire \in Seq(Transmission) /\ x \in Transmission
    BY <1>0, Typed, LenProperties DEF Watched, Transmission
  <2>2. watch'.wire = Append(watch.wire, x)
    BY DEF Starts
  <2> HIDE DEF x
  <2>3. Len(watch'.wire) = len + 1 /\ \A k \in 1..len : watch'.wire[k] = watch.wire[k]
    BY <2>1, <2>2, AppendProperties
  <2>4. Len(net.carried) = 0 /\ Len(net'.carried) = 1
    BY EmptySeq DEF Starts, InFlight
  <2>5. Len(watch.wire) - Len(net.carried) = len /\ Len(watch'.wire) - Len(net'.carried) = len
    BY <2>1, <2>3, <2>4
  <2> HIDE DEF len
  <2> QED BY <2>3, <2>5 DEF Gone
<1>6. ASSUME NEW m \in Nodes, Queues[m] # <<>>
      PROVE  ArbitrationKey(Head(Queues[n]).of.id) <= ArbitrationKey(Head(Queues[m]).of.id)
  <2>1. Queues[m] = bus[m].outbox /\ Queues[n] = bus[n].outbox /\ m \in Contenders
    BY <1>0, <1>6, WaitingMeansContending DEF Queues
  <2>2. bus[m].outbox # <<>> /\ Head(bus[m].outbox) = bus[m].outbox[1] /\ 1 \in DOMAIN bus[m].outbox
    BY <1>0, <1>6, <2>1, Typed, EmptySeq, LenProperties
  <2>3. Head(bus[m].outbox).of \in Frame /\ f.of \in Frame
    BY <1>0, <1>1, <2>2, TrafficIsFrames DEF BusTypeOK, TrafficIsFrames, Frame
  <2>4. KeyOfNode(n) \in Nat /\ KeyOfNode(m) \in Nat
    BY <1>1, <2>3, KeyType DEF KeyOfNode
  <2>5. KeyOfNode(n) <= KeyOfNode(m)
    BY <2>1, <2>4 DEF Starts, Wins
  <2> QED BY <2>1, <2>5 DEF KeyOfNode
<1>7. Queues[n] # <<>> /\ Head(Queues[n]) = f
  BY <1>1 DEF Queues
<1>8. Medium!Win(n)
  <2>1. \A m \in Nodes : Queues[m] # <<>> =>
          ArbitrationKey(Head(Queues[n]).of.id) <= ArbitrationKey(Head(Queues[m]).of.id)
    BY <1>6
  <2>2. OnWire' = <<Head(Queues[n])>>
    BY <1>3, <1>7
  <2> QED BY <1>2, <1>4, <1>5, <1>7, <2>1, <2>2 DEF Medium!Win, Queues, OnWire, Gone
<1> QED BY <1>8 DEF Medium!Next

LEMMA CompleteLands ==
  ASSUME BusInv, NEW t, Complete(t), net'.carried = <<>>, watch' = watch,
         \A n \in Nodes : bus'[n].outbox = bus[n].outbox
  PROVE  Medium!Next
<1>0. BusTypeOK
  BY DEF BusInv
<1> DEFINE len == Len(watch.wire)
           f == watch.wire[len].frame
<1>1. InFlight /\ net.carried \in Seq(FrameUnderWay) /\ Len(net.carried) = 1
  <2>1. InFlight /\ net.carried \in Seq(FrameUnderWay) /\ net.carried # <<>>
    BY <1>0, Typed DEF Complete, CompleteTransmission, MediumMembers, InFlight
  <2> DEFINE k == Len(net.carried)
  <2>2. k \in Nat \ {0} /\ k <= 1
    BY <1>0, <2>1, EmptySeq DEF BusTypeOK
  <2> HIDE DEF k
  <2>3. k = 1
    BY <2>2
  <2> QED BY <2>1, <2>3 DEF k
<1>2. /\ len \in Nat \ {0} /\ watch.wire \in Seq(Transmission)
      /\ \A k \in 1..len : watch.wire[k].frame \in FrameUnderWay
      /\ f = [net.carried[1] EXCEPT !.at = 0]
  <2>1. watch.wire # <<>> /\ f = [net.carried[1] EXCEPT !.at = 0]
    BY <1>1 DEF BusInv, WireInOrder
  <2>2. watch.wire \in Seq(Transmission)
    BY <1>0, Typed DEF Watched
  <2>3. len \in Nat \ {0} /\ \A k \in 1..len : watch.wire[k] \in Transmission
    BY <2>1, <2>2, EmptySeq, LenProperties, ElementOfSeq
  <2> QED BY <2>1, <2>2, <2>3 DEF Transmission
<1>3. OnWire = <<f>>
  <2>1. DOMAIN net.carried = {1}
    BY <1>1
  <2>2. OnWire = [i \in {1} |-> f]
    BY <1>2, <2>1 DEF OnWire
  <2> HIDE DEF f
  <2> QED BY <2>2
<1>4. OnWire' = <<>>
  BY DEF OnWire
<1>5. f \in FrameUnderWay
  BY <1>2
<1> DEFINE frame(i) == watch.wire[i].frame
<1>6. Gone = [i \in 1..(len - 1) |-> frame(i)] /\ Gone' = [i \in 1..len |-> frame(i)]
  <2>1. Len(net'.carried) = 0
    BY EmptySeq
  <2>2. len - Len(net.carried) = len - 1 /\ Len(watch'.wire) - Len(net'.carried) = len
    BY <1>1, <1>2, <2>1
  <2> QED BY <2>2 DEF Gone
<1> HIDE DEF len, f
<1>7. \A i \in 1..len : frame(i) \in FrameUnderWay
  BY <1>2
<1>8. f = frame(len)
  BY DEF f
<1> HIDE DEF frame
<1>9. Gone' = Gone \o <<f>>
  <2>1. Gone \in Seq(FrameUnderWay) /\ Len(Gone) = len - 1 /\ \A i \in 1..(len - 1) : Gone[i] = frame(i)
    BY <1>2, <1>6, <1>7
  <2>2. Gone' \in Seq(FrameUnderWay) /\ Len(Gone') = len /\ \A i \in 1..len : Gone'[i] = frame(i)
    BY <1>2, <1>6, <1>7
  <2>3. Append(Gone, f) \in Seq(FrameUnderWay) /\ Len(Append(Gone, f)) = len
        /\ Append(Gone, f)[len] = f /\ \A i \in 1..(len - 1) : Append(Gone, f)[i] = frame(i)
    BY <1>2, <1>5, <2>1, AppendProperties
  <2>4. \A i \in 1..len : i = len \/ i \in 1..(len - 1)
    BY <1>2
  <2>5. Gone' = Append(Gone, f)
    BY <1>8, <2>2, <2>3, <2>4, SeqEqual
  <2> QED BY <1>5, <2>1, <2>5, AppendIsConcat
<1>10. Queues' = Queues
  BY DEF Queues
<1>11. OnWire # <<>> /\ Gone' = Gone \o OnWire
  BY <1>3, <1>9
<1>12. Medium!Land
  BY <1>4, <1>10, <1>11 DEF Medium!Land, Queues, OnWire, Gone
<1> QED BY <1>12 DEF Medium!Next


LEMMA CompleteStep ==
  ASSUME BusInv, NEW t \in Nat, Complete(t), watch' = watch
  PROVE  Medium!Next
<1>0. BusTypeOK
  BY DEF BusInv
<1>1. net \in MediumMembers
  BY <1>0, Typed
<1>2. net'.carried = <<>>
  BY <1>1 DEF Complete, MediumMembers
<1>3. net.carried[1] \in FrameUnderWay
  <2>1. net.carried \in Seq(FrameUnderWay) /\ net.carried # <<>>
    BY <1>1 DEF MediumMembers, Complete, CompleteTransmission, InFlight
  <2>2. Len(net.carried) \in Nat \ {0}
    BY <2>1, EmptySeq
  <2>3. 1 \in 1..Len(net.carried)
    BY <2>2
  <2> QED BY <2>1, <2>3, ElementOfSeq
<1>4. \A n \in Nodes : bus'[n].outbox = bus[n].outbox
  BY <1>0, <1>3, CompleteEffect DEF Complete, Delivers
<1> QED BY <1>2, <1>4, CompleteLands

LEMMA OutboxUntouched ==
  ASSUME BusTypeOK, NEW n \in Nodes, NEW p, bus' = [bus EXCEPT ![n] = p], p.outbox = bus[n].outbox
  PROVE  \A m \in Nodes : bus'[m].outbox = bus[m].outbox
BY Typed

LEMMA ReadingKeepsOutboxes ==
  ASSUME BusTypeOK, bus' = bus \/ \E n \in Nodes : bus' = Popped(n)
  PROVE  \A m \in Nodes : bus'[m].outbox = bus[m].outbox
<1>1. ASSUME NEW n \in Nodes, bus' = Popped(n) PROVE \A m \in Nodes : bus'[m].outbox = bus[m].outbox
  BY <1>1, Typed DEF Popped, Participant
<1> QED BY <1>1

LEMMA MediumStep ==
  ASSUME BusInv, [Next]_vars
  PROVE  Medium!Next \/ UNCHANGED Medium!vars
<1>0. BusTypeOK /\ net \in MediumMembers /\ watch \in Watched /\ bus \in [Nodes -> Participant]
  BY Typed DEF BusInv
<1>1. ASSUME NEW n \in Nodes, Join(n) PROVE UNCHANGED Medium!vars
  <2>1. bus[n].outbox = <<>> /\ bus' = [bus EXCEPT ![n] = FreshBus] /\ FreshBus.outbox = <<>>
    BY <1>0, <1>1 DEF Join, Attach, BusTypeOK, FreshBus
  <2>2. \A m \in Nodes : bus'[m].outbox = bus[m].outbox
    BY <1>0, <2>1, OutboxUntouched
  <2>3. net'.carried = net.carried /\ watch'.wire = watch.wire
    BY <1>0, <1>1 DEF Join, Attach, MediumMembers, Watched
  <2> QED BY <2>2, <2>3, SameMedium
<1>2. ASSUME NEW n \in Nodes, Leaves(n) PROVE Medium!Next
  <2>1. bus'[n].outbox = <<>> /\ \A m \in Nodes : m # n => bus'[m].outbox = bus[m].outbox
    BY <1>0, <1>2 DEF Leaves, Destroy, FreshBus
  <2>2. net'.carried = net.carried /\ watch'.wire = watch.wire
    BY <1>0, <1>2 DEF Leaves, Destroy, MediumMembers, Watched
  <2> QED BY <2>1, <2>2, EmptiedQueue
<1>3. ASSUME NEW n \in Nodes, Opens(n) PROVE UNCHANGED Medium!vars
  <2>1. \A m \in Nodes : bus'[m].outbox = bus[m].outbox
    BY <1>0, <1>3 DEF Opens, Open, Participant
  <2> QED BY <1>3, <2>1, SameMedium DEF Opens, Open, Unwatched
<1>4. ASSUME NEW n \in Nodes, Closes(n) PROVE Medium!Next
  <2> DEFINE p == [bus[n] EXCEPT !.open = FALSE, !.outbox = <<>>, !.inbox = <<>>]
  <2>1. bus' = [bus EXCEPT ![n] = p]
    BY <1>0, <1>4 DEF Closes, Close
  <2>2. p.outbox = <<>>
    BY <1>0 DEF Participant
  <2> HIDE DEF p
  <2>3. bus'[n].outbox = <<>> /\ \A m \in Nodes : m # n => bus'[m].outbox = bus[m].outbox
    BY <1>0, <2>1, <2>2
  <2>4. net' = net /\ watch'.wire = watch.wire
    BY <1>0, <1>4 DEF Closes, Close, Watched
  <2> QED BY <2>3, <2>4, EmptiedQueue
<1>5. ASSUME NEW n \in Nodes, Filters(n) PROVE UNCHANGED Medium!vars
  <2>1. PICK filters \in FilterSets : SetFilters(n, filters) /\ watch' = [watch EXCEPT !.changes = @ + 1]
    BY <1>5 DEF Filters
  <2>2. \A m \in Nodes : bus'[m].outbox = bus[m].outbox
    BY <1>0, <2>1 DEF SetFilters, Participant
  <2>3. net' = net /\ watch'.wire = watch.wire
    BY <1>0, <2>1 DEF SetFilters, Watched
  <2> QED BY <2>2, <2>3, SameMedium
<1>6. ASSUME NEW n \in Nodes, Offer(n) PROVE Medium!Next \/ UNCHANGED Medium!vars
  <2>0. PICK frame \in Traffic[n] :
          \E t : /\ Offered < MaxSends /\ Send(n, Tagged(frame, Offered + 1))
                 /\ watch' = [watch EXCEPT !.offered[n] = @ + 1, !.free = Append(@, t)]
    BY <1>6 DEF Offer
  <2>1. PICK t : /\ Offered < MaxSends /\ Send(n, Tagged(frame, Offered + 1))
                 /\ watch' = [watch EXCEPT !.offered[n] = @ + 1, !.free = Append(@, t)]
    BY <2>0
  <2> DEFINE f == Tagged(frame, Offered + 1)
  <2>2. f \in Untimed
    BY <1>0, Typed, <2>1, WatchBounds DEF WatchBounds, Untimed, Tagged
  <2>3. net' = net /\ watch'.wire = watch.wire
    BY <1>0, <2>1 DEF Send, Watched
  <2>4. bus' = [bus EXCEPT ![n].refused = @ + 1] \/ bus' = [bus EXCEPT ![n].outbox = Append(@, f)]
    BY <2>1 DEF Send
  <2> HIDE DEF f
  <2>5. CASE bus' = [bus EXCEPT ![n].refused = @ + 1]
    <3>1. \A m \in Nodes : bus'[m].outbox = bus[m].outbox
      BY <1>0, <2>5 DEF Participant
    <3> QED BY <2>3, <3>1, SameMedium
  <2>6. CASE bus' = [bus EXCEPT ![n].outbox = Append(@, f)]
    <3>1. bus'[n].outbox = Append(bus[n].outbox, f) /\ \A m \in Nodes : m # n => bus'[m].outbox = bus[m].outbox
      BY <1>0, <2>6 DEF Participant
    <3> QED BY <2>2, <2>3, <3>1, QueuedFrame
  <2> QED BY <2>4, <2>5, <2>6
<1>7. ASSUME NEW n \in Nodes, Takes(n) PROVE UNCHANGED Medium!vars
  <2>1. watch' = Taken /\ net' = net /\ (bus' = bus \/ bus' = Popped(n))
    BY <1>7 DEF Takes, Receive
  <2>2. watch'.wire = watch.wire
    BY <1>0, <2>1, TakenType
  <2>3. \A m \in Nodes : bus'[m].outbox = bus[m].outbox
    BY <1>0, <2>1, ReadingKeepsOutboxes
  <2> QED BY <2>1, <2>2, <2>3, SameMedium
<1>8. CASE Waits \/ Drains
  <2>1. net' = net /\ bus' = bus /\ watch' = watch
    BY <1>8 DEF Waits, Drains, Advance, Drain, Unwatched
  <2> QED BY <2>1, SameMedium
<1>9. CASE Runs
  <2>1. CASE StartTransmission /\ watch' = Started
    <3>1. PICK n \in Nodes, f \in FrameUnderWay, end \in Nat : Starts(n, f, end)
      BY <2>1, StartEffect
    <3> QED BY <3>1, StartWins
  <2>2. CASE \E t \in {net.now, net.until} : Complete(t) /\ watch' = watch
    <3>1. net.now \in Nat /\ net.until \in Nat
      BY <1>0, Typed
    <3> QED BY <2>2, <3>1, CompleteStep
  <2>3. CASE net' = [net EXCEPT !.now = net.until] /\ bus' = bus /\ watch' = watch
    <3>1. net'.carried = net.carried
      BY <1>0, <2>3 DEF MediumMembers
    <3> QED BY <2>3, <3>1, SameMedium
  <2>4. CASE AdvanceReturns /\ watch' = Taken
    <3>1. net'.carried = net.carried
      BY <1>0, <2>4 DEF MediumMembers, AdvanceReturns
    <3>2. watch'.wire = watch.wire
      BY <1>0, <2>4, TakenType
    <3>3. bus' = bus \/ \E n \in Nodes : bus' = Popped(n)
      BY <1>0, <2>4, CallFields DEF AdvanceReturns
    <3>4. \A m \in Nodes : bus'[m].outbox = bus[m].outbox
      BY <1>0, <3>3, ReadingKeepsOutboxes
    <3> QED BY <3>1, <3>2, <3>4, SameMedium
  <2>5. CASE DrainReturns /\ Unwatched
    BY <2>5, SameMedium DEF DrainReturns, Unwatched
  <2>6. CASE AdvanceTurn /\ watch' = IF InFlight THEN watch ELSE Started
    <3>1. \/ Complete(net.now) /\ InFlight
          \/ StartTransmission /\ ~InFlight
          \/ InFlight /\ net' = [net EXCEPT !.now = net.until] /\ bus' = bus
      BY <2>6 DEF AdvanceTurn, StartTransmission
    <3> QED BY <2>1, <2>2, <2>3, <2>6, <3>1
  <2>7. CASE DrainTurn /\ watch' = IF InFlight THEN watch ELSE Started
    <3>1. \/ Complete(net.until) /\ InFlight
          \/ StartTransmission /\ ~InFlight
      BY <2>7 DEF DrainTurn, StartTransmission, Complete, CompleteTransmission
    <3> QED BY <2>1, <2>2, <2>7, <3>1
  <2> QED BY <1>9, <2>4, <2>5, <2>6, <2>7 DEF Runs
<1>10. CASE UNCHANGED vars
  BY <1>10, SameMedium DEF vars
<1> QED BY <1>1, <1>2, <1>3, <1>4, <1>5, <1>6, <1>7, <1>8, <1>9, <1>10 DEF Next

(* Every behaviour of the bus is one of a medium that, whenever it is      *)
(* free, sends the frame of lowest rank among the heads of the queues,     *)
(* and lets nothing overtake or recall a frame that has started            *)
(* (VirtualMedium).                                                        *)
THEOREM ServesByPriority == Spec => ImplementsPriorityMedium
<1>1. Init => Medium!Init
  BY MediumInit
<1>2. BusInv /\ [Next]_vars => [Medium!Next]_(Medium!vars)
  BY MediumStep
<1> QED BY <1>1, <1>2, BusInvAlways, PTL DEF Spec, Medium!Spec, ImplementsPriorityMedium

-----------------------------------------------------------------------------
(* The replay of a recording.  ReplayInv is its invariant: the records lie *)
(* in order, what was heard comes one after the other as the filters ask,  *)
(* and between the last frame heard and the index nothing was let through. *)
(* It tells the first round, in which the clock has not passed the next    *)
(* due time, from the later ones, in which all is due at once.             *)

(* Induction, as a statement about sets of numbers.                        *)
LEMMA SetInduction ==
  ASSUME NEW T \in SUBSET Nat, 0 \in T, \A n \in T : n + 1 \in T
  PROVE  Nat \subseteq T
<1> DEFINE R == {ss \in Nat \X Nat : ss[1] < ss[2]}
<1>1. IsWellFoundedOn(R, Nat)
  BY NatLessThanWellFounded DEF OpToRel
<1>2. SUFFICES ASSUME Nat \ T # {} PROVE FALSE
  OBVIOUS
<1>3. \E x \in Nat \ T : \A y \in Nat \ T : ~(<<y, x>> \in R)
  <2> HIDE DEF R
  <2> QED BY <1>1, <1>2, WFMin
<1>4. PICK x \in Nat \ T : \A y \in Nat \ T : ~(<<y, x>> \in R)
  BY <1>3
<1>5. x # 0 /\ x - 1 \in Nat /\ <<x - 1, x>> \in R
  OBVIOUS
<1>6. x - 1 \in T
  BY <1>4, <1>5
<1> QED BY <1>6, <1>4

LEMMA LeastOfIndices ==
  ASSUME NEW N, NEW set \in SUBSET (1..N), set # {}
  PROVE  \E j \in set : \A k \in set : j <= k
<1> DEFINE R == {ss \in Nat \X Nat : ss[1] < ss[2]}
<1>1. IsWellFoundedOn(R, Nat)
  BY NatLessThanWellFounded DEF OpToRel
<1>2. set \subseteq Nat
  OBVIOUS
<1> HIDE DEF R
<1>3. PICK x \in set : \A y \in set : ~(<<y, x>> \in R)
  BY <1>1, <1>2, WFMin
<1>4. ASSUME NEW y \in set PROVE x <= y
  <2>1. x \in Nat /\ y \in Nat
    BY <1>2
  <2>2. y < x => <<y, x>> \in R
    BY <2>1 DEF R
  <2> QED BY <1>3, <2>1, <2>2
<1> QED BY <1>3, <1>4

-----------------------------------------------------------------------------
(* The records lie in order of time, and those of one time as recorded.    *)
RecordsInOrder(records) ==
  /\ Len(records) \in Nat /\ records = [i \in 1..Len(records) |-> records[i]]
  /\ \A i \in DOMAIN records : records[i].at \in Nat /\ records[i].nr \in Nat
  /\ \A i, j \in DOMAIN records : i < j =>
       /\ records[i].nr # records[j].nr
       /\ \/ records[i].at < records[j].at
          \/ records[i].at = records[j].at /\ records[i].nr < records[j].nr

Refused(r, from, to) == \A i \in from..to : ~AcceptedBy(r.filters, r.records[i].id)
Broken(r, frames) == \E j \in 1..Len(frames) : ~(LookedFrom(r, frames, j) <= PlaceOf(r.records, frames[j]))

(* Before the first return to the start: everything between the offset and *)
(* the index was heard or refused.                                         *)
FirstRoundInv(r, p, h) ==
  LET L == Len(r.records)
      F == FirstIndex(r.records, r.options.offset)
      g == LookedFrom(r, h.frames, Len(h.frames) + 1)
  IN  /\ F <= r.index
      /\ r.index <= L => r.now <= Later(DueAt(r, r.index), r.options.offset)
      /\ r.index > L /\ F <= L => r.now >= DueAt(r, L)
      /\ h.steady => ~Broken(r, h.frames) /\ g <= r.index /\ Refused(r, g, r.index - 1)

(* After it: all is due but where the offset skipped it all, so the clock  *)
(* stands since the first frame of a later round; and the search since the *)
(* last frame heard is in its round, a later one, or has passed the end.   *)
LaterRoundInv(r, p, h) ==
  LET L == Len(r.records)
      F == FirstIndex(r.records, r.options.offset)
      g == LookedFrom(r, h.frames, Len(h.frames) + 1)
  IN  /\ L > 0 /\ r.options.loop
      /\ F <= L => r.now >= DueAt(r, L)
      /\ F <= L /\ h.steady /\ Broken(r, h.frames) => h.frames[Len(h.frames)].at = r.now
      /\ h.frames = <<>> /\ ~p.busy => F > L /\ r.index <= L
      /\ h.steady => \/ Broken(r, h.frames) /\ g <= r.index /\ Refused(r, g, r.index - 1)
                     \/ Refused(r, g, L) /\ Refused(r, 1, r.index - 1)

Shaped(r, p, h) ==
  /\ r = [records |-> r.records, options |-> r.options, open |-> r.open, filters |-> r.filters,
          index |-> r.index, now |-> r.now, stats |-> r.stats]
  /\ r.stats = [received |-> r.stats.received, first |-> r.stats.first, last |-> r.stats.last]
  /\ p = [busy |-> p.busy, deadline |-> p.deadline]
  /\ h = [frames |-> h.frames, steady |-> h.steady, pulls |-> h.pulls, others |-> h.others]

ReplayTyped(r, p, h) ==
  /\ Shaped(r, p, h)
  /\ RecordsInOrder(r.records)
  /\ r.options.per \in Nat \ {0} /\ r.options.ticks \in Nat \ {0}
  /\ r.options.offset \in Nat /\ r.options.loop \in BOOLEAN
  /\ r.index \in 1..(Len(r.records) + 1) /\ r.now \in Nat /\ r.options.offset <= r.now
  /\ r.stats.received \in Nat
  /\ p.busy \in BOOLEAN /\ p.deadline \in Nat /\ (p.busy => r.now <= p.deadline)
  /\ h.steady \in BOOLEAN
  /\ Len(h.frames) \in Nat /\ h.frames \in Seq([nr : Nat, at : Nat])
  /\ \A k \in 1..Len(h.frames) :
       /\ h.frames[k].at <= r.now
       /\ \E i \in DOMAIN r.records : r.records[i].nr = h.frames[k].nr

(* A frame of a later round comes when all is due, and at the time of the  *)
(* frame before it if that is of a later round too.                        *)
AtOnce(r, frames, k) ==
  /\ frames[k].at >= DueAt(r, Len(r.records))
  /\ k > 1 /\ ~InFirstRound(r, frames, k - 1) => frames[k].at = frames[k - 1].at

Paced(r, p, h) ==
  /\ \A i, j \in 1..Len(h.frames) : i < j => h.frames[i].at <= h.frames[j].at
  /\ h.steady => \A k \in 1..Len(h.frames) : InFirstRound(r, h.frames, k) =>
       h.frames[k].at = Later(DueAt(r, PlaceOf(r.records, h.frames[k])), r.options.offset)
  /\ h.steady /\ FirstIndex(r.records, r.options.offset) <= Len(r.records) =>
       \A k \in 1..Len(h.frames) : ~InFirstRound(r, h.frames, k) => AtOnce(r, h.frames, k)
Chained(r, p, h) ==
  h.steady => \A k \in 1..Len(h.frames) :
    ComesNext(r, LookedFrom(r, h.frames, k), PlaceOf(r.records, h.frames[k]))
Tallied(r, p, h) ==
  LET n == r.stats.received
      frames == h.frames
  IN  n \in 1..Len(frames) => /\ r.stats.first = frames[Len(frames) - n + 1].at
                              /\ r.stats.last = frames[Len(frames)].at

ReplayInvOf(r, p, h) ==
  /\ ReplayTyped(r, p, h) /\ Paced(r, p, h) /\ Chained(r, p, h) /\ Tallied(r, p, h)
  /\ FirstRoundInv(r, p, h) \/ LaterRoundInv(r, p, h)
ReplayInv == ReplayInvOf(replay, pull, heard)

-----------------------------------------------------------------------------
(* Sorting: there is an order, and so InOrderOfTime() is in it.            *)
Before(records, i, j) ==
  \/ records[i].at < records[j].at
  \/ records[i].at = records[j].at /\ i < j

LEMMA OrderExists ==
  ASSUME NEW records, Len(records) \in Nat, \A k \in 1..Len(records) : records[k].at \in Nat
  PROVE  \E f \in [1..Len(records) -> 1..Len(records)] :
           \A i, j \in 1..Len(records) : i < j => Before(records, f[i], f[j])
<1> DEFINE L == Len(records)
           Ordered(f, n) == /\ f \in [1..n -> 1..n]
                            /\ \A i, j \in 1..n : i < j => Before(records, f[i], f[j])
           T == {n \in Nat : n <= L => \E f : Ordered(f, n)}
<1>1. L \in Nat
  OBVIOUS
<1> HIDE DEF Ordered
<1>2. 0 \in T
  <2>1. Ordered([k \in 1..0 |-> k], 0)
    BY DEF Ordered
  <2> QED BY <2>1
<1>3. ASSUME NEW n \in T PROVE n + 1 \in T
  <2> SUFFICES ASSUME n + 1 <= L PROVE \E f : Ordered(f, n + 1)
    OBVIOUS
  <2>1. n \in Nat /\ n <= L /\ n + 1 \in 1..L
    BY <1>1
  <2>2. PICK f : Ordered(f, n)
    BY <2>1
  <2> DEFINE t == records[n + 1].at
             after == {k \in 1..n : records[f[k]].at > t}
  <2>3. f \in [1..n -> 1..n] /\ (\A i, j \in 1..n : i < j => Before(records, f[i], f[j]))
    BY <2>2 DEF Ordered
  <2> HIDE DEF T, L
  <2>4. t \in Nat /\ (\A k \in 1..n : f[k] \in 1..n /\ records[f[k]].at \in Nat)
    <3>1. \A k \in 1..L : records[k].at \in Nat
      BY DEF L
    <3>2. \A k \in 1..n : f[k] \in 1..n
      BY <2>3
    <3>3. 1..n \subseteq 1..L
      BY <1>1, <2>1
    <3> QED BY <2>1, <3>1, <3>2, <3>3
  <2> HIDE DEF t
  (* Where it goes: behind all that are not later. *)
  <2>5. \E q \in 1..(n + 1) : \A k \in 1..n : /\ k < q => records[f[k]].at <= t
                                              /\ k >= q => records[f[k]].at > t
    <3>1. CASE after = {}
      <4>1. ASSUME NEW k \in 1..n PROVE k < n + 1 /\ ~(k >= n + 1) /\ records[f[k]].at <= t
        <5>1. ~(records[f[k]].at > t)
          BY <3>1
        <5>2. k \in Nat /\ k <= n
          BY <2>1
        <5> HIDE DEF after
        <5> QED BY <2>1, <2>4, <5>1, <5>2
      <4>2. n + 1 \in 1..(n + 1)
        BY <2>1
      <4> QED BY <4>1, <4>2
    <3>2. CASE after # {}
      <4>1. PICK q \in after : \A k \in after : q <= k
        BY <3>2, LeastOfIndices
      <4>2. q \in 1..n /\ records[f[q]].at > t
        BY <4>1
      <4>3. ASSUME NEW k \in 1..n, k < q PROVE records[f[k]].at <= t
        <5>1. k \notin after
          BY <2>1, <4>1, <4>2, <4>3
        <5> QED BY <2>4, <5>1
      <4>4. ASSUME NEW k \in 1..n, k >= q PROVE records[f[k]].at > t
        <5>1. CASE k = q
          BY <4>2, <5>1
        <5>2. CASE k # q
          <6>1. Before(records, f[q], f[k])
            BY <2>3, <4>2, <4>4, <5>2
          <6> QED BY <2>4, <4>2, <6>1 DEF Before
        <5> QED BY <5>1, <5>2
      <4>5. q \in 1..(n + 1)
        BY <2>1, <4>2
      <4> HIDE DEF after
      <4> QED BY <4>3, <4>4, <4>5
    <3> QED BY <3>1, <3>2
  <2>6. PICK q \in 1..(n + 1) : \A k \in 1..n : /\ k < q => records[f[k]].at <= t
                                                /\ k >= q => records[f[k]].at > t
    BY <2>5
  <2> DEFINE g == [k \in 1..(n + 1) |-> IF k < q THEN f[k] ELSE IF k = q THEN n + 1 ELSE f[k - 1]]
  <2>7. ASSUME NEW k \in 1..(n + 1)
        PROVE  /\ k < q => g[k] = f[k] /\ k \in 1..n
               /\ k = q => g[k] = n + 1
               /\ k > q => g[k] = f[k - 1] /\ k - 1 \in 1..n /\ k - 1 >= q
    BY <2>1
  <2>8. g \in [1..(n + 1) -> 1..(n + 1)]
    <3>1. \A k \in 1..(n + 1) : g[k] \in 1..(n + 1)
      <4> SUFFICES ASSUME NEW k \in 1..(n + 1) PROVE g[k] \in 1..(n + 1)
        OBVIOUS
      <4> HIDE DEF g
      <4>1. k < q \/ k = q \/ k > q
        BY <2>1
      <4>2. 1..n \subseteq 1..(n + 1) /\ n + 1 \in 1..(n + 1)
        BY <2>1
      <4>3. k < q => g[k] \in 1..n
        BY <2>4, <2>7
      <4>4. k > q => g[k] \in 1..n
        BY <2>4, <2>7
      <4> QED BY <2>7, <4>1, <4>2, <4>3, <4>4
    <3> QED BY <3>1
  <2> HIDE DEF g, after
  <2>9. ASSUME NEW i \in 1..(n + 1), NEW j \in 1..(n + 1), i < j
        PROVE  Before(records, g[i], g[j])
    <3>1. CASE j < q
      <4>1. i \in 1..n /\ j \in 1..n /\ i < q
        BY <2>1, <2>9, <3>1
      <4> QED BY <2>3, <2>7, <2>9, <3>1, <4>1
    <3>2. CASE j = q
      <4>1. i < q /\ i \in 1..n
        BY <2>1, <2>9, <3>2
      <4>2. g[i] = f[i] /\ g[j] = n + 1
        BY <2>7, <3>2, <4>1
      <4>3. records[f[i]].at <= t /\ f[i] \in 1..n
        BY <2>4, <2>6, <4>1
      <4>4. f[i] < n + 1
        BY <2>1, <4>3
      <4> QED BY <2>4, <4>1, <4>2, <4>3, <4>4 DEF Before, t
    <3>3. CASE j > q /\ i < q
      <4>1. i \in 1..n /\ j - 1 \in 1..n /\ i < j - 1
        BY <2>1, <2>9, <3>3
      <4> QED BY <2>3, <2>7, <3>3, <4>1
    <3>4. CASE j > q /\ i = q
      <4>1. j - 1 \in 1..n /\ j - 1 >= q /\ g[j] = f[j - 1] /\ g[i] = n + 1
        BY <2>1, <2>7, <3>4
      <4>2. records[f[j - 1]].at > t
        BY <2>6, <4>1
      <4> QED BY <2>4, <4>1, <4>2 DEF Before, t
    <3>5. CASE j > q /\ i > q
      <4>1. i - 1 \in 1..n /\ j - 1 \in 1..n /\ i - 1 < j - 1
        BY <2>1, <2>9, <3>5
      <4> QED BY <2>3, <2>7, <3>5, <4>1
    <3>6. q \in Nat /\ i \in Nat /\ j \in Nat
      BY <2>1
    <3> QED BY <3>1, <3>2, <3>3, <3>4, <3>5, <3>6
  <2>10. Ordered(g, n + 1)
    BY <2>8, <2>9 DEF Ordered
  <2> QED BY <2>10
<1>4. Nat \subseteq T
  <2>1. T \subseteq Nat
    OBVIOUS
  <2> HIDE DEF T
  <2> QED BY <1>2, <1>3, <2>1, SetInduction
<1>5. \E f : Ordered(f, L)
  BY <1>1, <1>4
<1> QED BY <1>5 DEF Ordered

LEMMA RecordsAreInOrder ==
  ASSUME NEW records \in Recordings
  PROVE  RecordsInOrder(InOrderOfTime(records))
<1> DEFINE L == Len(records)
           Sorts(f) == \A i, j \in 1..L : i < j => Before(records, f[i], f[j])
           order == CHOOSE f \in [1..L -> 1..L] : Sorts(f)
           sorted == [k \in 1..L |-> records[order[k]]]
<1>1. /\ L \in Nat /\ DOMAIN records = 1..L
      /\ \A k \in 1..L : records[k].nr = k /\ records[k].at \in Nat
  <2>1. DOMAIN records = 1..Len(records)
        /\ \A k \in DOMAIN records : records[k].nr = k /\ records[k].at \in Nat
    BY ReplayBounds DEF ReplayBounds
  <2> QED BY <2>1
<1>2. \E f \in [1..L -> 1..L] : Sorts(f)
  BY <1>1, OrderExists
<1>3. order \in [1..L -> 1..L] /\ Sorts(order)
  <2> HIDE DEF Sorts
  <2> QED BY <1>2
<1>4. InOrderOfTime(records) = sorted
  BY <1>1 DEF InOrderOfTime, Before
<1> HIDE DEF order
<1>5. \A k \in 1..L : sorted[k] = records[order[k]] /\ order[k] \in 1..L
  BY <1>3
<1>6. Len(sorted) = L /\ DOMAIN sorted = 1..L
  BY <1>1
<1>9. sorted = [i \in 1..Len(sorted) |-> sorted[i]]
  BY <1>6
<1> HIDE DEF sorted
<1>7. ASSUME NEW i \in 1..L, NEW j \in 1..L, i < j
      PROVE  /\ sorted[i].nr # sorted[j].nr
             /\ \/ sorted[i].at < sorted[j].at
                \/ sorted[i].at = sorted[j].at /\ sorted[i].nr < sorted[j].nr
  <2>1. Before(records, order[i], order[j])
    BY <1>3, <1>7
  <2>2. sorted[i].nr = order[i] /\ sorted[j].nr = order[j]
        /\ sorted[i].at = records[order[i]].at /\ sorted[j].at = records[order[j]].at
        /\ records[order[i]].at \in Nat /\ records[order[j]].at \in Nat
        /\ order[i] \in Nat /\ order[j] \in Nat
    BY <1>1, <1>5
  <2> QED BY <2>1, <2>2 DEF Before
<1>8. \A i \in 1..L : sorted[i].at \in Nat /\ sorted[i].nr \in Nat
  BY <1>1, <1>5
<1> QED BY <1>1, <1>4, <1>6, <1>7, <1>8, <1>9 DEF RecordsInOrder

-----------------------------------------------------------------------------
(* Due times grow along the replay.                                        *)
LEMMA ScaledGrows ==
  ASSUME NEW x \in Nat, NEW y \in Nat, x <= y, NEW t \in Nat \ {0}, NEW p \in Nat \ {0}
  PROVE  (x * t) \div p \in Nat /\ (y * t) \div p \in Nat /\ (x * t) \div p <= (y * t) \div p
<1> DEFINE a == x * t
           b == y * t
<1>1. a \in Nat /\ b \in Nat /\ a <= b
  OBVIOUS
<1> SUFFICES a \div p \in Nat /\ b \div p \in Nat /\ a \div p <= b \div p
  OBVIOUS
<1> HIDE DEF a, b
<1> QED BY <1>1

LEMMA TimesGrow ==
  ASSUME NEW records, RecordsInOrder(records)
  PROVE  \A k, n \in 1..Len(records) : k <= n =>
           records[k].at \in Nat /\ records[n].at \in Nat /\ records[k].at <= records[n].at
<1> SUFFICES ASSUME NEW k \in 1..Len(records), NEW n \in 1..Len(records), k <= n
             PROVE  records[k].at \in Nat /\ records[n].at \in Nat
                    /\ records[k].at <= records[n].at
  OBVIOUS
<1>1. records[k].at \in Nat /\ records[n].at \in Nat /\ Len(records) \in Nat
  BY DEF RecordsInOrder
<1>2. CASE k = n
  BY <1>1, <1>2
<1>3. CASE k < n
  BY <1>1, <1>3 DEF RecordsInOrder
<1> QED BY <1>1, <1>2, <1>3

LEMMA DueGrows ==
  ASSUME NEW r, RecordsInOrder(r.records), r.options.per \in Nat \ {0}, r.options.ticks \in Nat \ {0},
         NEW i \in 1..Len(r.records), NEW j \in 1..Len(r.records), i <= j
  PROVE  DueAt(r, i) \in Nat /\ DueAt(r, j) \in Nat /\ DueAt(r, i) <= DueAt(r, j)
<1> DEFINE x == r.records[i].at - r.records[1].at
           y == r.records[j].at - r.records[1].at
<1>0. 1 \in 1..Len(r.records) /\ Len(r.records) \in Nat
  BY DEF RecordsInOrder
<1>1. \A k, n \in 1..Len(r.records) : k <= n =>
        r.records[k].at \in Nat /\ r.records[n].at \in Nat /\ r.records[k].at <= r.records[n].at
  BY TimesGrow
<1>2. x \in Nat /\ y \in Nat /\ x <= y
  <2>1. 1 <= i /\ 1 <= j
    OBVIOUS
  <2> QED BY <1>0, <1>1, <2>1
<1> HIDE DEF x, y
<1>3. (x * r.options.ticks) \div r.options.per \in Nat
      /\ (y * r.options.ticks) \div r.options.per \in Nat
      /\ (x * r.options.ticks) \div r.options.per <= (y * r.options.ticks) \div r.options.per
  BY <1>2, ScaledGrows
<1> QED BY <1>3 DEF DueAt, x, y

LEMMA FirstIndexIs ==
  ASSUME NEW records, RecordsInOrder(records), NEW offset \in Nat
  PROVE  FirstIndex(records, offset) \in 1..(Len(records) + 1)
<1> DEFINE L == Len(records)
           Is(i) == /\ \A k \in 1..(i - 1) : records[k].at - records[1].at < offset
                    /\ i <= L => records[i].at - records[1].at >= offset
           due == {i \in 1..L : records[i].at - records[1].at >= offset}
<1>1. L \in Nat /\ \A k \in 1..L : records[k].at \in Nat /\ 1 \in 1..L
  BY DEF RecordsInOrder
<1>2. \E i \in 1..(L + 1) : Is(i)
  <2>1. CASE due = {}
    <3>1. Is(L + 1)
      <4>1. ASSUME NEW k \in 1..L PROVE records[k].at - records[1].at < offset
        <5>1. ~(records[k].at - records[1].at >= offset)
          BY <2>1
        <5> QED BY <1>1, <5>1
      <4>2. (L + 1) - 1 = L /\ ~(L + 1 <= L)
        BY <1>1
      <4> QED BY <4>1, <4>2
    <3> QED BY <1>1, <3>1
  <2>2. CASE due # {}
    <3>1. PICK i \in due : \A k \in due : i <= k
      BY <2>2, LeastOfIndices
    <3>2. ASSUME NEW k \in 1..(i - 1) PROVE records[k].at - records[1].at < offset
      <4>1. i \in 1..L
        BY <3>1
      <4>2. k \in 1..L /\ ~(i <= k)
        BY <1>1, <4>1
      <4>3. k \notin due
        BY <3>1, <4>2
      <4> QED BY <1>1, <4>2, <4>3
    <3>3. Is(i) /\ i \in 1..(L + 1)
      BY <1>1, <3>1, <3>2
    <3> QED BY <3>3
  <2> QED BY <2>1, <2>2
<1>3. FirstIndex(records, offset) = CHOOSE i \in 1..(L + 1) : Is(i)
  BY DEF FirstIndex
<1> HIDE DEF Is, L
<1> QED BY <1>2, <1>3 DEF L

LEMMA PlaceIs ==
  ASSUME NEW records, RecordsInOrder(records), NEW f,
         NEW i \in DOMAIN records, records[i].nr = f.nr
  PROVE  PlaceOf(records, f) = i
<1>1. \A j \in DOMAIN records : records[j].nr = f.nr => j = i
  <2> SUFFICES ASSUME NEW j \in DOMAIN records, records[j].nr = f.nr, j # i PROVE FALSE
    OBVIOUS
  <2>1. i \in Nat /\ j \in Nat
    BY DEF RecordsInOrder
  <2>2. i < j \/ j < i
    BY <2>1
  <2> QED BY <2>2 DEF RecordsInOrder
<1> QED BY <1>1 DEF PlaceOf

-----------------------------------------------------------------------------
(* What depends on the recording alone, and what on the filters too.       *)
LEMMA SameRecording ==
  ASSUME NEW r, NEW q, q.records = r.records, q.options = r.options
  PROVE  /\ \A k : DueAt(q, k) = DueAt(r, k)
         /\ \A frames, k : LookedFrom(q, frames, k) = LookedFrom(r, frames, k)
         /\ \A frames, k : InFirstRound(q, frames, k) <=> InFirstRound(r, frames, k)
         /\ \A frames : Broken(q, frames) <=> Broken(r, frames)
         /\ \A frames, k : AtOnce(q, frames, k) <=> AtOnce(r, frames, k)
<1>1. \A k : DueAt(q, k) = DueAt(r, k)
  BY DEF DueAt
<1>2. \A frames, k : LookedFrom(q, frames, k) = LookedFrom(r, frames, k)
  BY DEF LookedFrom
<1>3. ASSUME NEW frames, NEW k PROVE InFirstRound(q, frames, k) <=> InFirstRound(r, frames, k)
  BY <1>2 DEF InFirstRound
<1>4. ASSUME NEW frames PROVE Broken(q, frames) <=> Broken(r, frames)
  BY <1>2 DEF Broken
<1>5. \A frames, k : AtOnce(q, frames, k) <=> AtOnce(r, frames, k)
  BY <1>1, <1>3 DEF AtOnce
<1> QED BY <1>1, <1>2, <1>3, <1>4, <1>5

LEMMA SameFilters ==
  ASSUME NEW r, NEW q, q.records = r.records, q.options = r.options, q.filters = r.filters
  PROVE  /\ \A from, to : Refused(q, from, to) <=> Refused(r, from, to)
         /\ \A k, i : ComesNext(q, k, i) <=> ComesNext(r, k, i)
<1>1. \A k : AcceptedFrom(q, k) = AcceptedFrom(r, k)
  BY DEF AcceptedFrom
<1>2. \A k, i : ComesNext(q, k, i) <=> ComesNext(r, k, i)
  BY <1>1 DEF ComesNext
<1> QED BY <1>2 DEF Refused

(* Every frame heard has its place, and so has the search for the next.    *)
LEMMA LookedFromIs ==
  ASSUME NEW r, NEW p, NEW h, ReplayTyped(r, p, h)
  PROVE  /\ \A k \in 1..Len(h.frames) : PlaceOf(r.records, h.frames[k]) \in 1..Len(r.records)
         /\ \A k \in 1..(Len(h.frames) + 1) : LookedFrom(r, h.frames, k) \in 1..(Len(r.records) + 1)
<1>1. /\ RecordsInOrder(r.records) /\ r.options.offset \in Nat
      /\ Len(h.frames) \in Nat /\ Len(r.records) \in Nat /\ DOMAIN r.records = 1..Len(r.records)
  BY DEF ReplayTyped, RecordsInOrder
<1>2. ASSUME NEW k \in 1..Len(h.frames)
      PROVE  PlaceOf(r.records, h.frames[k]) \in 1..Len(r.records)
  <2>1. PICK i \in DOMAIN r.records : r.records[i].nr = h.frames[k].nr
    BY DEF ReplayTyped
  <2> QED BY <1>1, <2>1, PlaceIs
<1>3. ASSUME NEW k \in 1..(Len(h.frames) + 1)
      PROVE  LookedFrom(r, h.frames, k) \in 1..(Len(r.records) + 1)
  <2>1. CASE k = 1
    BY <1>1, <2>1, FirstIndexIs DEF LookedFrom
  <2>2. CASE k # 1
    <3>1. k - 1 \in 1..Len(h.frames)
      BY <1>1, <2>2
    <3>2. PlaceOf(r.records, h.frames[k - 1]) \in 1..Len(r.records)
      BY <1>2, <3>1
    <3> QED BY <1>1, <2>2, <3>2 DEF LookedFrom
  <2> QED BY <2>1, <2>2
<1> QED BY <1>2, <1>3

(* A step in which nothing is heard and no filter changes.                 *)
LEMMA NothingHeard ==
  ASSUME NEW r, NEW p, NEW h, NEW q, NEW b, NEW g,
         ReplayInvOf(r, p, h),
         q.records = r.records, q.options = r.options, q.filters = r.filters,
         q.stats = r.stats \/ q.stats.received = 0,
         g.frames = h.frames, g.steady = h.steady
  PROVE  Paced(q, b, g) /\ Chained(q, b, g) /\ Tallied(q, b, g)
<1>1. Paced(q, b, g)
  BY SameRecording DEF ReplayInvOf, Paced
<1>2. Chained(q, b, g)
  BY SameRecording, SameFilters DEF ReplayInvOf, Chained
<1>3. Tallied(q, b, g)
  BY DEF ReplayInvOf, Tallied
<1> QED BY <1>1, <1>2, <1>3

(* Opening and closing, a reset of the statistics, a call to receive().    *)
LEMMA RoundStays ==
  ASSUME NEW r, NEW p, NEW h, NEW q, NEW b, NEW g,
         FirstRoundInv(r, p, h) \/ LaterRoundInv(r, p, h),
         q.records = r.records, q.options = r.options, q.filters = r.filters,
         q.index = r.index, q.now = r.now, p.busy => b.busy,
         g.frames = h.frames, g.steady = h.steady
  PROVE  FirstRoundInv(q, b, g) \/ LaterRoundInv(q, b, g)
<1>1. CASE FirstRoundInv(r, p, h)
  <2>1. FirstRoundInv(q, b, g)
    BY <1>1, SameRecording, SameFilters DEF FirstRoundInv
  <2> QED BY <2>1
<1>2. CASE LaterRoundInv(r, p, h)
  <2>1. LaterRoundInv(q, b, g)
    BY <1>2, SameRecording, SameFilters DEF LaterRoundInv
  <2> QED BY <2>1
<1> QED BY <1>1, <1>2

(* The filters change: all that was heard before was heard with others,    *)
(* but where nothing was and the replay is at its start.                   *)
LEMMA FilterStep ==
  ASSUME NEW r, NEW p, NEW h, NEW q, NEW g,
         ReplayInvOf(r, p, h), ~p.busy,
         q.records = r.records, q.options = r.options, q.stats = r.stats,
         q.index = r.index, q.now = r.now,
         g.frames = h.frames, g.steady \in BOOLEAN,
         g.steady => h.steady /\ h.frames = <<>>
                     /\ r.index = FirstIndex(r.records, r.options.offset)
  PROVE  /\ Paced(q, p, g) /\ Chained(q, p, g) /\ Tallied(q, p, g)
         /\ FirstRoundInv(q, p, g) \/ LaterRoundInv(q, p, g)
<1>1. Paced(q, p, g)
  BY SameRecording DEF ReplayInvOf, Paced
<1>2. Chained(q, p, g)
  BY DEF Chained
<1>3. Tallied(q, p, g)
  BY DEF ReplayInvOf, Tallied
<1>4. CASE FirstRoundInv(r, p, h)
  <2>1. g.steady => /\ ~Broken(q, g.frames)
                    /\ LookedFrom(q, g.frames, Len(g.frames) + 1) <= q.index
                    /\ Refused(q, LookedFrom(q, g.frames, Len(g.frames) + 1), q.index - 1)
    <3> SUFFICES ASSUME g.steady
                 PROVE  /\ ~Broken(q, g.frames)
                        /\ LookedFrom(q, g.frames, Len(g.frames) + 1) <= q.index
                        /\ Refused(q, LookedFrom(q, g.frames, Len(g.frames) + 1), q.index - 1)
      OBVIOUS
    <3>1. g.frames = <<>> /\ Len(g.frames) = 0
      OBVIOUS
    <3>2. q.index \in Nat
      BY DEF ReplayInvOf, ReplayTyped, RecordsInOrder
    <3>3. LookedFrom(q, g.frames, Len(g.frames) + 1) = q.index
      BY <3>1 DEF LookedFrom
    <3>4. Refused(q, q.index, q.index - 1)
      BY <3>2 DEF Refused
    <3>5. ~Broken(q, g.frames)
      BY <3>1 DEF Broken
    <3> QED BY <3>2, <3>3, <3>4, <3>5
  <2>2. FirstRoundInv(q, p, g)
    BY <1>4, <2>1, SameRecording DEF FirstRoundInv
  <2> QED BY <1>1, <1>2, <1>3, <2>2
<1>5. CASE LaterRoundInv(r, p, h)
  <2>1. ~g.steady
    <3> SUFFICES ASSUME g.steady PROVE FALSE
      OBVIOUS
    <3>1. FirstIndex(r.records, r.options.offset) > Len(r.records) /\ r.index <= Len(r.records)
      BY <1>5 DEF LaterRoundInv
    <3>2. r.index \in Nat /\ Len(r.records) \in Nat
      BY DEF ReplayInvOf, ReplayTyped, RecordsInOrder
    <3> QED BY <3>1, <3>2
  <2>2. LaterRoundInv(q, p, g)
    BY <1>5, <2>1, SameRecording DEF LaterRoundInv
  <2> QED BY <1>1, <1>2, <1>3, <2>2
<1> QED BY <1>1, <1>2, <1>3, <1>4, <1>5 DEF ReplayInvOf

(* At the start, and after rewind().                                       *)
LEMMA StartStep ==
  ASSUME NEW r, NEW p, NEW h, ReplayTyped(r, p, h), h.frames = <<>>,
         r.index = FirstIndex(r.records, r.options.offset), r.now = r.options.offset
  PROVE  ReplayInvOf(r, p, h)
<1>1. /\ Len(h.frames) = 0 /\ r.index \in 1..(Len(r.records) + 1) /\ r.now \in Nat
      /\ RecordsInOrder(r.records)
      /\ r.options.per \in Nat \ {0} /\ r.options.ticks \in Nat \ {0}
  BY DEF ReplayTyped
<1>2. Paced(r, p, h) /\ Chained(r, p, h) /\ Tallied(r, p, h)
  BY <1>1 DEF Paced, Chained, Tallied
<1>3. FirstRoundInv(r, p, h)
  <2>1. LookedFrom(r, h.frames, Len(h.frames) + 1) = r.index
    BY <1>1 DEF LookedFrom
  <2>2. ~Broken(r, h.frames)
    BY <1>1 DEF Broken
  <2>3. Len(r.records) \in Nat
    BY <1>1 DEF RecordsInOrder
  <2>4. Refused(r, r.index, r.index - 1)
    BY <1>1, <2>3 DEF Refused
  <2>5. r.index <= Len(r.records) => r.now <= Later(DueAt(r, r.index), r.options.offset)
    <3> SUFFICES ASSUME r.index <= Len(r.records)
                 PROVE  r.now <= Later(DueAt(r, r.index), r.options.offset)
      OBVIOUS
    <3>1. r.index \in 1..Len(r.records)
      BY <1>1, <2>3
    <3>2. DueAt(r, r.index) \in Nat
      BY <1>1, <3>1, DueGrows
    <3> QED BY <1>1, <3>2 DEF Later
  <2> QED BY <1>1, <2>1, <2>2, <2>3, <2>4, <2>5 DEF FirstRoundInv
<1> QED BY <1>2, <1>3 DEF ReplayInvOf

-----------------------------------------------------------------------------
(* The call ends at its deadline: nothing that is left is due by then.     *)
LEMMA GivesUpStep ==
  ASSUME NEW r, NEW p, NEW h, NEW q, NEW b,
         ReplayInvOf(r, p, h), p.busy,
         IF AtEnd(r) THEN ~r.options.loop \/ r.records = <<>> ELSE DueAt(r, r.index) > p.deadline,
         q.records = r.records, q.options = r.options, q.filters = r.filters,
         q.index = r.index, q.now = p.deadline
  PROVE  FirstRoundInv(q, b, h) \/ LaterRoundInv(q, b, h)
<1> DEFINE L == Len(r.records)
           F == FirstIndex(r.records, r.options.offset)
<1>1. /\ L \in Nat /\ r.index \in 1..(L + 1) /\ r.now \in Nat /\ p.deadline \in Nat
      /\ r.now <= p.deadline /\ r.options.offset \in Nat /\ RecordsInOrder(r.records)
      /\ r.options.per \in Nat \ {0} /\ r.options.ticks \in Nat \ {0}
  BY DEF ReplayInvOf, ReplayTyped, RecordsInOrder
<1>2. L \in 1..L => DueAt(r, L) \in Nat
  BY <1>1, DueGrows
<1>3. \A k \in 1..L : DueAt(r, k) \in Nat /\ DueAt(r, k) <= DueAt(r, L)
  BY <1>1, DueGrows
<1>4. ASSUME FirstRoundInv(r, p, h) PROVE FirstRoundInv(q, b, h)
  <2>1. /\ F <= r.index
        /\ r.index > L /\ F <= L => r.now >= DueAt(r, L)
        /\ h.steady => /\ ~Broken(r, h.frames)
                       /\ LookedFrom(r, h.frames, Len(h.frames) + 1) <= r.index
                       /\ Refused(r, LookedFrom(r, h.frames, Len(h.frames) + 1), r.index - 1)
    BY <1>4 DEF FirstRoundInv
  <2>2. r.index <= L => p.deadline <= Later(DueAt(r, r.index), r.options.offset)
    <3> SUFFICES ASSUME r.index <= L
                 PROVE  p.deadline <= Later(DueAt(r, r.index), r.options.offset)
      OBVIOUS
    <3>1. DueAt(r, r.index) > p.deadline
      BY <1>1 DEF AtEnd
    <3>2. DueAt(r, r.index) \in Nat
      BY <1>1, <1>3
    <3> QED BY <1>1, <3>1, <3>2 DEF Later
  <2>3. r.index > L /\ F <= L => p.deadline >= DueAt(r, L)
    <3> SUFFICES ASSUME r.index > L, F <= L PROVE p.deadline >= DueAt(r, L)
      OBVIOUS
    <3>1. F \in 1..(L + 1)
      BY <1>1, FirstIndexIs
    <3>2. L \in 1..L
      BY <1>1, <3>1
    <3> QED BY <1>1, <1>2, <2>1, <3>2
  <2> QED BY <2>1, <2>2, <2>3, SameRecording, SameFilters DEF FirstRoundInv
<1>5. ASSUME LaterRoundInv(r, p, h) PROVE LaterRoundInv(q, b, h)
  <2>1. /\ L > 0 /\ r.options.loop
        /\ F <= L => r.now >= DueAt(r, L)
        /\ h.steady =>
             \/ /\ Broken(r, h.frames)
                /\ LookedFrom(r, h.frames, Len(h.frames) + 1) <= r.index
                /\ Refused(r, LookedFrom(r, h.frames, Len(h.frames) + 1), r.index - 1)
             \/ /\ Refused(r, LookedFrom(r, h.frames, Len(h.frames) + 1), L)
                /\ Refused(r, 1, r.index - 1)
    BY <1>5 DEF LaterRoundInv
  <2>2. r.index <= L /\ DueAt(r, r.index) > p.deadline
    <3>1. r.records # <<>>
      BY <2>1
    <3>2. ~AtEnd(r)
      BY <2>1, <3>1
    <3> QED BY <1>1, <3>2 DEF AtEnd
  <2>3. DueAt(r, r.index) \in Nat /\ DueAt(r, L) \in Nat /\ DueAt(r, r.index) <= DueAt(r, L)
    BY <1>1, <1>2, <1>3, <2>1, <2>2
  <2>4. F > L
    <3>1. F \in 1..(L + 1)
      BY <1>1, FirstIndexIs
    <3> QED BY <1>1, <2>1, <2>2, <2>3, <3>1
  <2>5. ~(F <= L)
    <3>1. F \in 1..(L + 1)
      BY <1>1, FirstIndexIs
    <3> QED BY <1>1, <2>4, <3>1
  <2> QED BY <2>1, <2>2, <2>4, <2>5, SameRecording, SameFilters DEF LaterRoundInv
<1> QED BY <1>4, <1>5 DEF ReplayInvOf

(* Back to the first record: the round that ends gave all it had to.       *)
LEMMA StartsOverStep ==
  ASSUME NEW r, NEW p, NEW h, NEW q,
         ReplayInvOf(r, p, h), p.busy, AtEnd(r), r.options.loop, r.records # <<>>,
         q.records = r.records, q.options = r.options, q.filters = r.filters,
         q.index = 1, q.now = r.now
  PROVE  LaterRoundInv(q, p, h)
<1> DEFINE L == Len(r.records)
           F == FirstIndex(r.records, r.options.offset)
           g == LookedFrom(r, h.frames, Len(h.frames) + 1)
<1>1. /\ L \in Nat /\ r.index = L + 1 /\ r.now \in Nat /\ DOMAIN r.records = 1..L
  BY DEF ReplayInvOf, ReplayTyped, RecordsInOrder, AtEnd
<1>2. L > 0
  <2>1. L = 0 => r.records = [i \in 1..0 |-> r.records[i]]
    BY DEF ReplayInvOf, ReplayTyped, RecordsInOrder
  <2>2. [i \in 1..0 |-> r.records[i]] = <<>>
    OBVIOUS
  <2> QED BY <1>1, <2>1, <2>2
<1>3. Refused(r, 1, 0)
  BY DEF Refused
<1>4. /\ F <= L => r.now >= DueAt(r, L)
      /\ h.steady => Refused(r, g, L)
      /\ F <= L /\ h.steady /\ Broken(r, h.frames) => h.frames[Len(h.frames)].at = r.now
  <2>1. CASE FirstRoundInv(r, p, h)
    <3>1. r.index - 1 = L /\ r.index > L
      BY <1>1
    <3> QED BY <2>1, <3>1 DEF FirstRoundInv
  <2>2. CASE LaterRoundInv(r, p, h)
    <3>1. r.index - 1 = L
      BY <1>1
    <3> QED BY <2>2, <3>1 DEF LaterRoundInv
  <2> QED BY <2>1, <2>2 DEF ReplayInvOf
<1>5. 1 - 1 = 0
  OBVIOUS
<1> QED BY <1>2, <1>3, <1>4, <1>5, SameRecording, SameFilters DEF LaterRoundInv

-----------------------------------------------------------------------------
(* The clock when a record is taken.                                       *)
LEMMA TakenAt ==
  ASSUME NEW r, NEW p, NEW h, ReplayInvOf(r, p, h), ~AtEnd(r)
  PROVE  /\ Len(r.records) \in Nat /\ r.index \in 1..Len(r.records)
         /\ r.now \in Nat /\ r.options.offset \in Nat /\ r.options.offset <= r.now
         /\ DueAt(r, r.index) \in Nat
         /\ Later(r.now, DueAt(r, r.index)) \in Nat
         /\ r.now <= Later(r.now, DueAt(r, r.index))
         /\ DueAt(r, r.index) <= Later(r.now, DueAt(r, r.index))
         /\ FirstIndex(r.records, r.options.offset) \in 1..(Len(r.records) + 1)
<1>1. /\ Len(r.records) \in Nat /\ r.index \in 1..Len(r.records) /\ r.now \in Nat
      /\ r.options.offset \in Nat /\ r.options.offset <= r.now /\ RecordsInOrder(r.records)
      /\ r.options.per \in Nat \ {0} /\ r.options.ticks \in Nat \ {0}
  BY DEF ReplayInvOf, ReplayTyped, RecordsInOrder, AtEnd
<1>2. DueAt(r, r.index) \in Nat
  BY <1>1, DueGrows
<1>3. FirstIndex(r.records, r.options.offset) \in 1..(Len(r.records) + 1)
  BY <1>1, FirstIndexIs
<1>4. ASSUME NEW x \in Nat, NEW y \in Nat
      PROVE  Later(x, y) \in Nat /\ x <= Later(x, y) /\ y <= Later(x, y)
  BY DEF Later
<1>5. /\ Later(r.now, DueAt(r, r.index)) \in Nat
      /\ r.now <= Later(r.now, DueAt(r, r.index))
      /\ DueAt(r, r.index) <= Later(r.now, DueAt(r, r.index))
  BY <1>1, <1>2, <1>4
<1> QED BY <1>1, <1>2, <1>3, <1>5, Zenon

(* What of either round does not depend on what was heard.                 *)
LEMMA ClockAdvances ==
  ASSUME NEW r, NEW p, NEW h, NEW q,
         ReplayInvOf(r, p, h), ~AtEnd(r),
         q.records = r.records, q.options = r.options,
         q.index = r.index + 1, q.now = Later(r.now, DueAt(r, r.index))
  PROVE  LET L == Len(q.records)
             F == FirstIndex(q.records, q.options.offset)
         IN  /\ FirstRoundInv(r, p, h) =>
                  /\ F <= q.index
                  /\ q.index <= L => q.now <= Later(DueAt(q, q.index), q.options.offset)
                  /\ q.index > L /\ F <= L => q.now >= DueAt(q, L)
             /\ LaterRoundInv(r, p, h) /\ F <= L => q.now >= DueAt(q, L) /\ q.now = r.now
<1> DEFINE L == Len(r.records)
           F == FirstIndex(r.records, r.options.offset)
           due == DueAt(r, r.index)
           now == Later(r.now, due)
<1>1. /\ L \in Nat /\ r.index \in 1..L /\ r.now \in Nat /\ r.options.offset \in Nat
      /\ due \in Nat /\ now \in Nat /\ r.now <= now /\ due <= now /\ F \in 1..(L + 1)
  BY TakenAt
<1>2. RecordsInOrder(r.records) /\ r.options.per \in Nat \ {0} /\ r.options.ticks \in Nat \ {0}
  BY DEF ReplayInvOf, ReplayTyped
<1>3. DueAt(r, L) \in Nat /\ due <= DueAt(r, L)
  BY <1>1, <1>2, DueGrows
<1>4. ASSUME FirstRoundInv(r, p, h)
      PROVE  /\ F <= r.index + 1
             /\ r.index + 1 <= L => now <= Later(DueAt(r, r.index + 1), r.options.offset)
             /\ r.index + 1 > L /\ F <= L => now >= DueAt(r, L)
  <2>1. F <= r.index /\ r.now <= Later(due, r.options.offset)
    BY <1>1, <1>4 DEF FirstRoundInv
  <2>2. ASSUME r.index + 1 <= L
        PROVE  now <= Later(DueAt(r, r.index + 1), r.options.offset)
    <3>1. DueAt(r, r.index + 1) \in Nat /\ due <= DueAt(r, r.index + 1)
      BY <1>1, <1>2, <2>2, DueGrows
    <3> HIDE DEF due, L, F
    <3> QED BY <1>1, <2>1, <3>1 DEF Later
  <2>3. ASSUME r.index + 1 > L PROVE now >= DueAt(r, L)
    <3>1. r.index = L
      BY <1>1, <2>3
    <3> QED BY <1>1, <3>1
  <2> QED BY <1>1, <2>1, <2>2, <2>3
<1>5. ASSUME LaterRoundInv(r, p, h), F <= L PROVE now >= DueAt(r, L) /\ now = r.now
  <2>1. r.now >= DueAt(r, L)
    BY <1>5 DEF LaterRoundInv
  <2>2. now = r.now
    <3> HIDE DEF due, L, F
    <3> QED BY <1>1, <1>3, <2>1 DEF Later
  <2> QED BY <2>1, <2>2
<1>6. \A k : DueAt(q, k) = DueAt(r, k)
  BY SameRecording
<1> HIDE DEF due, now
<1> QED BY <1>4, <1>5, <1>6 DEF due, now

(* A record that the filters refuse.                                       *)
LEMMA RefusedStep ==
  ASSUME NEW r, NEW p, NEW h, NEW q,
         ReplayInvOf(r, p, h), p.busy, ~AtEnd(r),
         ~AcceptedBy(r.filters, r.records[r.index].id),
         q.records = r.records, q.options = r.options, q.filters = r.filters,
         q.index = r.index + 1, q.now = Later(r.now, DueAt(r, r.index))
  PROVE  FirstRoundInv(q, p, h) \/ LaterRoundInv(q, p, h)
<1>1. Len(r.records) \in Nat /\ r.index \in 1..Len(r.records)
  BY TakenAt
<1>2. ASSUME NEW k \in 1..(Len(r.records) + 1), Refused(r, k, r.index - 1)
      PROVE  Refused(r, k, q.index - 1)
  <2>1. q.index - 1 = r.index /\ r.index \in Nat
    BY <1>1
  <2>2. ASSUME NEW i \in k..r.index PROVE ~AcceptedBy(r.filters, r.records[i].id)
    <3>1. i = r.index \/ i \in k..(r.index - 1)
      BY <2>1
    <3> QED BY <1>2, <3>1 DEF Refused
  <2> QED BY <2>1, <2>2 DEF Refused
<1>3. LookedFrom(r, h.frames, Len(h.frames) + 1) \in 1..(Len(r.records) + 1)
  <2>1. Len(h.frames) + 1 \in 1..(Len(h.frames) + 1)
    BY DEF ReplayInvOf, ReplayTyped
  <2> QED BY <2>1, LookedFromIs DEF ReplayInvOf
<1>4. 1 \in 1..(Len(r.records) + 1)
  BY <1>1
<1>5. ASSUME NEW k \in 1..(Len(r.records) + 1), k <= r.index PROVE k <= q.index
  BY <1>1, <1>5
<1>6. CASE FirstRoundInv(r, p, h)
  <2>1. h.steady => /\ ~Broken(q, h.frames)
                    /\ LookedFrom(q, h.frames, Len(h.frames) + 1) <= q.index
                    /\ Refused(q, LookedFrom(q, h.frames, Len(h.frames) + 1), q.index - 1)
    BY <1>2, <1>3, <1>5, <1>6, SameRecording, SameFilters DEF FirstRoundInv
  <2>2. FirstRoundInv(q, p, h)
    BY <1>6, <2>1, ClockAdvances DEF FirstRoundInv
  <2> QED BY <2>2
<1>7. CASE LaterRoundInv(r, p, h)
  <2>1. h.steady =>
          LET g == LookedFrom(q, h.frames, Len(h.frames) + 1)
          IN  \/ Broken(q, h.frames) /\ g <= q.index /\ Refused(q, g, q.index - 1)
              \/ Refused(q, g, Len(q.records)) /\ Refused(q, 1, q.index - 1)
    BY <1>2, <1>3, <1>4, <1>5, <1>7, SameRecording, SameFilters DEF LaterRoundInv
  <2>2. FirstIndex(q.records, q.options.offset) <= Len(q.records) =>
          /\ q.now >= DueAt(q, Len(q.records))
          /\ h.steady /\ Broken(q, h.frames) => h.frames[Len(h.frames)].at = q.now
    BY <1>7, ClockAdvances, SameRecording DEF LaterRoundInv
  <2>3. Len(q.records) > 0 /\ q.options.loop
    BY <1>7 DEF LaterRoundInv
  <2>4. LaterRoundInv(q, p, h)
    BY <2>1, <2>2, <2>3 DEF LaterRoundInv
  <2> QED BY <2>4
<1> QED BY <1>6, <1>7 DEF ReplayInvOf

(* A frame is heard: those before it, and their places, stay.              *)
OneMore(r, h, q, new, frames) ==
  LET n == Len(h.frames)
      L == Len(r.records)
      g == LookedFrom(r, h.frames, n + 1)
  IN  /\ n \in Nat /\ L \in Nat /\ Len(frames) = n + 1 /\ frames \in Seq([nr : Nat, at : Nat])
      /\ \A k \in 1..n : frames[k] = h.frames[k]
      /\ frames[n + 1] = new
      /\ \A k \in 1..n : PlaceOf(q.records, frames[k]) = PlaceOf(r.records, h.frames[k])
      /\ PlaceOf(q.records, frames[n + 1]) = r.index
      /\ \A k \in 1..(n + 1) : LookedFrom(q, frames, k) = LookedFrom(r, h.frames, k)
      /\ LookedFrom(q, frames, n + 2) = r.index + 1
      /\ g \in 1..(L + 1)
      /\ Broken(q, frames) <=> Broken(r, h.frames) \/ ~(g <= r.index)
      /\ \A k \in 1..n : InFirstRound(q, frames, k) <=> InFirstRound(r, h.frames, k)
      /\ InFirstRound(q, frames, n + 1) <=> ~Broken(q, frames)
      /\ InFirstRound(r, h.frames, n) <=> ~Broken(r, h.frames)

LEMMA OneMoreHeard ==
  ASSUME NEW r, NEW p, NEW h, NEW q, NEW new, NEW frames,
         ReplayTyped(r, p, h), r.index \in 1..Len(r.records),
         q.records = r.records, q.options = r.options,
         new.nr = r.records[r.index].nr, new \in [nr : Nat, at : Nat],
         frames = Append(h.frames, new)
  PROVE  OneMore(r, h, q, new, frames)
<1> DEFINE n == Len(h.frames)
           L == Len(r.records)
           g == LookedFrom(r, h.frames, n + 1)
<1>1. /\ n \in Nat /\ L \in Nat /\ RecordsInOrder(r.records) /\ DOMAIN r.records = 1..L
      /\ h.frames \in Seq([nr : Nat, at : Nat])
  BY DEF ReplayTyped, RecordsInOrder
<1>2. /\ Len(frames) = n + 1 /\ frames \in Seq([nr : Nat, at : Nat])
      /\ \A k \in 1..n : frames[k] = h.frames[k]
      /\ frames[n + 1] = new
  BY <1>1
<1>3. \A k \in 1..n : PlaceOf(q.records, frames[k]) = PlaceOf(r.records, h.frames[k])
  BY <1>2
<1>4. PlaceOf(q.records, frames[n + 1]) = r.index
  BY <1>1, <1>2, PlaceIs
<1>5. \A k \in 1..(n + 1) : LookedFrom(q, frames, k) = LookedFrom(r, h.frames, k)
  <2> SUFFICES ASSUME NEW k \in 1..(n + 1)
               PROVE  LookedFrom(q, frames, k) = LookedFrom(r, h.frames, k)
    OBVIOUS
  <2>1. k # 1 => k - 1 \in 1..n
    BY <1>1
  <2> QED BY <1>3, <2>1 DEF LookedFrom
<1>6. LookedFrom(q, frames, n + 2) = r.index + 1
  <2>1. n + 2 # 1 /\ (n + 2) - 1 = n + 1 /\ r.index + 1 = 1 + r.index
    BY <1>1
  <2> QED BY <1>4, <2>1 DEF LookedFrom
<1>7. g \in 1..(L + 1)
  <2>1. n + 1 \in 1..(n + 1)
    BY <1>1
  <2> QED BY <2>1, LookedFromIs
<1>8. 1..Len(frames) = 1..n \cup {n + 1} /\ n + 1 \in 1..(n + 1) /\ 1..n \subseteq 1..(n + 1)
  BY <1>1, <1>2
<1> DEFINE Was(j) == LookedFrom(r, h.frames, j) <= PlaceOf(r.records, h.frames[j])
           Is(j) == LookedFrom(q, frames, j) <= PlaceOf(q.records, frames[j])
<1>9. (\A j \in 1..n : Is(j) <=> Was(j)) /\ (Is(n + 1) <=> g <= r.index)
  BY <1>3, <1>4, <1>5, <1>8
<1>10. /\ Broken(q, frames) <=> \E j \in 1..Len(frames) : ~Is(j)
       /\ Broken(r, h.frames) <=> \E j \in 1..n : ~Was(j)
       /\ \A k : InFirstRound(q, frames, k) <=> \A j \in 1..k : Is(j)
       /\ \A k : InFirstRound(r, h.frames, k) <=> \A j \in 1..k : Was(j)
  BY DEF Broken, InFirstRound
<1>11. \A k \in 1..n : 1..k \subseteq 1..n
  BY <1>1
<1> HIDE DEF Was, Is
<1>12. Broken(q, frames) <=> Broken(r, h.frames) \/ ~(g <= r.index)
  <2> HIDE DEF g, n
  <2> QED BY <1>8, <1>9, <1>10
<1>13. \A k \in 1..n : InFirstRound(q, frames, k) <=> InFirstRound(r, h.frames, k)
  BY <1>9, <1>10, <1>11
<1>14. /\ InFirstRound(q, frames, n + 1) <=> ~Broken(q, frames)
       /\ InFirstRound(r, h.frames, n) <=> ~Broken(r, h.frames)
  BY <1>2, <1>10
<1> HIDE DEF g, n, L
<1> QED BY <1>1, <1>2, <1>3, <1>4, <1>5, <1>6, <1>7, <1>12, <1>13, <1>14, Zenon DEF OneMore, g, n, L

(* A record that the filters let through.                                  *)
LEMMA HeardStep ==
  ASSUME NEW r, NEW p, NEW h, NEW q, NEW b, NEW g, NEW new,
         ReplayInvOf(r, p, h), ~AtEnd(r),
         AcceptedBy(r.filters, r.records[r.index].id),
         q.records = r.records, q.options = r.options, q.filters = r.filters,
         q.index = r.index + 1, q.now = Later(r.now, DueAt(r, r.index)),
         q.stats = Counted(r.stats, q.now),
         new = [nr |-> r.records[r.index].nr, at |-> q.now],
         g.frames = Append(h.frames, new), g.steady = h.steady
  PROVE  /\ Paced(q, b, g) /\ Chained(q, b, g) /\ Tallied(q, b, g)
         /\ FirstRoundInv(q, b, g) \/ LaterRoundInv(q, b, g)
<1> DEFINE n == Len(h.frames)
           L == Len(r.records)
           from == LookedFrom(r, h.frames, n + 1)
<1>1. /\ r.index \in 1..L /\ r.now \in Nat /\ q.now \in Nat /\ r.options.offset \in Nat
      /\ r.options.offset <= r.now /\ r.now <= q.now /\ DueAt(r, r.index) \in Nat
  BY TakenAt
<1>2. /\ ReplayTyped(r, p, h) /\ Paced(r, p, h) /\ Chained(r, p, h) /\ Tallied(r, p, h)
      /\ RecordsInOrder(r.records)
  BY DEF ReplayInvOf, ReplayTyped
<1>3. new \in [nr : Nat, at : Nat] /\ new.nr = r.records[r.index].nr /\ new.at = q.now
  <2>1. r.records[r.index].nr \in Nat
    BY <1>1, <1>2 DEF RecordsInOrder
  <2> QED BY <1>1, <2>1
<1>4. /\ n \in Nat /\ L \in Nat /\ Len(g.frames) = n + 1
      /\ \A k \in 1..n : g.frames[k] = h.frames[k]
      /\ g.frames[n + 1] = new
      /\ \A k \in 1..n : PlaceOf(q.records, g.frames[k]) = PlaceOf(r.records, h.frames[k])
      /\ PlaceOf(q.records, g.frames[n + 1]) = r.index
      /\ \A k \in 1..(n + 1) : LookedFrom(q, g.frames, k) = LookedFrom(r, h.frames, k)
      /\ LookedFrom(q, g.frames, n + 2) = r.index + 1
      /\ from \in 1..(L + 1)
      /\ Broken(q, g.frames) <=> Broken(r, h.frames) \/ ~(from <= r.index)
      /\ \A k \in 1..n : InFirstRound(q, g.frames, k) <=> InFirstRound(r, h.frames, k)
      /\ InFirstRound(q, g.frames, n + 1) <=> ~Broken(q, g.frames)
      /\ InFirstRound(r, h.frames, n) <=> ~Broken(r, h.frames)
  <2> HIDE DEF n, L, from
  <2>1. ReplayTyped(r, p, h) /\ r.index \in 1..Len(r.records)
    BY <1>1, <1>2 DEF L
  <2>2. new.nr = r.records[r.index].nr /\ new \in [nr : Nat, at : Nat]
    BY <1>3
  <2>3. q.records = r.records /\ q.options = r.options /\ g.frames = Append(h.frames, new)
    OBVIOUS
  <2>4. OneMore(r, h, q, new, g.frames)
    BY <2>1, <2>2, <2>3, OneMoreHeard, Zenon
  <2> QED BY <2>4, Zenon DEF OneMore, n, L, from
<1>5. \A k \in 1..(n + 1) : k \in 1..n \/ k = n + 1
  BY <1>4
<1> HIDE DEF n, L, from
(* What was known of the search that ends here. *)
<1>6. h.steady => \/ from <= r.index /\ Refused(r, from, r.index - 1)
                  \/ r.options.loop /\ Refused(r, from, L) /\ Refused(r, 1, r.index - 1)
  BY DEF ReplayInvOf, FirstRoundInv, LaterRoundInv, n, L, from
<1>7. h.steady /\ LaterRoundInv(r, p, h) => Broken(q, g.frames)
  <2> SUFFICES ASSUME h.steady, LaterRoundInv(r, p, h), from <= r.index,
                      Refused(r, from, L)
               PROVE  FALSE
    BY <1>4 DEF LaterRoundInv, from, n, L
  <2>1. r.index \in from..L
    BY <1>1, <1>4
  <2> QED BY <2>1 DEF Refused
<1>8. h.steady /\ FirstRoundInv(r, p, h) => ~Broken(q, g.frames)
  BY <1>4 DEF FirstRoundInv, from, n, L
<1>9. Chained(q, b, g)
  <2> SUFFICES ASSUME h.steady, NEW k \in 1..(n + 1)
               PROVE  ComesNext(q, LookedFrom(q, g.frames, k), PlaceOf(q.records, g.frames[k]))
    BY <1>4 DEF Chained
  <2>1. CASE k \in 1..n
    <3>1. ComesNext(r, LookedFrom(r, h.frames, k), PlaceOf(r.records, h.frames[k]))
      BY <1>2, <2>1 DEF Chained, n
    <3> QED BY <1>4, <2>1, <3>1, SameFilters
  <2>2. CASE k = n + 1
    <3>1. ComesNext(r, from, r.index)
      <4>1. CASE from <= r.index /\ Refused(r, from, r.index - 1)
        <5>1. r.index \in AcceptedFrom(r, from)
          BY <1>1, <1>4, <4>1 DEF AcceptedFrom, L
        <5>2. ASSUME NEW j \in AcceptedFrom(r, from) PROVE r.index <= j
          <6>1. j \in from..L /\ AcceptedBy(r.filters, r.records[j].id)
            BY <5>2 DEF AcceptedFrom, L
          <6>2. j \notin from..(r.index - 1)
            BY <4>1, <6>1 DEF Refused
          <6> QED BY <1>1, <1>4, <6>1, <6>2
        <5> QED BY <5>1, <5>2 DEF ComesNext
      <4>2. CASE r.options.loop /\ Refused(r, from, L) /\ Refused(r, 1, r.index - 1)
        <5>1. AcceptedFrom(r, from) = {}
          BY <4>2 DEF AcceptedFrom, Refused, L
        <5>2. r.index \in AcceptedFrom(r, 1)
          BY <1>1, <1>4 DEF AcceptedFrom, L
        <5>3. ASSUME NEW j \in AcceptedFrom(r, 1) PROVE r.index <= j
          <6>1. j \in 1..L /\ AcceptedBy(r.filters, r.records[j].id)
            BY <5>3 DEF AcceptedFrom, L
          <6>2. j \notin 1..(r.index - 1)
            BY <4>2, <6>1 DEF Refused
          <6> QED BY <1>1, <1>4, <6>1, <6>2
        <5> QED BY <4>2, <5>1, <5>2, <5>3 DEF ComesNext
      <4> QED BY <1>6, <4>1, <4>2
    <3>2. LookedFrom(q, g.frames, k) = from /\ PlaceOf(q.records, g.frames[k]) = r.index
      <4>1. n + 1 \in 1..(n + 1)
        BY <1>4
      <4> QED BY <1>4, <2>2, <4>1 DEF from, n
    <3>3. ComesNext(q, from, r.index)
      BY <3>1, SameFilters
    <3> QED BY <3>2, <3>3
  <2> QED BY <1>5, <2>1, <2>2
<1>10. Paced(q, b, g)
  <2>1. ASSUME NEW i \in 1..(n + 1), NEW j \in 1..(n + 1), i < j
        PROVE  g.frames[i].at <= g.frames[j].at
    <3>1. i \in 1..n
      BY <1>4, <2>1
    <3>2. h.frames[i].at <= r.now /\ h.frames[i].at \in Nat
      <4>1. h.frames \in Seq([nr : Nat, at : Nat]) /\ i \in 1..Len(h.frames)
            /\ h.frames[i].at <= r.now
        BY <1>2, <3>1 DEF ReplayTyped, n
      <4>2. h.frames[i] \in [nr : Nat, at : Nat]
        BY <4>1, ElementOfSeq, Zenon
      <4> QED BY <4>1, <4>2
    <3>3. CASE j \in 1..n
      BY <1>2, <1>4, <2>1, <3>1, <3>3 DEF Paced, n
    <3>4. CASE j = n + 1
      <4>1. g.frames[i] = h.frames[i] /\ g.frames[j] = new
        BY <1>4, <3>1, <3>4, Zenon
      <4>2. \A x, y, z \in Nat : x <= y /\ y <= z => x <= z
        OBVIOUS
      <4> QED BY <1>1, <1>3, <3>2, <4>1, <4>2, Zenon
    <3> QED BY <1>5, <3>3, <3>4
  <2>2. ASSUME h.steady, NEW k \in 1..(n + 1), InFirstRound(q, g.frames, k)
        PROVE  g.frames[k].at = Later(DueAt(q, PlaceOf(q.records, g.frames[k])), q.options.offset)
    <3>1. \A i : DueAt(q, i) = DueAt(r, i)
      BY SameRecording
    <3>2. CASE k \in 1..n
      BY <1>2, <1>4, <2>2, <3>1, <3>2 DEF Paced, n
    <3>3. CASE k = n + 1
      <4>1. FirstRoundInv(r, p, h)
        BY <1>4, <1>7, <2>2, <3>3 DEF ReplayInvOf
      <4>2. r.now <= Later(DueAt(r, r.index), r.options.offset)
        BY <1>1, <4>1 DEF FirstRoundInv, L
      <4>3. q.now = Later(DueAt(r, r.index), r.options.offset)
        BY <1>1, <4>2 DEF Later
      <4> QED BY <1>3, <1>4, <3>1, <3>3, <4>3
    <3> QED BY <1>5, <3>2, <3>3
  <2>3. ASSUME h.steady, FirstIndex(q.records, q.options.offset) <= Len(q.records),
               NEW k \in 1..(n + 1), ~InFirstRound(q, g.frames, k)
        PROVE  AtOnce(q, g.frames, k)
    <3>1. CASE k \in 1..n
      <4>1. AtOnce(r, h.frames, k)
        BY <1>2, <1>4, <2>3, <3>1 DEF Paced, n
      <4>2. k > 1 => k - 1 \in 1..n
        BY <1>4, <3>1
      <4>3. \A i : DueAt(q, i) = DueAt(r, i)
        BY SameRecording
      <4> QED BY <1>4, <3>1, <4>1, <4>2, <4>3 DEF AtOnce
    <3>2. CASE k = n + 1
      <4>1. LaterRoundInv(r, p, h)
        BY <1>4, <1>8, <2>3, <3>2 DEF ReplayInvOf
      <4>2. q.now >= DueAt(q, Len(q.records)) /\ q.now = r.now
        BY <2>3, <4>1, ClockAdvances
      <4>3. ASSUME k > 1, ~InFirstRound(q, g.frames, k - 1)
            PROVE  new.at = g.frames[k - 1].at
        <5>1. k - 1 = n /\ n \in 1..n
          BY <1>4, <3>2, <4>3
        <5>2. Broken(r, h.frames)
          BY <1>4, <4>3, <5>1
        <5>3. h.frames[n].at = r.now
          BY <2>3, <4>1, <5>2 DEF LaterRoundInv, n
        <5> QED BY <1>3, <1>4, <4>2, <5>1, <5>3
      <4>4. g.frames[k] = new
        BY <1>4, <3>2
      <4> QED BY <1>3, <4>2, <4>3, <4>4 DEF AtOnce
    <3> QED BY <1>5, <3>1, <3>2
  <2> QED BY <1>4, <2>1, <2>2, <2>3 DEF Paced
<1>11. Tallied(q, b, g)
  <2> DEFINE m == r.stats.received
  <2>1. m \in Nat /\ q.stats.received = m + 1 /\ q.stats.last = q.now
        /\ q.stats.first = IF m = 0 THEN q.now ELSE r.stats.first
    BY <1>2 DEF ReplayTyped, Counted
  <2> HIDE DEF m
  <2> SUFFICES ASSUME m + 1 \in 1..(n + 1)
               PROVE  /\ q.stats.first = g.frames[(n + 1) - (m + 1) + 1].at
                      /\ q.stats.last = g.frames[n + 1].at
    BY <1>4, <2>1 DEF Tallied
  <2>2. (n + 1) - (m + 1) + 1 = n - m + 1
    BY <1>4, <2>1
  <2>3. CASE m = 0
    <3>1. n - m + 1 = n + 1
      BY <1>4, <2>3
    <3> QED BY <1>3, <1>4, <2>1, <2>2, <2>3, <3>1
  <2>4. CASE m # 0
    <3>1. m \in 1..n /\ n - m + 1 \in 1..n
      BY <1>4, <2>1, <2>4
    <3>2. r.stats.first = h.frames[n - m + 1].at
      BY <1>2, <3>1 DEF Tallied, m, n
    <3> QED BY <1>3, <1>4, <2>1, <2>2, <2>4, <3>1, <3>2
  <2> QED BY <2>3, <2>4
(* The next search starts here. *)
<1>12. LookedFrom(q, g.frames, Len(g.frames) + 1) = q.index
  <2>1. Len(g.frames) + 1 = n + 2
    BY <1>4
  <2> QED BY <1>4, <2>1
<1>13. q.index \in Nat /\ Refused(q, q.index, q.index - 1)
  BY <1>1, <1>4 DEF Refused
<1>14. CASE FirstRoundInv(r, p, h)
  <2>1. FirstRoundInv(q, b, g)
    <3>1. /\ FirstIndex(q.records, q.options.offset) <= q.index
          /\ q.index <= Len(q.records) => q.now <= Later(DueAt(q, q.index), q.options.offset)
          /\ q.index > Len(q.records) /\ FirstIndex(q.records, q.options.offset) <= Len(q.records) =>
               q.now >= DueAt(q, Len(q.records))
      BY <1>14, ClockAdvances
    <3>2. g.steady => ~Broken(q, g.frames)
      BY <1>8, <1>14
    <3>3. q.index <= q.index
      BY <1>13
    <3> QED BY <1>12, <1>13, <3>1, <3>2, <3>3, Zenon DEF FirstRoundInv
  <2> QED BY <1>9, <1>10, <1>11, <2>1
<1>15. CASE LaterRoundInv(r, p, h)
  <2>1. g.frames # <<>>
    BY <1>4
  <2>2. FirstIndex(q.records, q.options.offset) <= Len(q.records) => q.now >= DueAt(q, Len(q.records))
    BY <1>15, ClockAdvances
  <2>3. Len(q.records) > 0 /\ q.options.loop
    BY <1>15 DEF LaterRoundInv
  <2>4. g.steady => Broken(q, g.frames) /\ q.index <= q.index
    BY <1>7, <1>13, <1>15
  <2>5. g.frames[Len(g.frames)].at = q.now
    BY <1>3, <1>4
  <2>6. LaterRoundInv(q, b, g)
    BY <1>12, <1>13, <2>1, <2>2, <2>3, <2>4, <2>5 DEF LaterRoundInv
  <2> QED BY <1>9, <1>10, <1>11, <2>6
<1> QED BY <1>14, <1>15 DEF ReplayInvOf

-----------------------------------------------------------------------------
(* What was heard was heard by now.                                        *)
LEMMA HeardBefore ==
  ASSUME NEW r, NEW p, NEW h, ReplayTyped(r, p, h), NEW now \in Nat, r.now <= now
  PROVE  \A k \in 1..Len(h.frames) : h.frames[k].at <= now
<1>1. ASSUME NEW k \in 1..Len(h.frames) PROVE h.frames[k].at <= now
  <2>1. /\ h.frames \in Seq([nr : Nat, at : Nat]) /\ r.now \in Nat
        /\ h.frames[k].at <= r.now
    BY DEF ReplayTyped
  <2>2. h.frames[k] \in [nr : Nat, at : Nat]
    BY <2>1, ElementOfSeq, Zenon
  <2>3. h.frames[k].at \in Nat
    BY <2>2
  <2> QED BY <2>1, <2>3
<1> QED BY <1>1

(* The types, when nothing is heard and the clock does not run back.       *)
GoesOn(r, h, q, b, g) ==
  /\ q.records = r.records /\ q.options = r.options
  /\ q.index \in 1..(Len(r.records) + 1) /\ q.now \in Nat /\ r.now <= q.now
  /\ q.stats.received \in Nat
  /\ b.busy \in BOOLEAN /\ b.deadline \in Nat /\ (b.busy => q.now <= b.deadline)
  /\ g.steady \in BOOLEAN /\ g.frames = h.frames

LEMMA TypedStays ==
  ASSUME NEW r, NEW p, NEW h, NEW q, NEW b, NEW g,
         ReplayTyped(r, p, h), Shaped(q, b, g), GoesOn(r, h, q, b, g)
  PROVE  ReplayTyped(q, b, g)
<1>1. /\ RecordsInOrder(r.records) /\ r.now \in Nat
      /\ r.options.per \in Nat \ {0} /\ r.options.ticks \in Nat \ {0}
      /\ r.options.offset \in Nat /\ r.options.loop \in BOOLEAN /\ r.options.offset <= r.now
      /\ Len(h.frames) \in Nat /\ h.frames \in Seq([nr : Nat, at : Nat])
      /\ \A k \in 1..Len(h.frames) :
           /\ h.frames[k].at <= r.now
           /\ \E i \in DOMAIN r.records : r.records[i].nr = h.frames[k].nr
  BY DEF ReplayTyped
<1>2. /\ q.records = r.records /\ q.options = r.options
      /\ q.now \in Nat /\ r.now <= q.now /\ q.options.offset <= q.now
      /\ g.frames = h.frames
  BY <1>1 DEF GoesOn
<1>3. \A k \in 1..Len(h.frames) : h.frames[k].at <= q.now
  BY <1>2, HeardBefore, Zenon
<1> QED BY <1>1, <1>2, <1>3 DEF ReplayTyped, GoesOn

(* The types, when a frame is heard.                                       *)
LEMMA TypedHeard ==
  ASSUME NEW r, NEW p, NEW h, NEW q, NEW b, NEW g, NEW new,
         ReplayInvOf(r, p, h), ~AtEnd(r), Shaped(q, b, g),
         q.records = r.records, q.options = r.options,
         q.index = r.index + 1, q.now = Later(r.now, DueAt(r, r.index)),
         q.stats.received \in Nat,
         b.busy = FALSE, b.deadline \in Nat, g.steady = h.steady,
         new = [nr |-> r.records[r.index].nr, at |-> q.now],
         g.frames = Append(h.frames, new)
  PROVE  ReplayTyped(q, b, g)
<1> DEFINE n == Len(h.frames)
<1>1. /\ Len(r.records) \in Nat /\ r.index \in 1..Len(r.records) /\ r.now \in Nat
      /\ q.now \in Nat /\ r.now <= q.now /\ r.options.offset \in Nat /\ r.options.offset <= r.now
  BY TakenAt
<1>2. /\ ReplayTyped(r, p, h) /\ RecordsInOrder(r.records)
      /\ r.options.per \in Nat \ {0} /\ r.options.ticks \in Nat \ {0}
      /\ r.options.loop \in BOOLEAN /\ h.steady \in BOOLEAN
      /\ n \in Nat /\ h.frames \in Seq([nr : Nat, at : Nat])
      /\ \A k \in 1..n :
           /\ h.frames[k].at <= r.now
           /\ \E i \in DOMAIN r.records : r.records[i].nr = h.frames[k].nr
  BY DEF ReplayInvOf, ReplayTyped
<1>3. r.index \in DOMAIN r.records /\ r.records[r.index].nr \in Nat
  BY <1>1, <1>2 DEF RecordsInOrder
<1>4. new \in [nr : Nat, at : Nat] /\ new.nr = r.records[r.index].nr /\ new.at = q.now
  BY <1>1, <1>3
<1>5. /\ Len(g.frames) = n + 1 /\ g.frames \in Seq([nr : Nat, at : Nat])
      /\ \A k \in 1..n : g.frames[k] = h.frames[k]
      /\ g.frames[n + 1] = new
  BY <1>2, <1>4
<1>6. ASSUME NEW k \in 1..(n + 1)
      PROVE  /\ g.frames[k].at <= q.now
             /\ \E i \in DOMAIN r.records : r.records[i].nr = g.frames[k].nr
  <2>1. CASE k \in 1..n
    <3>3. g.frames[k] = h.frames[k]
      BY <1>5, <2>1, Zenon
    <3>5. h.frames[k].at <= q.now
      BY <1>1, <1>2, <2>1, HeardBefore, Zenon
    <3>4. \E i \in DOMAIN r.records : r.records[i].nr = h.frames[k].nr
      BY <1>2, <2>1
    <3> QED BY <3>3, <3>4, <3>5
  <2>2. CASE k = n + 1
    BY <1>1, <1>3, <1>4, <1>5, <2>2
  <2>3. k \in 1..n \/ k = n + 1
    BY <1>2
  <2> QED BY <2>1, <2>2, <2>3
<1> HIDE DEF n
<1>7. q.index \in 1..(Len(q.records) + 1) /\ q.options.offset <= q.now /\ Len(g.frames) \in Nat
  <2>1. q.index = r.index + 1 /\ q.records = r.records /\ q.options = r.options
    OBVIOUS
  <2>2. r.index + 1 \in 1..(Len(r.records) + 1)
    BY <1>1
  <2>3. r.options.offset <= q.now /\ n + 1 \in Nat
    BY <1>1, <1>2
  <2> QED BY <1>2, <1>5, <2>1, <2>2, <2>3, Zenon
<1>8. /\ q.records = r.records /\ q.options = r.options
      /\ b.busy \in BOOLEAN /\ (b.busy => q.now <= b.deadline)
  OBVIOUS
<1>9. /\ Shaped(q, b, g) /\ RecordsInOrder(q.records)
      /\ q.options.per \in Nat \ {0} /\ q.options.ticks \in Nat \ {0}
      /\ q.options.offset \in Nat /\ q.options.loop \in BOOLEAN /\ g.steady \in BOOLEAN
  BY <1>1, <1>2, <1>8, Zenon
<1>10. \A k \in 1..Len(g.frames) :
         /\ g.frames[k].at <= q.now
         /\ \E i \in DOMAIN q.records : q.records[i].nr = g.frames[k].nr
  BY <1>5, <1>6, <1>8, Zenon
<1> QED BY <1>1, <1>5, <1>7, <1>8, <1>9, <1>10, Zenon DEF ReplayTyped

(* The start of a replay.                                                  *)
LEMMA ReplayStarts ==
  ASSUME NEW records, RecordsInOrder(records), NEW options,
         options.per \in Nat \ {0}, options.ticks \in Nat \ {0},
         options.offset \in Nat, options.loop \in BOOLEAN,
         replay = Rewound([records |-> records, options |-> options, open |-> FALSE,
                           filters |-> <<>>, index |-> 1, now |-> 0, stats |-> NoStatistics]),
         pull = Returned,
         heard = [frames |-> <<>>, steady |-> TRUE, pulls |-> 0, others |-> 0]
  PROVE  ReplayInv
<1>1. /\ replay.records = records /\ replay.options = options /\ replay.stats = NoStatistics
      /\ replay.index = FirstIndex(records, options.offset) /\ replay.now = options.offset
      /\ Shaped(replay, pull, heard)
  BY DEF Rewound, NoStatistics, Returned, Shaped
<1>2. replay.index \in 1..(Len(records) + 1)
  BY <1>1, FirstIndexIs
<1>3. replay.stats.received \in Nat
  BY <1>1 DEF NoStatistics
<1>4. /\ pull.busy = FALSE /\ pull.deadline = 0
      /\ heard.frames = <<>> /\ heard.steady = TRUE
  BY DEF Returned
<1>5. Len(<<>>) = 0 /\ <<>> \in Seq([nr : Nat, at : Nat]) /\ 1..0 = {}
  OBVIOUS
<1>6. ReplayTyped(replay, pull, heard)
  <2>1. /\ Len(heard.frames) = 0 /\ heard.frames \in Seq([nr : Nat, at : Nat])
        /\ \A k \in 1..Len(heard.frames) :
             /\ heard.frames[k].at <= replay.now
             /\ \E i \in DOMAIN replay.records : replay.records[i].nr = heard.frames[k].nr
    BY <1>4, <1>5
  <2>2. /\ replay.index \in 1..(Len(replay.records) + 1) /\ replay.now \in Nat
        /\ replay.options.offset <= replay.now
        /\ RecordsInOrder(replay.records)
        /\ replay.options.per \in Nat \ {0} /\ replay.options.ticks \in Nat \ {0}
        /\ replay.options.offset \in Nat /\ replay.options.loop \in BOOLEAN
    BY <1>1, <1>2
  <2>3. Len(heard.frames) \in Nat /\ pull.deadline \in Nat
    BY <1>4, <2>1
  <2> QED BY <1>1, <1>3, <1>4, <2>1, <2>2, <2>3, Zenon DEF ReplayTyped
<1> QED BY <1>1, <1>4, <1>6, StartStep DEF ReplayInv

LEMMA ReplayInvInit == ReplayInit => ReplayInv
<1> SUFFICES ASSUME ReplayInit PROVE ReplayInv
  OBVIOUS
<1>1. PICK records \in Recordings, options \in Options :
        replay = Rewound([records |-> InOrderOfTime(records), options |-> options, open |-> FALSE,
                          filters |-> <<>>, index |-> 1, now |-> 0, stats |-> NoStatistics])
  BY Zenon DEF ReplayInit
<1>2. /\ pull = Returned
      /\ heard = [frames |-> <<>>, steady |-> TRUE, pulls |-> 0, others |-> 0]
  BY Zenon DEF ReplayInit
<1>3. RecordsInOrder(InOrderOfTime(records))
  BY RecordsAreInOrder
<1>4. /\ options.per \in Nat \ {0} /\ options.ticks \in Nat \ {0}
      /\ options.offset \in Nat /\ options.loop \in BOOLEAN
  BY ReplayBounds, Zenon DEF ReplayBounds
<1> QED BY <1>1, <1>2, <1>3, <1>4, ReplayStarts

-----------------------------------------------------------------------------
LEMMA OtherCallsKeep ==
  ASSUME ReplayInv, Between,
         \/ \E on \in BOOLEAN : ReplayOpens(on)
         \/ ReplayFilters \/ ResetsStatistics \/ Rewind
  PROVE  ReplayInv'
<1>1. /\ ReplayInvOf(replay, pull, heard) /\ ReplayTyped(replay, pull, heard)
      /\ Shaped(replay, pull, heard) /\ pull' = pull /\ ~pull.busy
  BY DEF ReplayInv, ReplayInvOf, ReplayTyped, Between
<1>2. /\ replay.index \in 1..(Len(replay.records) + 1) /\ replay.now \in Nat
      /\ replay.stats.received \in Nat /\ pull.busy \in BOOLEAN /\ pull.deadline \in Nat
      /\ heard.steady \in BOOLEAN
  BY <1>1 DEF ReplayTyped
<1>3. CASE \E on \in BOOLEAN : ReplayOpens(on)
  <2>1. /\ replay'.records = replay.records /\ replay'.options = replay.options
        /\ replay'.filters = replay.filters /\ replay'.index = replay.index
        /\ replay'.now = replay.now /\ replay'.stats = replay.stats
        /\ heard'.frames = heard.frames /\ heard'.steady = heard.steady
        /\ Shaped(replay', pull', heard')
    BY <1>1, <1>3 DEF ReplayOpens, Shaped
  <2>2. ReplayTyped(replay', pull', heard')
    <3>1. replay'.now \in Nat /\ replay.now <= replay'.now
          /\ (pull'.busy => replay'.now <= pull'.deadline)
      BY <1>1, <1>2, <2>1
    <3>2. /\ replay'.index \in 1..(Len(replay.records) + 1)
          /\ replay'.stats.received \in Nat
          /\ pull'.busy \in BOOLEAN /\ pull'.deadline \in Nat /\ heard'.steady \in BOOLEAN
      BY <1>1, <1>2, <2>1
    <3>3. /\ replay'.records = replay.records /\ replay'.options = replay.options
          /\ heard'.frames = heard.frames
      BY <1>1, <1>2, <2>1
    <3>4. GoesOn(replay, heard, replay', pull', heard')
      BY <3>1, <3>2, <3>3, Zenon DEF GoesOn
    <3> QED BY <1>1, <1>2, <2>1, <3>4, TypedStays
  <2>3. Paced(replay', pull', heard') /\ Chained(replay', pull', heard') /\ Tallied(replay', pull', heard')
    BY <1>1, <2>1, NothingHeard
  <2>4. FirstRoundInv(replay', pull', heard') \/ LaterRoundInv(replay', pull', heard')
    BY <1>1, <2>1, RoundStays DEF ReplayInvOf
  <2> QED BY <2>2, <2>3, <2>4 DEF ReplayInv, ReplayInvOf
<1>4. CASE ReplayFilters
  <2>1. /\ replay'.records = replay.records /\ replay'.options = replay.options
        /\ replay'.index = replay.index
        /\ replay'.now = replay.now /\ replay'.stats = replay.stats
        /\ heard'.frames = heard.frames
        /\ heard'.steady = (heard.steady /\ heard.frames = <<>>
             /\ replay.index = FirstIndex(replay.records, replay.options.offset))
        /\ Shaped(replay', pull', heard')
    BY <1>1, <1>4 DEF ReplayFilters, Shaped
  <2>2. heard'.steady \in BOOLEAN
        /\ (heard'.steady => heard.steady /\ heard.frames = <<>>
             /\ replay.index = FirstIndex(replay.records, replay.options.offset))
    BY <2>1
  <2>3. ReplayTyped(replay', pull', heard')
    <3>1. replay'.now \in Nat /\ replay.now <= replay'.now
          /\ (pull'.busy => replay'.now <= pull'.deadline)
      BY <1>1, <1>2, <2>1, <2>2
    <3>2. /\ replay'.index \in 1..(Len(replay.records) + 1)
          /\ replay'.stats.received \in Nat
          /\ pull'.busy \in BOOLEAN /\ pull'.deadline \in Nat /\ heard'.steady \in BOOLEAN
      BY <1>1, <1>2, <2>1, <2>2
    <3>3. /\ replay'.records = replay.records /\ replay'.options = replay.options
          /\ heard'.frames = heard.frames
      BY <1>1, <1>2, <2>1, <2>2
    <3>4. GoesOn(replay, heard, replay', pull', heard')
      BY <3>1, <3>2, <3>3, Zenon DEF GoesOn
    <3> QED BY <1>1, <1>2, <2>1, <2>2, <3>4, TypedStays
  <2>4. /\ Paced(replay', pull', heard') /\ Chained(replay', pull', heard')
        /\ Tallied(replay', pull', heard')
        /\ FirstRoundInv(replay', pull', heard') \/ LaterRoundInv(replay', pull', heard')
    BY <1>1, <2>1, <2>2, FilterStep
  <2> QED BY <2>3, <2>4 DEF ReplayInv, ReplayInvOf
<1>5. CASE ResetsStatistics
  <2>1. /\ replay'.records = replay.records /\ replay'.options = replay.options
        /\ replay'.filters = replay.filters /\ replay'.index = replay.index
        /\ replay'.now = replay.now /\ replay'.stats.received = 0
        /\ heard'.frames = heard.frames /\ heard'.steady = heard.steady
        /\ Shaped(replay', pull', heard')
    BY <1>1, <1>5 DEF ResetsStatistics, NoStatistics, Shaped
  <2>2. ReplayTyped(replay', pull', heard')
    <3>1. replay'.now \in Nat /\ replay.now <= replay'.now
          /\ (pull'.busy => replay'.now <= pull'.deadline)
      BY <1>1, <1>2, <2>1
    <3>2. /\ replay'.index \in 1..(Len(replay.records) + 1)
          /\ replay'.stats.received \in Nat
          /\ pull'.busy \in BOOLEAN /\ pull'.deadline \in Nat /\ heard'.steady \in BOOLEAN
      BY <1>1, <1>2, <2>1
    <3>3. /\ replay'.records = replay.records /\ replay'.options = replay.options
          /\ heard'.frames = heard.frames
      BY <1>1, <1>2, <2>1
    <3>4. GoesOn(replay, heard, replay', pull', heard')
      BY <3>1, <3>2, <3>3, Zenon DEF GoesOn
    <3> QED BY <1>1, <1>2, <2>1, <3>4, TypedStays
  <2>3. Paced(replay', pull', heard') /\ Chained(replay', pull', heard') /\ Tallied(replay', pull', heard')
    BY <1>1, <2>1, NothingHeard
  <2>4. FirstRoundInv(replay', pull', heard') \/ LaterRoundInv(replay', pull', heard')
    BY <1>1, <2>1, RoundStays DEF ReplayInvOf
  <2> QED BY <2>2, <2>3, <2>4 DEF ReplayInv, ReplayInvOf
<1>6. CASE Rewind
  <2>1. /\ replay'.records = replay.records /\ replay'.options = replay.options
        /\ replay'.index = FirstIndex(replay.records, replay.options.offset)
        /\ replay'.now = replay.options.offset /\ replay'.stats = replay.stats
        /\ heard'.frames = <<>> /\ heard'.steady = TRUE
        /\ Shaped(replay', pull', heard')
    BY <1>1, <1>6 DEF Rewind, Rewound, Shaped
  <2>2. /\ RecordsInOrder(replay.records)
        /\ replay.options.per \in Nat \ {0} /\ replay.options.ticks \in Nat \ {0}
        /\ replay.options.offset \in Nat /\ replay.options.loop \in BOOLEAN
    BY <1>1 DEF ReplayTyped
  <2>3. replay'.index \in 1..(Len(replay'.records) + 1)
    BY <2>1, <2>2, FirstIndexIs
  <2>4. Len(<<>>) = 0 /\ <<>> \in Seq([nr : Nat, at : Nat]) /\ 1..0 = {}
    OBVIOUS
  <2>5. ReplayTyped(replay', pull', heard')
    <3>1. /\ Len(heard'.frames) = 0 /\ heard'.frames \in Seq([nr : Nat, at : Nat])
          /\ \A k \in 1..Len(heard'.frames) :
               /\ heard'.frames[k].at <= replay'.now
               /\ \E i \in DOMAIN replay'.records : replay'.records[i].nr = heard'.frames[k].nr
      BY <2>1, <2>4
    <3>2. /\ replay'.index \in 1..(Len(replay'.records) + 1) /\ replay'.now \in Nat
          /\ replay'.options.offset <= replay'.now
          /\ RecordsInOrder(replay'.records)
          /\ replay'.options.per \in Nat \ {0} /\ replay'.options.ticks \in Nat \ {0}
          /\ replay'.options.offset \in Nat /\ replay'.options.loop \in BOOLEAN
      BY <2>1, <2>2, <2>3
    <3>3. /\ replay'.stats.received \in Nat /\ heard'.steady \in BOOLEAN
          /\ pull'.busy = FALSE /\ pull'.deadline \in Nat
      BY <1>1, <1>2, <2>1
    <3>4. Len(heard'.frames) \in Nat
      BY <3>1
    <3> QED BY <2>1, <3>1, <3>2, <3>3, <3>4, Zenon DEF ReplayTyped
  <2> QED BY <2>1, <2>5, StartStep DEF ReplayInv
<1> QED BY <1>3, <1>4, <1>5, <1>6

LEMMA PullKeeps ==
  ASSUME ReplayInv, NEW timeout \in Timeouts, Pull(timeout)
  PROVE  ReplayInv'
<1>1. /\ ReplayInvOf(replay, pull, heard) /\ ReplayTyped(replay, pull, heard)
      /\ Shaped(replay, pull, heard) /\ replay' = replay /\ ~pull.busy
  BY DEF ReplayInv, ReplayInvOf, ReplayTyped, Pull
<1>2. /\ replay.index \in 1..(Len(replay.records) + 1) /\ replay.now \in Nat
      /\ replay.stats.received \in Nat /\ heard.steady \in BOOLEAN
  BY <1>1 DEF ReplayTyped
<1>3. timeout \in Nat
  BY ReplayBounds DEF ReplayBounds
<1>4. /\ pull'.busy = TRUE /\ pull'.deadline = replay.now + timeout
      /\ heard'.frames = heard.frames /\ heard'.steady = heard.steady
      /\ Shaped(replay', pull', heard')
  BY <1>1 DEF Pull, Shaped
<1>5. pull'.deadline \in Nat /\ replay.now <= pull'.deadline
  BY <1>2, <1>3, <1>4
<1>6. ReplayTyped(replay', pull', heard')
  <2>1. replay'.now \in Nat /\ replay.now <= replay'.now
        /\ (pull'.busy => replay'.now <= pull'.deadline)
    BY <1>1, <1>2, <1>4, <1>5
  <2>2. /\ replay'.index \in 1..(Len(replay.records) + 1)
        /\ replay'.stats.received \in Nat
        /\ pull'.busy \in BOOLEAN /\ pull'.deadline \in Nat /\ heard'.steady \in BOOLEAN
    BY <1>1, <1>2, <1>4, <1>5
  <2>3. /\ replay'.records = replay.records /\ replay'.options = replay.options
        /\ heard'.frames = heard.frames
    BY <1>1, <1>2, <1>4, <1>5
  <2>4. GoesOn(replay, heard, replay', pull', heard')
    BY <2>1, <2>2, <2>3, Zenon DEF GoesOn
  <2> QED BY <1>1, <1>2, <1>4, <1>5, <2>4, TypedStays
<1>7. Paced(replay', pull', heard') /\ Chained(replay', pull', heard') /\ Tallied(replay', pull', heard')
  BY <1>1, <1>4, NothingHeard
<1>8. FirstRoundInv(replay', pull', heard') \/ LaterRoundInv(replay', pull', heard')
  BY <1>1, <1>4, RoundStays DEF ReplayInvOf
<1> QED BY <1>6, <1>7, <1>8 DEF ReplayInv, ReplayInvOf

LEMMA PullTurnKeeps ==
  ASSUME ReplayInv, PullTurn
  PROVE  ReplayInv'
<1>1. /\ ReplayInvOf(replay, pull, heard) /\ ReplayTyped(replay, pull, heard)
      /\ Shaped(replay, pull, heard) /\ pull.busy
  BY DEF ReplayInv, ReplayInvOf, ReplayTyped, PullTurn, StartsOver, GivesUp, TakesRecord
<1>2. /\ replay.index \in 1..(Len(replay.records) + 1) /\ replay.now \in Nat
      /\ replay.stats.received \in Nat /\ pull.busy \in BOOLEAN /\ pull.deadline \in Nat
      /\ replay.now <= pull.deadline
      /\ heard.steady \in BOOLEAN /\ Len(replay.records) \in Nat
  BY <1>1 DEF ReplayTyped, RecordsInOrder
<1>3. CASE StartsOver
  <2>1. /\ replay'.records = replay.records /\ replay'.options = replay.options
        /\ replay'.filters = replay.filters /\ replay'.index = 1
        /\ replay'.now = replay.now /\ replay'.stats = replay.stats
        /\ pull' = pull /\ heard' = heard
        /\ Shaped(replay', pull', heard')
    BY <1>1, <1>3 DEF StartsOver, Shaped
  <2>2. 1 \in 1..(Len(replay.records) + 1)
    BY <1>2
  <2>3. ReplayTyped(replay', pull', heard')
    <3>1. replay'.now \in Nat /\ replay.now <= replay'.now
          /\ (pull'.busy => replay'.now <= pull'.deadline)
      BY <1>1, <1>2, <2>1, <2>2
    <3>2. /\ replay'.index \in 1..(Len(replay.records) + 1)
          /\ replay'.stats.received \in Nat
          /\ pull'.busy \in BOOLEAN /\ pull'.deadline \in Nat /\ heard'.steady \in BOOLEAN
      BY <1>1, <1>2, <2>1, <2>2
    <3>3. /\ replay'.records = replay.records /\ replay'.options = replay.options
          /\ heard'.frames = heard.frames
      BY <1>1, <1>2, <2>1, <2>2
    <3>4. GoesOn(replay, heard, replay', pull', heard')
      BY <3>1, <3>2, <3>3, Zenon DEF GoesOn
    <3> QED BY <1>1, <1>2, <2>1, <2>2, <3>4, TypedStays
  <2>4. Paced(replay', pull', heard') /\ Chained(replay', pull', heard') /\ Tallied(replay', pull', heard')
    BY <1>1, <2>1, NothingHeard
  <2>5. LaterRoundInv(replay', pull', heard')
    BY <1>1, <1>3, <2>1, StartsOverStep DEF StartsOver
  <2> QED BY <2>3, <2>4, <2>5 DEF ReplayInv, ReplayInvOf
<1>4. CASE GivesUp
  <2>1. /\ replay'.records = replay.records /\ replay'.options = replay.options
        /\ replay'.filters = replay.filters /\ replay'.index = replay.index
        /\ replay'.now = pull.deadline /\ replay'.stats = replay.stats
        /\ pull'.busy = FALSE /\ pull'.deadline = 0 /\ heard' = heard
        /\ Shaped(replay', pull', heard')
    BY <1>1, <1>4 DEF GivesUp, Returned, Shaped
  <2>2. ReplayTyped(replay', pull', heard')
    <3>1. replay'.now \in Nat /\ replay.now <= replay'.now
          /\ (pull'.busy => replay'.now <= pull'.deadline)
      BY <1>1, <1>2, <2>1
    <3>2. /\ replay'.index \in 1..(Len(replay.records) + 1)
          /\ replay'.stats.received \in Nat
          /\ pull'.busy \in BOOLEAN /\ pull'.deadline \in Nat /\ heard'.steady \in BOOLEAN
      <4>1. 0 \in Nat /\ FALSE \in BOOLEAN
        OBVIOUS
      <4> QED BY <1>2, <2>1, <4>1, Zenon
    <3>3. /\ replay'.records = replay.records /\ replay'.options = replay.options
          /\ heard'.frames = heard.frames
      BY <1>1, <1>2, <2>1
    <3>4. GoesOn(replay, heard, replay', pull', heard')
      BY <3>1, <3>2, <3>3, Zenon DEF GoesOn
    <3> QED BY <1>1, <1>2, <2>1, <3>4, TypedStays
  <2>3. Paced(replay', pull', heard') /\ Chained(replay', pull', heard') /\ Tallied(replay', pull', heard')
    BY <1>1, <2>1, NothingHeard
  <2>4. IF AtEnd(replay) THEN ~replay.options.loop \/ replay.records = <<>>
        ELSE DueAt(replay, replay.index) > pull.deadline
    BY <1>4 DEF GivesUp
  <2>5. FirstRoundInv(replay', pull', heard') \/ LaterRoundInv(replay', pull', heard')
    BY <1>1, <2>1, <2>4, GivesUpStep
  <2> QED BY <2>2, <2>3, <2>5 DEF ReplayInv, ReplayInvOf
<1>5. CASE TakesRecord
  <2> DEFINE due == DueAt(replay, replay.index)
             now == Later(replay.now, due)
             record == replay.records[replay.index]
  <2>1. ~AtEnd(replay) /\ due <= pull.deadline
    BY <1>5 DEF TakesRecord
  <2>2. due \in Nat /\ now \in Nat /\ replay.now <= now /\ replay.index \in 1..Len(replay.records)
    BY <1>1, <2>1, TakenAt
  <2>3. now <= pull.deadline /\ replay.index + 1 \in 1..(Len(replay.records) + 1)
    BY <1>2, <2>1, <2>2 DEF Later
  <2>4. CASE ~AcceptedBy(replay.filters, record.id)
    <3>1. /\ replay'.records = replay.records /\ replay'.options = replay.options
          /\ replay'.filters = replay.filters /\ replay'.index = replay.index + 1
          /\ replay'.now = now /\ replay'.stats = replay.stats
          /\ pull' = pull /\ heard' = heard
          /\ Shaped(replay', pull', heard')
      BY <1>1, <1>5, <2>4 DEF TakesRecord, Shaped
    <3> HIDE DEF now, due
    <3>2. ReplayTyped(replay', pull', heard')
      <4>1. replay'.now \in Nat /\ replay.now <= replay'.now
            /\ (pull'.busy => replay'.now <= pull'.deadline)
        BY <1>1, <1>2, <2>2, <2>3, <3>1
      <4>2. /\ replay'.index \in 1..(Len(replay.records) + 1)
            /\ replay'.stats.received \in Nat
            /\ pull'.busy \in BOOLEAN /\ pull'.deadline \in Nat /\ heard'.steady \in BOOLEAN
        <5>1. /\ replay'.index = replay.index + 1 /\ replay'.stats = replay.stats
              /\ pull' = pull /\ heard' = heard
          BY <3>1
        <5> QED BY <1>2, <2>3, <5>1, Zenon
      <4>3. /\ replay'.records = replay.records /\ replay'.options = replay.options
            /\ heard'.frames = heard.frames
        BY <1>1, <1>2, <2>2, <2>3, <3>1
      <4>4. GoesOn(replay, heard, replay', pull', heard')
        BY <4>1, <4>2, <4>3, Zenon DEF GoesOn
      <4> QED BY <1>1, <1>2, <2>2, <2>3, <3>1, <4>4, TypedStays
    <3>3. Paced(replay', pull', heard') /\ Chained(replay', pull', heard') /\ Tallied(replay', pull', heard')
      BY <1>1, <3>1, NothingHeard
    <3>4. FirstRoundInv(replay', pull', heard') \/ LaterRoundInv(replay', pull', heard')
      BY <1>1, <2>1, <2>4, <3>1, RefusedStep DEF now, due
    <3> QED BY <3>2, <3>3, <3>4 DEF ReplayInv, ReplayInvOf
  <2>5. CASE AcceptedBy(replay.filters, record.id)
    <3> DEFINE new == [nr |-> record.nr, at |-> now]
    <3>1. /\ replay'.records = replay.records /\ replay'.options = replay.options
          /\ replay'.filters = replay.filters /\ replay'.index = replay.index + 1
          /\ replay'.now = now /\ replay'.stats = Counted(replay.stats, now)
          /\ pull'.busy = FALSE /\ pull'.deadline = 0
          /\ heard'.frames = Append(heard.frames, new) /\ heard'.steady = heard.steady
          /\ Shaped(replay', pull', heard')
      BY <1>1, <1>5, <2>5 DEF TakesRecord, Shaped, Returned, Counted
    <3>2. replay'.stats.received \in Nat
      BY <1>2, <3>1 DEF Counted
    <3> HIDE DEF now, due
    <3>3. new = [nr |-> replay.records[replay.index].nr, at |-> replay'.now]
      BY <3>1
    <3> HIDE DEF new
    <3>4. ReplayTyped(replay', pull', heard')
      <4>1. /\ replay'.records = replay.records /\ replay'.options = replay.options
            /\ replay'.index = replay.index + 1
            /\ replay'.now = Later(replay.now, DueAt(replay, replay.index))
            /\ pull'.deadline \in Nat
        BY <3>1 DEF now, due
      <4> QED BY <1>1, <2>1, <3>1, <3>2, <3>3, <4>1, TypedHeard, Zenon
    <3>5. /\ Paced(replay', pull', heard') /\ Chained(replay', pull', heard')
          /\ Tallied(replay', pull', heard')
          /\ FirstRoundInv(replay', pull', heard') \/ LaterRoundInv(replay', pull', heard')
      BY <1>1, <2>1, <2>5, <3>1, <3>3, HeardStep DEF now, due
    <3> QED BY <3>4, <3>5 DEF ReplayInv, ReplayInvOf
  <2> QED BY <2>4, <2>5
<1> QED BY <1>3, <1>4, <1>5 DEF PullTurn

LEMMA ReplayInvStep == ReplayInv /\ [ReplayNext]_replayVars => ReplayInv'
<1> SUFFICES ASSUME ReplayInv, [ReplayNext]_replayVars PROVE ReplayInv'
  OBVIOUS
<1>1. CASE \/ \E on \in BOOLEAN : ReplayOpens(on)
           \/ ReplayFilters \/ ResetsStatistics \/ Rewind
  <2>1. Between
    BY <1>1 DEF ReplayOpens, ReplayFilters, ResetsStatistics, Rewind
  <2> QED BY <1>1, <2>1, OtherCallsKeep
<1>2. CASE \E timeout \in Timeouts : Pull(timeout)
  BY <1>2, PullKeeps
<1>3. CASE PullTurn
  BY <1>3, PullTurnKeeps
<1>4. CASE UNCHANGED replayVars
  BY <1>4, Zenon DEF replayVars, ReplayInv
<1> QED BY <1>1, <1>2, <1>3, <1>4 DEF ReplayNext

LEMMA ReplayInvShows == ReplayInv => ReplayIsFaithful
<1> SUFFICES ASSUME ReplayInv PROVE ReplayIsFaithful
  OBVIOUS
<1>1. /\ ReplayTyped(replay, pull, heard) /\ Paced(replay, pull, heard)
      /\ Chained(replay, pull, heard) /\ Tallied(replay, pull, heard)
  BY DEF ReplayInv, ReplayInvOf
<1>2. /\ DOMAIN heard.frames = 1..Len(heard.frames) /\ RecordsInOrder(replay.records)
      /\ \A k \in 1..Len(heard.frames) :
           \E i \in DOMAIN replay.records : replay.records[i].nr = heard.frames[k].nr
  BY <1>1 DEF ReplayTyped
<1>3. ReplayedInOrder
  BY <1>1, <1>2 DEF ReplayedInOrder, Chained, RecordsInOrder
<1>4. KeepsItsPace
  BY <1>1, <1>2 DEF KeepsItsPace, Paced, AtOnce
<1>5. StatisticsTellTheReplay
  BY <1>1, <1>2 DEF StatisticsTellTheReplay, Tallied
<1> QED BY <1>3, <1>4, <1>5 DEF ReplayIsFaithful

-----------------------------------------------------------------------------
(* Either bus at work, the other one still.                                *)
LEMMA ParkedReplay == Parked => ReplayInv
<1> SUFFICES ASSUME Parked PROVE ReplayInv
  OBVIOUS
<1>1. PICK options \in {o \in Options : o.per = 1 /\ o.ticks = 1 /\ o.offset = 0 /\ ~o.loop} :
        replay = Rewound([records |-> <<>>, options |-> options, open |-> FALSE,
                          filters |-> <<>>, index |-> 1, now |-> 0, stats |-> NoStatistics])
  BY Zenon DEF Parked
<1>2. /\ pull = Returned
      /\ heard = [frames |-> <<>>, steady |-> TRUE, pulls |-> 0, others |-> 0]
  BY Zenon DEF Parked
<1>3. /\ options.per \in Nat \ {0} /\ options.ticks \in Nat \ {0}
      /\ options.offset \in Nat /\ options.loop \in BOOLEAN
  BY ReplayBounds, Zenon DEF ReplayBounds
<1>4. RecordsInOrder(<<>>)
  BY DEF RecordsInOrder
<1> QED BY <1>1, <1>2, <1>3, <1>4, ReplayStarts

LEMMA EitherBusStarts == MCInit => Init /\ ReplayInv
BY ReplayInvInit, ParkedReplay DEF MCInit

LEMMA EitherBusSteps == [MCNext]_MCVars => [Next]_vars /\ [ReplayNext]_replayVars
BY Zenon DEF MCNext, MCVars, MediumAlone, ReplayAlone

(* A program gets each frame once, in order and with its time, from a      *)
(* virtual bus and from the replay of a recording: whatever the timeouts   *)
(* of its calls, each frame of a replay is the next one that the filters   *)
(* let through, round after round; in the first round it comes at the      *)
(* recording's pace, and the later rounds come at once, as soon as all of  *)
(* the recording is due (deliver(), receive()).                            *)
THEOREM FramesComeInOrderFromEither == MCSpec => []FramesOnceAndInOrder
<1>1. MCSpec => []BusInv
  <2>1. MCInit => BusInv
    BY EitherBusStarts, BusInvInit
  <2>2. BusInv /\ [MCNext]_MCVars => BusInv'
    BY EitherBusSteps, BusInvStep
  <2> QED BY <2>1, <2>2, PTL DEF MCSpec
<1>2. MCSpec => []ReplayInv
  <2>1. MCInit => ReplayInv
    BY EitherBusStarts
  <2>2. ReplayInv /\ [MCNext]_MCVars => ReplayInv'
    BY EitherBusSteps, ReplayInvStep
  <2> QED BY <2>1, <2>2, PTL DEF MCSpec
<1>3. BusInv /\ ReplayInv => FramesOnceAndInOrder
  BY FramesInOrder, ReplayInvShows DEF FramesOnceAndInOrder
<1> QED BY <1>1, <1>2, <1>3, PTL

=============================================================================
