----------------------------- MODULE VirtualBus -----------------------------
(***************************************************************************)
(* What every bus shares, acceptance filters and the time a frame takes;   *)
(* and the virtual medium with its participants: arbitration, bounded      *)
(* queues, and a clock that only moves while somebody calls advance(),     *)
(* drain() or receive().                                                   *)
(*                                                                         *)
(* A call that moves the clock is a loop; each turn of the loop is a step, *)
(* and nothing else happens until the call returns.  A participant that is *)
(* destroyed leaves its address, which a later one may be given.           *)
(***************************************************************************)
EXTENDS CanFrame

CONSTANTS
  Second,        \* ticks in a second, 10^9 in the code
  NominalRate,   \* bits per second of the arbitration phase
  DataRate       \* and of the data phase of a CAN FD frame

ASSUME Rates == Second \in Nat /\ NominalRate \in Nat /\ DataRate \in Nat

-----------------------------------------------------------------------------
(* The worst case of bit stuffing is one bit in four.                      *)
WorstCaseStuffBits(bits) == IF bits = 0 THEN 0 ELSE (bits - 1) \div 4
TrailerBits == 1 + 1 + 1 + 7 + 3
Ticks(bits, rate) == IF rate = 0 THEN 0 ELSE (bits * Second) \div rate

Timing(arbitration, data, ticks) ==
  [bits |-> arbitration + data, ticks |-> ticks]

ClassicTiming(f) ==
  LET stuffable == (IF f.id.extended THEN 54 ELSE 34) + (8 * Size(f))
      bits == stuffable + TrailerBits + WorstCaseStuffBits(stuffable)
  IN  Timing(bits, 0, Ticks(bits, NominalRate))

FdTiming(f) ==
  LET core == IF f.id.extended THEN 37 ELSE 17
      crc == (IF Size(f) > 16 THEN 21 ELSE 17) + 4
      payload == 8 * Size(f)
      stuff == (crc \div 4) + WorstCaseStuffBits(core + 1 + 4 + payload)
      arbitration == core + TrailerBits
      data == 1 + 4 + payload + crc + stuff
      rate == IF "Brs" \in f.flags /\ DataRate # 0 THEN DataRate ELSE NominalRate
  IN  Timing(arbitration, data, Ticks(arbitration, NominalRate) + Ticks(data, rate))

FrameTiming(f) == IF "Fd" \in f.flags THEN FdTiming(f) ELSE ClassicTiming(f)

-----------------------------------------------------------------------------
(* The virtual medium and its participants: arbitration, bounded queues,   *)
(* and a clock that only moves while somebody calls advance(), drain() or  *)
(* receive().                                                              *)
(*                                                                         *)
(* A call that moves the clock is a loop; each turn of the loop is a step, *)
(* and nothing else happens until the call returns.  A participant that is *)
(* destroyed leaves its address, which a later one may be given.           *)
CONSTANTS
  Nodes, RxLimit, TxLimit, Loopback,
  Crew   \* the participants that attach and open before anything else happens

ASSUME Limits ==
  /\ RxLimit \in Nat /\ TxLimit \in Nat /\ Loopback \in BOOLEAN
  /\ Crew \in Seq(Nodes) /\ \A i, j \in DOMAIN Crew : Crew[i] = Crew[j] => i = j

VARIABLES
  net,   \* the members of VirtualMedium
  bus,   \* and of each VirtualBus
  call   \* the call that is running

busVars == <<net, bus, call>>

Idle == [op |-> "none"]
FreshBus == [open |-> FALSE, outbox |-> <<>>, inbox |-> <<>>, filters |-> <<>>,
             sent |-> 0, received |-> 0, dropped |-> 0, refused |-> 0, losses |-> 0,
             bits |-> 0, first |-> 0, last |-> 0]

(* carried is the frame in flight, if there is one.                        *)
BusInit ==
  /\ net = [order |-> Crew, now |-> 0, until |-> 0, carried |-> <<>>, from |-> {}, log |-> <<>>]
  /\ bus = [n \in Nodes |-> IF \E i \in DOMAIN Crew : Crew[i] = n
                             THEN [FreshBus EXCEPT !.open = TRUE] ELSE FreshBus]
  /\ call = Idle

Attached == {net.order[i] : i \in DOMAIN net.order}
Place(n) == CHOOSE i \in DOMAIN net.order : net.order[i] = n
InFlight == net.carried # <<>>

(* A frame under way: what it is, a number that tells it from others, and  *)
(* the timestamp it is given when its transmission starts.                 *)
Tagged(frame, nr) == [of |-> frame, nr |-> nr, at |-> 0]

-----------------------------------------------------------------------------
Attach(n) ==
  /\ call = Idle /\ n \notin Attached
  /\ net' = [net EXCEPT !.order = Append(@, n)]
  /\ bus' = [bus EXCEPT ![n] = FreshBus]
  /\ UNCHANGED call

Erased(n) == [i \in 1..(Len(net.order) - 1) |->
                net.order[IF i < Place(n) THEN i ELSE i + 1]]

(* Its frame in flight stays there.                                        *)
Destroy(n) ==
  /\ call = Idle /\ n \in Attached
  /\ net' = [net EXCEPT !.order = Erased(n)]
  /\ bus' = [bus EXCEPT ![n] = FreshBus]
  /\ UNCHANGED call

Open(n) ==
  /\ call = Idle /\ n \in Attached
  /\ bus' = [bus EXCEPT ![n].open = TRUE]
  /\ UNCHANGED <<net, call>>

Close(n) ==
  /\ call = Idle /\ n \in Attached
  /\ bus' = [bus EXCEPT ![n].open = FALSE, ![n].outbox = <<>>, ![n].inbox = <<>>]
  /\ UNCHANGED <<net, call>>

SetFilters(n, filters) ==
  /\ call = Idle /\ n \in Attached
  /\ bus' = [bus EXCEPT ![n].filters = filters]
  /\ UNCHANGED <<net, call>>

Sendable(n, frame) == bus[n].open /\ ("Fd" \in frame.flags => DataRate # 0)

Send(n, f) ==
  /\ call = Idle /\ n \in Attached /\ Sendable(n, f.of)
  /\ bus' = IF Len(bus[n].outbox) >= TxLimit THEN [bus EXCEPT ![n].refused = @ + 1]
            ELSE [bus EXCEPT ![n].outbox = Append(@, f)]
  /\ UNCHANGED <<net, call>>

Popped(n) == [bus EXCEPT ![n].inbox = Tail(@)]

(* With an empty inbox the medium runs for the whole timeout first.        *)
Receive(n, timeout) ==
  /\ call = Idle /\ n \in Attached /\ bus[n].open
  /\ \/ /\ bus[n].inbox # <<>>
        /\ bus' = Popped(n)
        /\ UNCHANGED <<net, call>>
     \/ /\ bus[n].inbox = <<>> /\ timeout > 0
        /\ call' = [op |-> "advance", target |-> net.now + timeout, reader |-> {n}]
        /\ UNCHANGED <<net, bus>>

Advance(by) ==
  /\ call = Idle
  /\ call' = [op |-> "advance", target |-> net.now + by, reader |-> {}]
  /\ UNCHANGED <<net, bus>>

Drain(max) ==
  /\ call = Idle
  /\ call' = [op |-> "drain", left |-> max]
  /\ UNCHANGED <<net, bus>>

-----------------------------------------------------------------------------
Contenders == {n \in Attached : bus[n].open /\ bus[n].outbox # <<>>}
KeyOfNodeSlip(n) == Head(bus[n].outbox).of.id.value   \* the bare identifier

KeyOfNode(n) == ArbitrationKey(Head(bus[n].outbox).of.id)

(* The lowest key wins, and of equal ones whoever attached first.          *)
WinsSlip(n) ==   \* whoever attached first
  \A m \in Contenders : Place(n) <= Place(m)

Wins(n) ==
  \A m \in Contenders :
    \/ KeyOfNode(n) < KeyOfNode(m)
    \/ KeyOfNode(n) = KeyOfNode(m) /\ Place(n) <= Place(m)

(* A timestamp of 0 stands for none.                                       *)
Seen(s, from, to) == [s EXCEPT !.first = IF @ = 0 THEN from ELSE @, !.last = to]

TransmitSlip(n, losers, timing) ==   \* stamped with the start
  LET end == net.now + timing.ticks
  IN  /\ net' = [net EXCEPT
                   !.until = end, !.from = {n},
                   !.carried = <<[Head(bus[n].outbox) EXCEPT !.at = net.now]>>,
                   !.log = IF losers = {} THEN @
                           ELSE Append(@, [at |-> net.now, winner |-> n, losers |-> losers])]
      /\ bus' = [m \in Nodes |->
                   IF m = n
                   THEN Seen([bus[m] EXCEPT !.outbox = Tail(@), !.sent = @ + 1,
                                            !.bits = @ + timing.bits], net.now, end)
                   ELSE IF m \in losers THEN [bus[m] EXCEPT !.losses = @ + 1]
                   ELSE bus[m]]

Transmit(n, losers, timing) ==
  LET end == net.now + timing.ticks
  IN  /\ net' = [net EXCEPT
                   !.until = end, !.from = {n},
                   !.carried = <<[Head(bus[n].outbox) EXCEPT !.at = end]>>,
                   !.log = IF losers = {} THEN @
                           ELSE Append(@, [at |-> net.now, winner |-> n, losers |-> losers])]
      /\ bus' = [m \in Nodes |->
                   IF m = n
                   THEN Seen([bus[m] EXCEPT !.outbox = Tail(@), !.sent = @ + 1,
                                            !.bits = @ + timing.bits], net.now, end)
                   ELSE IF m \in losers THEN [bus[m] EXCEPT !.losses = @ + 1]
                   ELSE bus[m]]

StartTransmission ==
  /\ ~InFlight
  /\ \E n \in Contenders :
       Wins(n) /\ Transmit(n, Contenders \ {n}, FrameTiming(Head(bus[n].outbox).of))

Hears(n, f) ==
  /\ n \in Attached /\ bus[n].open
  /\ Loopback \/ n \notin net.from
  /\ AcceptedBy(bus[n].filters, f.of.id)

CompleteTransmission ==
  LET f == net.carried[1]
  IN  /\ InFlight
      /\ bus' = [n \in Nodes |->
                   IF ~Hears(n, f) THEN bus[n]
                   ELSE IF Len(bus[n].inbox) >= RxLimit THEN [bus[n] EXCEPT !.dropped = @ + 1]
                   ELSE Seen([bus[n] EXCEPT !.inbox = Append(@, f), !.received = @ + 1], f.at, f.at)]

Complete(now) == CompleteTransmission /\ net' = [net EXCEPT !.carried = <<>>, !.from = {}, !.now = now]

(* A turn of the loop in advance().                                        *)
AdvanceTurn ==
  /\ call.op = "advance" /\ UNCHANGED call
  /\ \/ InFlight /\ net.until <= net.now /\ Complete(net.now)
     \/ StartTransmission
     \/ /\ InFlight /\ net.until > net.now /\ net.until <= call.target
        /\ net' = [net EXCEPT !.now = net.until] /\ UNCHANGED bus

AdvanceReturns ==
  /\ call.op = "advance" /\ call' = Idle
  /\ IF InFlight THEN net.until > call.target ELSE Contenders = {}
  /\ net' = [net EXCEPT !.now = call.target]
  /\ bus' = IF \E n \in call.reader : bus[n].inbox # <<>>
            THEN Popped(CHOOSE n \in call.reader : TRUE) ELSE bus

(* And of the loop in drain(), which has no target.                        *)
DrainTurn ==
  /\ call.op = "drain"
  /\ \/ Complete(net.until) /\ UNCHANGED call
     \/ call.left > 0 /\ StartTransmission /\ call' = [call EXCEPT !.left = @ - 1]

DrainReturns ==
  /\ call.op = "drain" /\ ~InFlight /\ (call.left = 0 \/ Contenders = {})
  /\ call' = Idle /\ UNCHANGED <<net, bus>>

=============================================================================
