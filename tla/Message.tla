------------------------------- MODULE Message ------------------------------
(***************************************************************************)
(* What the bits of a signal mean: scaling, saturation, multiplexing role  *)
(* and value table; and messages: the signals in one payload, which of them *)
(* a frame carries when they are multiplexed, and how a frame is composed  *)
(* and read; and what a database of messages must satisfy.                 *)
(*                                                                         *)
(* A physical value is an integer, in the unit that makes the factor and   *)
(* the offset of the instance whole: the arithmetic of doubles is exact    *)
(* here.  NaN and the infinities are integers that no finite value reaches. *)
(* The two float formats are conversions of the processor.                 *)
(***************************************************************************)
EXTENDS BitField, Sequences

CONSTANTS
  Infinity, NaN,    \* the values that are not finite; minus infinity is -Infinity
  FloatOf(_, _),    \* the value of a word read as a float of that many bits
  FloatBits(_, _)   \* the bits of a value as a float of that many bits, the second
                    \* argument of both

ASSUME NonFinite == Infinity \in Nat /\ NaN > Infinity

IsFinite(v) == -Infinity < v /\ v < Infinity

Smaller(a, b) == IF a < b THEN a ELSE b
Larger(a, b) == IF a < b THEN b ELSE a
Abs(a) == IF a < 0 THEN -a ELSE a

(* Words as numbers, up to the 53 bits of which a double loses none, and   *)
(* back in two's complement.                                               *)
LowBits(w) ==
  LET sum[n \in 0..53] == IF n = 0 THEN 0
                          ELSE sum[n - 1] + (IF n - 1 \in w THEN 2^(n - 1) ELSE 0)
  IN  sum
NumberOf(w) == LowBits(w)[53]
BitsOf(n, len) == {k \in BitMask(len) : (n \div (2^k)) % 2 = 1}

SignExtend(w, len) == IF len - 1 \in w THEN NumberOf(w) - 2^len ELSE NumberOf(w)

(* std::round: half away from zero.                                        *)
RoundAway(n, d) == LET m == ((2 * Abs(n)) + Abs(d)) \div (2 * Abs(d))
                   IN  IF (n < 0) = (d < 0) THEN m ELSE -m

-----------------------------------------------------------------------------
FloatWidth == [Float32 |-> 32, Float64 |-> 64]
IsFloat(l) == l.type \in DOMAIN FloatWidth
HasRange(l) == l.min # 0 \/ l.max # 0

RawMinimum(l) == IF IsFloat(l) THEN 1 - Infinity ELSE IF l.signed THEN -(2^(l.length - 1)) ELSE 0
RawMaximum(l) == IF IsFloat(l) THEN Infinity - 1
                 ELSE IF l.signed THEN 2^(l.length - 1) - 1 ELSE 2^l.length - 1

(* The ends of what the encoding can reach; a negative factor swaps them.  *)
EndsOf(l) == {(r * l.factor) + l.offset : r \in {RawMinimum(l), RawMaximum(l)}}
PhysicalFloor(l) == CHOOSE e \in EndsOf(l) : \A f \in EndsOf(l) : e <= f
PhysicalCeiling(l) == CHOOSE e \in EndsOf(l) : \A f \in EndsOf(l) : f <= e
Resolution(l) == Abs(l.factor)

RawToPhysical(l, w) ==
  LET value == IF IsFloat(l) THEN FloatOf(w \cap BitMask(FloatWidth[l.type]), FloatWidth[l.type])
               ELSE IF l.signed THEN SignExtend(w, l.length)
               ELSE NumberOf(w)
  IN  (value * l.factor) + l.offset

(* Declared limits saturate whatever has an order.                         *)
Limited(l, v) ==
  IF HasRange(l) /\ v # NaN
  THEN Smaller(Larger(v, Smaller(l.min, l.max)), Larger(l.min, l.max)) ELSE v

(* The slip: out of range wraps.                                           *)
PhysicalToRawSlip(l, physical) ==
  LET v == Limited(l, physical)
      rounded == IF v = NaN THEN 0 ELSE RoundAway(v - l.offset, l.factor)
  IN  IF IsFloat(l)
      THEN FloatBits(IF v = NaN THEN NaN ELSE (v - l.offset) \div l.factor, FloatWidth[l.type])
      ELSE BitsOf(rounded, l.length)

PhysicalToRaw(l, physical) ==
  LET v == Limited(l, physical)
      rounded == IF v = NaN THEN 0 ELSE RoundAway(v - l.offset, l.factor)
      top == IF l.signed THEN 2^(l.length - 1) ELSE 2^l.length
  IN  IF IsFloat(l)
      THEN FloatBits(IF v = NaN THEN NaN ELSE (v - l.offset) \div l.factor, FloatWidth[l.type])
      ELSE IF rounded >= top THEN BitsOf(top - 1, l.length)
      ELSE IF l.signed /\ rounded < -top THEN BitsOf(-top, l.length)
      ELSE IF ~l.signed /\ rounded <= 0 THEN {}
      ELSE BitsOf(rounded, l.length)

-----------------------------------------------------------------------------
(* The check that is made once, when a database is built.                  *)
LayoutError(l, bytes) ==
  CASE l.length \notin 1..64                        -> "bad length"
    [] l.factor = 0 \/ ~IsFinite(l.factor)          -> "bad factor"
    [] ~IsFinite(l.offset)                          -> "bad factor"
    [] IsFloat(l) /\ l.length # FloatWidth[l.type]  -> "bad length"
    [] CanonicalEnd(l) > 8 * bytes                  -> "out of bounds"
    [] OTHER                                        -> "ok"

(* Signal::encode() into a frame of some size.                             *)
EncodeError(l, v, bytes) ==
  CASE ~Fits(l, bytes)                  -> "out of bounds"
    [] ~IsFinite(v) /\ ~IsFloat(l)      -> "not finite"
    [] OTHER                            -> "ok"

-----------------------------------------------------------------------------
(* Ranges, where there are any, come before the single value.              *)
IsPresentFor(s, mux) ==
  \/ s.role \notin {"Multiplexed", "Both"}
  \/ s.ranges # <<>> /\ \E i \in DOMAIN s.ranges : s.ranges[i].low <= mux /\ mux <= s.ranges[i].high
  \/ s.ranges = <<>> /\ mux = s.mux

NoText == ""
DescribeRaw(s, raw) ==
  LET matches == {i \in DOMAIN s.table : s.table[i].value = raw}
  IN  IF matches = {} THEN NoText
      ELSE s.table[CHOOSE i \in matches : \A j \in matches : i <= j].text

(* Not PhysicalToRaw, which saturates: out of range there is no text.      *)
Describe(s, physical) ==
  LET rounded == RoundAway(physical - s.layout.offset, s.layout.factor)
  IN  IF s.table = <<>> \/ ~IsFinite(physical)
         \/ rounded \notin RawMinimum(s.layout)..RawMaximum(s.layout)
      THEN NoText ELSE DescribeRaw(s, rounded)

-----------------------------------------------------------------------------
(* A message: its signals in one payload, which of them a frame carries    *)
(* when they are multiplexed, and how a frame is composed and read.        *)
NoName == ""
FrameCapacity == 8

(* The first signal of that name, 0 if there is none.                      *)
FindSignal(m, name) ==
  LET found == {i \in DOMAIN m.signals : m.signals[i].name = name}
  IN  IF found = {} THEN 0 ELSE CHOOSE i \in found : \A j \in found : i <= j

(* The root is the first multiplexor that no other one switches.           *)
Multiplexor(m) ==
  LET all == {i \in DOMAIN m.signals : m.signals[i].role = "Multiplexor"}
      roots == {i \in all : m.signals[i].switch = NoName}
      first(set) == CHOOSE i \in set : \A j \in set : i <= j
  IN  IF roots # {} THEN first(roots) ELSE IF all # {} THEN first(all) ELSE 0

IsMultiplexed(m) == \E i \in DOMAIN m.signals : m.signals[i].role # "None"

SwitchOf(m, i) == IF m.signals[i].switch = NoName THEN Multiplexor(m)
                                                  ELSE FindSignal(m, m.signals[i].switch)

PayloadSize(d) == IF DOMAIN d = {} THEN 0 ELSE 1 + (CHOOSE n \in DOMAIN d : \A k \in DOMAIN d : k <= n)

(* A multiplexor's value is cut to 32 bits.                                *)
SwitchValue(m, i, d) == NumberOf(DecodeRaw(m.signals[i].layout, d) \cap BitMask(32))

(* The chain of switches is walked upwards, and given up when it is too    *)
(* long to be anything but a cycle.                                        *)
MaxDepth == 8
(* The slip: a switch need not be there itself to select.                  *)
ActiveSignalsFlat(m, d) ==
  {i \in DOMAIN m.signals :
     \/ m.signals[i].role = "None" \/ (m.signals[i].role = "Multiplexor" /\ m.signals[i].switch = NoName)
     \/ LET sw == SwitchOf(m, i)
        IN  sw \notin {0, i} /\ Fits(m.signals[sw].layout, PayloadSize(d))
            /\ IsPresentFor(m.signals[i], SwitchValue(m, sw, d))}

ActiveSignals(m, d) ==
  LET always(s) == s.role = "None" \/ (s.role = "Multiplexor" /\ s.switch = NoName)
      selected(i) ==
        LET sw == SwitchOf(m, i)
        IN  Fits(m.signals[sw].layout, PayloadSize(d)) /\ IsPresentFor(m.signals[i], SwitchValue(m, sw, d))
      (* by how many steps may still be taken *)
      active[left \in 0..(MaxDepth + 1)] ==
        [i \in DOMAIN m.signals |->
           \/ always(m.signals[i])
           \/ /\ left > 0 /\ SwitchOf(m, i) \notin {0, i}
              /\ active[left - 1][SwitchOf(m, i)] /\ selected(i)]
  IN  {i \in DOMAIN m.signals : active[MaxDepth + 1][i]}

(* decode() lists them in the order of the message; what does not fit the  *)
(* payload that came is left out.                                          *)
Decoded(m, d) == {i \in ActiveSignals(m, d) : Fits(m.signals[i].layout, PayloadSize(d))}
RawOf(m, i, d) == DecodeRaw(m.signals[i].layout, d)
ValueOf(m, i, d) == RawToPhysical(m.signals[i].layout, RawOf(m, i, d))

-----------------------------------------------------------------------------
Encoded(m, i, v, d) == LET l == m.signals[i].layout IN EncodeRaw(l, PhysicalToRaw(l, v), d)

Empty(n) == [k \in 0..(n - 1) |-> {}]

(* Start values first, for the signals that have one and fit; then the     *)
(* named values in their order.  The first error ends it.                  *)
Writes(m, values) ==
  LET starts(i) == m.signals[i].start # NaN /\ Fits(m.signals[i].layout, m.dlc)
      started[n \in 0..Len(m.signals)] ==
        IF n = 0 THEN <<>>
        ELSE IF starts(n) THEN Append(started[n - 1], [at |-> n, value |-> m.signals[n].start])
        ELSE started[n - 1]
  IN  started[Len(m.signals)]
      \o [k \in DOMAIN values |-> [at |-> FindSignal(m, values[k].name), value |-> values[k].value]]

Encode(m, values) ==
  LET writes == Writes(m, values)
      status(w) == IF w.at = 0 THEN "unknown signal"
                   ELSE EncodeError(m.signals[w.at].layout, w.value, m.dlc)
      after[n \in 0..Len(writes)] ==
        IF n = 0 THEN [status |-> "ok", data |-> Empty(m.dlc)]
        ELSE IF after[n - 1].status # "ok" THEN after[n - 1]
        ELSE IF status(writes[n]) # "ok" THEN [after[n - 1] EXCEPT !.status = status(writes[n])]
        ELSE [after[n - 1] EXCEPT !.data = Encoded(m, writes[n].at, writes[n].value, @)]
  IN  IF m.dlc > FrameCapacity THEN [status |-> "too large", data |-> Empty(0)]
      ELSE after[Len(writes)]

-----------------------------------------------------------------------------
ValidateMessage(m) ==
  LET layouts == {LayoutError(m.signals[i].layout, m.dlc) : i \in DOMAIN m.signals}
      roots == {i \in DOMAIN m.signals :
                  m.signals[i].role = "Multiplexor" /\ m.signals[i].switch = NoName}
  IN  /\ m.dlc <= (IF m.fd THEN 64 ELSE 8)
      /\ layouts \subseteq {"ok"}
      /\ \A i, j \in DOMAIN m.signals : m.signals[i].name = m.signals[j].name => i = j
      /\ \A i, j \in roots : i = j

-----------------------------------------------------------------------------
(* The messages of a database: what makes it valid, and what lint() warns  *)
(* of.  A problem is a kind and what it is about.                          *)
NoTransmitter == {"", "Vector__XXX"}

Find(things, key(_), wanted) ==
  LET found == {i \in DOMAIN things : key(things[i]) = wanted}
  IN  IF found = {} THEN 0 ELSE CHOOSE i \in found : \A j \in found : i <= j
FindMessage(db, id) == Find(db.messages, LAMBDA m : m.id, id)

Distinct(things, key(_)) == \A i, j \in DOMAIN things : key(things[i]) = key(things[j]) => i = j

Validate(db) ==
  /\ \A i \in DOMAIN db.messages : ValidateMessage(db.messages[i])
  /\ Distinct(db.messages, LAMBDA m : m.id) /\ Distinct(db.messages, LAMBDA m : m.name)
  /\ Distinct(db.nodes, LAMBDA n : n.name)

-----------------------------------------------------------------------------
(* The bits of the payload that a signal occupies, up to the 64th byte.    *)
MarkedBits(l) ==
  {<<q \div 8, BitOf(q, l.order)>> :
     q \in {p \in CanonicalStart(l)..(CanonicalEnd(l) - 1) : p \div 8 < 64}}
Overlaps(a, b) == MarkedBits(a) \cap MarkedBits(b) # {}

MuxSeparated(a, b) ==
  /\ a.role = "Multiplexed" /\ b.role = "Multiplexed"
  /\ ~(IsPresentFor(a, b.mux) /\ IsPresentFor(b, a.mux))

OverlapProblems(m) ==
  LET pairs == {p \in (DOMAIN m.signals) \X (DOMAIN m.signals) : p[1] < p[2]}
      clash(a, b) == ~MuxSeparated(a, b) /\ Overlaps(a.layout, b.layout)
  IN  {<<"overlap", m.name, m.signals[p[1]].name, m.signals[p[2]].name>> :
         p \in {q \in pairs : clash(m.signals[q[1]], m.signals[q[2]])}}

SignalProblems(m) ==
  UNION {LET s == m.signals[i]
         IN  (IF Fits(s.layout, m.dlc) THEN {} ELSE {<<"does not fit", m.name, s.name>>})
             \cup (IF HasRange(s.layout) /\ s.layout.min > s.layout.max
                   THEN {<<"minimum above maximum", m.name, s.name>>} ELSE {})
         : i \in DOMAIN m.signals}

MessageProblems(m) ==
  (IF m.reserved THEN {<<"reserved identifier", m.name>>} ELSE {})
  \cup (IF m.transmitter \in NoTransmitter THEN {<<"no transmitter", m.name>>} ELSE {})
  \cup OverlapProblems(m) \cup SignalProblems(m)
  \cup (IF IsMultiplexed(m) /\ Multiplexor(m) = 0 THEN {<<"no multiplexor", m.name>>} ELSE {})

(* Whatever names an attribute nobody defined, by its owner's name.        *)
AttributeProblems(db) ==
  LET owners(things) == {things[i] : i \in DOMAIN things}
      signals == UNION {owners(db.messages[i].signals) : i \in DOMAIN db.messages}
      all == {[name |-> "the database", attributes |-> db.attributes]} \cup owners(db.nodes)
               \cup owners(db.messages) \cup signals
  IN  UNION {{<<"undefined attribute", o.name, a>> : a \in o.attributes \ db.definitions} : o \in all}

Lint(db) ==
  UNION {MessageProblems(db.messages[i]) : i \in DOMAIN db.messages} \cup AttributeProblems(db)
=============================================================================
