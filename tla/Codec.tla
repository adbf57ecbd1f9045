------------------------------- MODULE Codec -------------------------------
(***************************************************************************)
(* A frame of one message of the database is composed, changed, received   *)
(* short, and read.  meant holds, by signal, the value last written there  *)
(* of those whose bits nothing else has written since.                     *)
(***************************************************************************)
EXTENDS Message

CONSTANTS Messages,        \* the messages a frame may be of
          Values(_),       \* by layout the values that are encoded
          RawWords(_),     \* by layout the words that are encoded
          Compositions(_), \* by message the named values that encode() is given
          Backgrounds(_)   \* by message the payloads a received frame may have

(* What the parser makes of a message: a list of signals, whose layouts    *)
(* have any numbers and one of two byte orders.  What a caller has to      *)
(* encode is a list, and what a bus delivers is at most 64 bytes.          *)
ASSUME MessagesAreBuilt ==
  \A m \in Messages :
    /\ DOMAIN m.signals = 1..Len(m.signals) /\ m.dlc \in 0..64
    /\ \A i \in DOMAIN m.signals :
         m.signals[i].layout.start \in Nat /\ m.signals[i].layout.order \in ByteOrder
    /\ \A values \in Compositions(m) : values \in Seq({values[k] : k \in DOMAIN values})
    /\ \A d \in Backgrounds(m) : \E n \in 0..64 : d \in Payload(n)

VARIABLES message, frame, meant

codecVars == <<message, frame, meant>>

SignalsOf(m) == DOMAIN m.signals
LayoutOf(i) == message.signals[i].layout
Fitting == {i \in SignalsOf(message) : Fits(LayoutOf(i), PayloadSize(frame))}

CodecInit ==
  /\ message \in Messages
  /\ frame \in Backgrounds(message)
  /\ meant = [i \in {} |-> 0]

(* Writing signal i puts an end to what was meant by those it overlaps.    *)
Noted(m, old, i, v) ==
  [j \in {i} \cup {j \in DOMAIN old : ~Overlaps(m.signals[i].layout, m.signals[j].layout)} |->
     IF j = i THEN v ELSE old[j]]

NotedAll(m, writes) ==
  LET after[n \in 0..Len(writes)] ==
        IF n = 0 THEN [i \in {} |-> 0]
        ELSE Noted(m, after[n - 1], writes[n].at, writes[n].value)
  IN  after[Len(writes)]

Compose(values) ==
  LET result == Encode(message, values)
  IN  /\ result.status = "ok"
      /\ frame' = result.data
      /\ meant' = NotedAll(message, Writes(message, values))
      /\ UNCHANGED message

(* Signal::encode() into the frame.                                        *)
Update(i, v) ==
  /\ EncodeError(LayoutOf(i), v, PayloadSize(frame)) = "ok"
  /\ frame' = Encoded(message, i, v, frame)
  /\ meant' = Noted(message, meant, i, v)
  /\ UNCHANGED message

(* SignalLayout::encode_raw() into the frame.                              *)
UpdateRaw(i, w) ==
  /\ i \in Fitting
  /\ frame' = EncodeRaw(LayoutOf(i), w, frame)
  /\ meant' = [j \in {j \in DOMAIN meant : ~Overlaps(LayoutOf(i), LayoutOf(j))} |-> meant[j]]
  /\ UNCHANGED message

(* The same frame arrives with fewer bytes.                                *)
Shorten(n) ==
  /\ n < PayloadSize(frame)
  /\ frame' = [k \in 0..(n - 1) |-> frame[k]]
  /\ meant' = [i \in {i \in DOMAIN meant : Fits(LayoutOf(i), n)} |-> meant[i]]
  /\ UNCHANGED message

CodecNext ==
  \/ \E values \in Compositions(message) : Compose(values)
  \/ \E i \in SignalsOf(message) : \E v \in Values(LayoutOf(i)) : Update(i, v)
  \/ \E i \in SignalsOf(message) : \E w \in RawWords(LayoutOf(i)) : UpdateRaw(i, w)
  \/ \E n \in 0..(PayloadSize(frame) - 1) : Shorten(n)

CodecSpec == CodecInit /\ [][CodecNext]_codecVars

-----------------------------------------------------------------------------
(* Type invariant.                                                         *)
CodecTypeOK == PayloadSize(frame) \in 0..64 /\ frame \in Payload(PayloadSize(frame)) /\ DOMAIN meant \subseteq Fitting

(* The fast path, eight bytes at a time and a ninth where the signal       *)
(* reaches into it, reads and writes what the definition does, one bit at  *)
(* a time (extract_intel(), insert_motorola() and their siblings against   *)
(* decode_raw_reference(), encode_raw_reference()).                        *)
FastPathIsTheDefinition ==
  \A i \in Fitting :
    /\ DecodeRaw(LayoutOf(i), frame) = DecodeRawReference(LayoutOf(i), frame)
    /\ \A w \in RawWords(LayoutOf(i)) :
         EncodeRaw(LayoutOf(i), w, frame) = EncodeRawReference(LayoutOf(i), w, frame)

(* Whatever else has been written into the frame since, in other bits of   *)
(* the same bytes, and however short the frame became, a signal reads as   *)
(* the value written, limited to its declared range and its width, within  *)
(* half a raw step: it never wraps, but where a bound of the declared      *)
(* range is no multiple of the step, rounding may go beyond it by up to    *)
(* half a step (physical_to_raw(), encode()).                              *)
SignalsKeepTheirValues ==
  \A i \in DOMAIN meant :
    LET l == LayoutOf(i)
        limited == Limited(l, meant[i])
        reached == IF IsFloat(l) THEN limited
                   ELSE Smaller(Larger(limited, PhysicalFloor(l)), PhysicalCeiling(l))
        got == ValueOf(message, i, frame)
    IN  IF meant[i] = NaN THEN got = NaN ELSE 2 * Abs(got - reached) <= Resolution(l)

(* The active signals are the least set that holds the signals that are    *)
(* always there and those that an active switch selects: nothing inside a  *)
(* group that an outer switch has put out, nothing out of a cycle          *)
(* (is_signal_active()).                                                   *)
ActiveSignalsAreSelected ==
  LET selected(set) ==
        {i \in SignalsOf(message) :
           \/ message.signals[i].role = "None"
           \/ message.signals[i].role = "Multiplexor" /\ message.signals[i].switch = NoName
           \/ LET sw == SwitchOf(message, i)
              IN  sw \in set \cap Fitting /\ IsPresentFor(message.signals[i], SwitchValue(message, sw, frame))}
      active == ActiveSignals(message, frame)
  IN  /\ selected(active) = active
      /\ \A set \in SUBSET active : selected(set) = set => set = active

(* A short frame loses signals and makes up none: what is still decoded    *)
(* reads as before (for_each_active_signal(), fits()).                     *)
ShortFramesLoseOnly ==
  \A n \in 0..(PayloadSize(frame) - 1) :
    LET short == [k \in 0..(n - 1) |-> frame[k]]
    IN  \A i \in Decoded(message, short) :
          i \in Decoded(message, frame) /\ RawOf(message, i, short) = RawOf(message, i, frame)

(* A value has the text of the raw value nearest to it, and none when the  *)
(* width cannot hold that (describe(), describe_raw()).                    *)
DescribedAsEncoded ==
  \A i \in {j \in SignalsOf(message) : message.signals[j].table # <<>>} :
    LET s == message.signals[i]
        l == s.layout
        distance(r, v) == 2 * Abs(((r * l.factor) + l.offset) - v)
        raws == RawMinimum(l)..RawMaximum(l)
    IN  \A v \in {u \in Values(l) : IsFinite(u)} :
          /\ \A r \in raws : distance(r, v) < Resolution(l) => Describe(s, v) = DescribeRaw(s, r)
          /\ Describe(s, v) # NoText =>
               \E r \in raws : distance(r, v) <= Resolution(l) /\ Describe(s, v) = DescribeRaw(s, r)

(* No frame decodes two signals out of the same bits, of a message that    *)
(* validate() takes and about which lint() is silent.                      *)
SharedBitsAreReported ==
  LET db == [messages |-> <<message>>, nodes |-> <<>>, attributes |-> {}, definitions |-> {}]
  IN  Validate(db) /\ Lint(db) = {} =>
        \A i, j \in Decoded(message, frame) : i # j => ~Overlaps(LayoutOf(i), LayoutOf(j))

(* lint() reports every overlap ("Every problem found, not just the        *)
(* first"): where each group of signals goes by a single value of the only *)
(* switch of the message, no frame decodes two signals out of the same     *)
(* bits and lint() is silent (mux_separated(), active_signals()).          *)
GroupsKeepApart ==
  (\A i \in SignalsOf(message) : message.signals[i].ranges = <<>> /\ message.signals[i].switch = NoName)
    => SharedBitsAreReported

(* How far up is_signal_active() asks, MaxDepth switches and no more,      *)
(* matters to no message whose chains of switches end sooner or go round:  *)
(* a level to every signal, above that of its switch, or out of reach.     *)
ChainsAreShort(m) ==
  LET always(i) == \/ m.signals[i].role = "None"
                   \/ m.signals[i].role = "Multiplexor" /\ m.signals[i].switch = NoName
  IN  \E level \in [DOMAIN m.signals -> 0..(MaxDepth + 2)] : \A i \in DOMAIN m.signals :
        \/ always(i) /\ level[i] = 0
        \/ SwitchOf(m, i) \in {0, i} /\ ~always(i)
        \/ /\ ~always(i) /\ SwitchOf(m, i) \in DOMAIN m.signals
           /\ \/ level[SwitchOf(m, i)] < level[i] /\ level[i] <= MaxDepth + 1
              \/ level[SwitchOf(m, i)] = MaxDepth + 2 /\ level[i] = MaxDepth + 2

(* The arithmetic of doubles is exact for what is written: a word of an    *)
(* integer signal has no more bits than a double has digits, and a float   *)
(* format holds the number it is given.                                    *)
IsExact(l, v) ==
  LET limited == Limited(l, v)
      number == IF limited = NaN THEN NaN ELSE (limited - l.offset) \div l.factor
      width == FloatWidth[l.type]
      bits == FloatBits(number, width)
  IN  /\ v \in Int /\ l.factor \in Int \ {0} /\ l.offset \in Int
      /\ l.min \in Int \ {NaN} /\ l.max \in Int \ {NaN}
      /\ IF IsFloat(l)
         THEN /\ l.length = width /\ bits \in Word /\ FloatOf(bits \cap BitMask(width), width) = number
              /\ (number * l.factor) + l.offset = limited
         ELSE l.length \in 1..53

ValuesAreExact(m) ==
  \A i \in DOMAIN m.signals :
    LET s == m.signals[i]
    IN  /\ \A v \in Values(s.layout) : IsExact(s.layout, v)
        /\ s.start # NaN => IsExact(s.layout, s.start)
        /\ \A values \in Compositions(m) : \A k \in DOMAIN values :
             FindSignal(m, values[k].name) = i => IsExact(s.layout, values[k].value)

(* Values survive, as numbers and as texts (encode(), describe()).         *)
ValuesSurvive == SignalsKeepTheirValues /\ DescribedAsEncoded

(* A frame decodes to the signals that its switches and its length leave,  *)
(* and no bit is read twice (active_signals(), fits(), lint()).            *)
MultiplexingIsExact == ActiveSignalsAreSelected /\ ShortFramesLoseOnly /\ GroupsKeepApart
=============================================================================
