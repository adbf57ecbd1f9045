---------------------------- MODULE MCSimulator ----------------------------
(***************************************************************************)
(* Two nodes with four messages, six faults and a small vehicle.           *)
(***************************************************************************)
EXTENDS Simulator

MCSources ==
  <<[kind |-> "RandomWalk", start |-> 4, low |-> 0, high |-> 7, interval |-> 2,
     draws |-> [k \in 1..40 |-> ((3 * k) % 7) - 3]],
    [kind |-> "Square", low |-> 1, high |-> 3, period |-> 8, duty |-> 50],
    [kind |-> "Ramp", from |-> 0, to |-> 4, over |-> 4, mode |-> "PingPong"],
    [kind |-> "Combine", multiply |-> FALSE, parts |-> <<1, 3>>],
    [kind |-> "Clamped", inner |-> 4, low |-> 0, high |-> 6],
    [kind |-> "Keyframes", interpolate |-> TRUE,
     frames |-> <<[at |-> 6, value |-> 1], [at |-> 2, value |-> 5]>>],
    [kind |-> "Sine", amplitude |-> 2, offset |-> 3, phase |-> 0],
    [kind |-> "Affine", inner |-> 7, factor |-> 1, offset |-> 1],
    [kind |-> "Constant", value |-> 1],
    [kind |-> "Combine", multiply |-> TRUE, parts |-> <<8, 9>>]>>
MCSineWave == <<0, 1, 0, -1>>
MCJitter == <<1, -1, 0>>
MCLuck == <<TRUE, FALSE, TRUE, FALSE, FALSE>>
MCBitHit(message, n) ==   \* the lowest bit of a checksum, a middle one, one of no signal
  CASE message = "Speed" /\ n % 2 = 1 -> [signal |-> "checksum", weight |-> 1]
    [] message = "Gear" -> [signal |-> "gear", weight |-> 2]
    [] OTHER -> [signal |-> None, weight |-> 1]
MCRatios == <<3, 1>>

MCSignals == [Speed |-> {"value", "counter", "checksum"}, Door |-> {"state"},
              Wheel |-> {"turn", "counter"}, Gear |-> {"gear"}]
MCDeclared == [s \in {"value", "state", "turn", "gear"} |-> IF s = "state" THEN <<0, 3>> ELSE <<0, 7>>]

Bound(signal, source) == [signal |-> signal, source |-> source, field |-> None]
FromPlant(signal, field) == [signal |-> signal, source |-> 0, field |-> field]
Transmits(node, message, mode, cycle, jitter, phase) ==
  [node |-> node, message |-> message, mode |-> mode, cycle |-> cycle, jitter |-> jitter,
   phase |-> phase, counter |-> None, checksum |-> None, bindings |-> <<>>]

MCTx ==
  <<[Transmits("engine", "Speed", "Cyclic", 4, 0, 0) EXCEPT
       !.counter = "counter", !.checksum = "checksum", !.bindings = <<Bound("value", 5)>>],
    [Transmits("engine", "Gear", "Event", 4, 0, 0) EXCEPT !.bindings = <<FromPlant("gear", "gear")>>],
    [Transmits("body", "Door", "OnChange", 2, 0, 1) EXCEPT !.bindings = <<Bound("state", 2)>>],
    [Transmits("body", "Wheel", "Cyclic", 3, 1, 0) EXCEPT
       !.counter = "counter", !.bindings = <<Bound("turn", 10), FromPlant("turn", "speed"),
                                             Bound("turn", 6)>>]>>
MCNodes == <<"engine", "body">>
MCChecksum(data) == data["value"] + 3 * data["counter"]

AFault(kind, node, message, signal) ==
  [kind |-> kind, node |-> node, message |-> message, signal |-> signal, delay |-> 0,
   value |-> 0]
MCFaults ==
  <<AFault("StopNode", "body", None, None),
    [AFault("DelayMessage", None, "Speed", None) EXCEPT !.delay = 3],
    AFault("FreezeSignal", "engine", "Speed", "value"),
    [AFault("OutOfRange", None, "Door", "state") EXCEPT !.value = 9],
    AFault("BitFlip", "engine", None, None),
    AFault("DropFrames", None, None, None)>>

MCDrive == <<[at |-> 6, pedal |-> "gear", value |-> 2], [at |-> 1, pedal |-> "throttle", value |-> 120],
             [at |-> 9, pedal |-> "brake", value |-> 40]>>
=============================================================================
