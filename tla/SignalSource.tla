---------------------------- MODULE SignalSource ----------------------------
(***************************************************************************)
(* The generators that drive a signal: functions of the time, and random   *)
(* walks, which remember how far they have come.  Values are integers.     *)
(*                                                                         *)
(* A source that is built from others names them by their place in Sources *)
(* and comes after them.  The draws of a seeded generator are a sequence.  *)
(***************************************************************************)
EXTENDS Integers, Sequences, FiniteSets
LOCAL INSTANCE Functions

CONSTANTS Sources, SineWave

Least(a, b) == IF a < b THEN a ELSE b
Greatest(a, b) == IF a < b THEN b ELSE a
Clamp(v, low, high) == Greatest(low, Least(v, high))

Folded(Op(_, _), base, s) ==
  LET upTo[k \in 0..Len(s)] == IF k = 0 THEN base ELSE Op(upTo[k - 1], s[k])
  IN  upTo[Len(s)]

(* What a loop over a sequence of things with a time has passed when it    *)
(* stops at the first that is still to come.                               *)
Reached(s, t) ==
  CHOOSE n \in 0..Len(s) : /\ \A k \in 1..n : s[k].at <= t
                           /\ n < Len(s) => ~(s[n + 1].at <= t)

(* A stable sort by time.                                                  *)
Inserted(s, x) ==
  LET n == Reached(s, x.at)
  IN  Append(SubSeq(s, 1, n), x) \o SubSeq(s, n + 1, Len(s))
InOrderOfTime(s) == Folded(Inserted, <<>>, s)

-----------------------------------------------------------------------------
Ramp(s, t) ==
  LET over == Greatest(s.over, 1)
      phase == IF s.mode = "PingPong" /\ (t \div over) % 2 = 1
               THEN over - (t % over) ELSE t % over
  IN  IF s.mode = "Clamp" /\ t >= over THEN s.to
      ELSE s.from + (((s.to - s.from) * phase) \div over)

Sine(s, t) == s.offset + s.amplitude * SineWave[1 + ((t + s.phase) % Len(SineWave))]

Square(s, t) ==
  LET period == Greatest(s.period, 1)
  IN  IF (t % period) * 100 < Clamp(s.duty, 0, 100) * period THEN s.high ELSE s.low

Keyframe(frames, s, t) ==
  LET i == Reached(frames, t)
      a == frames[i]
      b == frames[i + 1]
  IN  IF frames = <<>> THEN 0
      ELSE IF t <= frames[1].at THEN frames[1].value
      ELSE IF t >= frames[Len(frames)].at THEN frames[Len(frames)].value
      ELSE IF ~s.interpolate THEN a.value
      ELSE a.value + (((b.value - a.value) * (t - a.at)) \div (b.at - a.at))
Keyframes(s, t) == Keyframe(InOrderOfTime(s.frames), s, t)

-----------------------------------------------------------------------------
(* Random walks, by their place in Sources.                                *)
Walks == {i \in DOMAIN Sources : Sources[i].kind = "RandomWalk"}

ASSUME WalksAreKnown == \A i \in Walks : Sources[i].interval \in Nat

FreshWalk(i) == [index |-> 0, value |-> Sources[i].start]
FreshWalks == [i \in Walks |-> FreshWalk(i)]

WalkedSlip(i, w, t) ==   \* one draw a call, however much time has passed
  LET s == Sources[i]
      want == t \div Greatest(s.interval, 1)
      from == IF want < w.index THEN FreshWalk(i) ELSE w
  IN  [index |-> want,
       value |-> IF want = from.index THEN from.value
                 ELSE Clamp(from.value + s.draws[want], s.low, s.high)]

Walked(i, w, t) ==
  LET s == Sources[i]
      want == t \div Greatest(s.interval, 1)
      from == IF want < w.index THEN FreshWalk(i) ELSE w
  IN  [index |-> want,
       value |-> Folded(LAMBDA v, k : Clamp(v + s.draws[k], s.low, s.high), from.value,
                          [k \in 1..(want - from.index) |-> from.index + k])]

Parts(s) == CASE s.kind = "Combine" -> s.parts
              [] s.kind \in {"Affine", "Clamped"} -> <<s.inner>>
              [] OTHER -> <<>>
WalksOf[i \in DOMAIN Sources] ==
  ({i} \cap Walks) \cup UNION {WalksOf[j] : j \in Range(Parts(Sources[i]))}

(* What sample() does to the walks, and what it returns.                   *)
AfterSample(i, walks, t) ==
  [w \in Walks |-> IF w \in WalksOf[i] THEN Walked(w, walks[w], t) ELSE walks[w]]

Sample(i, walks, t) ==
  LET value[j \in DOMAIN Sources] ==
        LET s == Sources[j]
        IN  CASE s.kind = "Constant" -> s.value
              [] s.kind = "Ramp" -> Ramp(s, t)
              [] s.kind = "Sine" -> Sine(s, t)
              [] s.kind = "Square" -> Square(s, t)
              [] s.kind = "Keyframes" -> Keyframes(s, t)
              [] s.kind = "RandomWalk" -> Walked(j, walks[j], t).value
              [] s.kind = "Combine" ->
                   Folded(LAMBDA acc, p : IF s.multiply THEN acc * value[p] ELSE acc + value[p],
                            IF s.multiply THEN 1 ELSE 0, s.parts)
              [] s.kind = "Affine" -> value[s.inner] * s.factor + s.offset
              [] s.kind = "Clamped" -> Clamp(value[s.inner], s.low, s.high)
  IN  value[i]

-----------------------------------------------------------------------------
(* The vehicle that drives the signals of a simulation.  It is integrated  *)
(* in steps of a fixed length whatever time each call brings; what is left *)
(* over waits for the next call.  Quantities are integers in units that    *)
(* make the coefficients small; the coefficients are the constants.        *)
CONSTANTS
  StepTime,       \* ticks in an integration step, 1 ms in the code
  GearRatios,     \* by gear, the final drive included
  PeakTorque, IdleRpm, MaxRpm, BrakeForce, Mass,
  Rolling,        \* resistance of the tyres while the vehicle moves
  Ambient

ASSUME VehicleIsBuilt ==
  /\ StepTime \in Nat \ {0} /\ GearRatios \in Seq(Int) /\ Mass \in Nat \ {0}
  /\ IdleRpm \in Nat /\ MaxRpm \in Nat
  /\ {PeakTorque, BrakeForce, Rolling, Ambient} \subseteq Int

FreshPlant == [throttle |-> 0, brake |-> 0, gear |-> 1, left |-> 0, steps |-> 0,
               rpm |-> IdleRpm, torque |-> 0, speed |-> 0, accel |-> 0, distance |-> 0,
               coolant |-> Ambient, fuel |-> 0]

SetThrottle(p, percent) == [p EXCEPT !.throttle = Clamp(percent, 0, 100)]
SetBrake(p, bar) == [p EXCEPT !.brake = Clamp(bar, 0, 150)]
SetGear(p, gear) == [p EXCEPT !.gear = Clamp(gear, 0, Len(GearRatios))]

(* Full torque across the middle, less below idle and above the peak.      *)
TorqueShape(rpm) ==
  LET low == (6 * IdleRpm) \div 10
      peak == (55 * MaxRpm) \div 100
  IN  IF rpm <= low THEN 55
      ELSE IF rpm <= peak THEN 55 + ((45 * (rpm - low)) \div (peak - low))
      ELSE Greatest(15, 100 - ((60 * (rpm - peak)) \div Greatest(1, MaxRpm - peak)))

Torque(p) ==
  ((PeakTorque * p.throttle * TorqueShape(p.rpm)) \div 10000)
    + (IF p.rpm < IdleRpm THEN (PeakTorque * (IdleRpm - p.rpm)) \div (4 * IdleRpm) ELSE 0)
    - (8 + (p.rpm \div 250))

(* Braking opposes the motion and never pushes the vehicle backwards.      *)
Accel(p, torque, ratio) ==
  LET net == torque * ratio - p.speed * p.speed
               - (IF p.speed > 0 THEN Rolling + BrakeForce * p.brake ELSE 0)
      accel == net \div Mass
  IN  IF p.speed <= 0 /\ accel < 0 THEN 0 ELSE accel

Integrate(p) ==
  LET inGear == p.gear \in 1..Len(GearRatios)
      ratio == IF inGear THEN GearRatios[p.gear] ELSE 0
      torque == Torque(p)
      accel == Accel(p, torque, ratio)
      speed == Greatest(0, p.speed + accel)
      rpm == IF inGear THEN p.rpm + ((Greatest(speed * ratio, IdleRpm) - p.rpm) \div 2)
             ELSE p.rpm + torque
      target == Ambient + 70 + (p.throttle \div 5)
  IN  [p EXCEPT !.torque = torque, !.accel = accel, !.speed = speed,
                !.distance = @ + speed, !.rpm = Clamp(rpm, 0, MaxRpm),
                !.coolant = @ + ((target - @) \div 8),
                !.fuel = 6 + Greatest(0, torque) * (Clamp(rpm, 0, MaxRpm) \div 100),
                !.steps = @ + 1]

StepPlantSlip(p, dt) ==   \* the time left over is not carried into the next step
  LET steps == dt \div StepTime
      run[n \in 0..steps] == IF n = 0 THEN p ELSE Integrate(run[n - 1])
  IN  run[steps]

StepPlant(p, dt) ==
  LET time == p.left + dt
      steps == time \div StepTime
      run[n \in 0..steps] == IF n = 0 THEN p ELSE Integrate(run[n - 1])
  IN  [run[steps] EXCEPT !.left = time % StepTime]

PlantFields == {"rpm", "speed", "gear", "throttle", "brake", "torque", "coolant", "fuel",
                "distance", "accel"}
=============================================================================
