------------------------------- MODULE Faults -------------------------------
(***************************************************************************)
(* The faults of a simulation.  Each frame a node produces passes through  *)
(* the active ones in the order they were added, and leaves as no frame or *)
(* as one that is due at once or later.                                    *)
(*                                                                         *)
(* A frame is its message, the value of each signal on the wire, and its   *)
(* number.  Sampling the seeded generator takes the next entry of Luck.    *)
(***************************************************************************)
EXTENDS SignalSource

CONSTANTS
  FaultList,   \* a sequence of records, a fault each
  Luck,        \* whether the n-th draw is below the probability
  BitHit(_, _),  \* the bit of a message that the n-th draw hits, as the signal it
               \* belongs to, or None, and its weight there
  RawModulus,  \* values a signal's bits can hold
  Declared     \* the lowest and highest value of a signal

ASSUME FaultsAreKnown ==
  /\ RawModulus \in Nat \ {0, 1}
  /\ Len(FaultList) \in Nat /\ DOMAIN FaultList = 1..Len(FaultList)
  /\ \A f \in DOMAIN FaultList :
       /\ FaultList[f].kind \in {"StopNode", "DropFrames", "DelayMessage", "FreezeSignal",
                                "OutOfRange", "BitFlip"}
       /\ FaultList[f].delay \in Nat

None == "none"

Encoded(signal, value) == Clamp(value, Declared[signal][1], Declared[signal][2])

FaultInit == [active |-> [f \in DOMAIN FaultList |-> FALSE], frozen |-> <<>>, draws |-> 0,
              dropped |-> 0, delayed |-> 0, corrupted |-> 0]

(* dropped and its like are never set back, nor is a fault switched off.   *)
FaultReset(f) == [f EXCEPT !.frozen = <<>>, !.draws = 0]

AppliesTo(f, node, message) ==
  /\ FaultList[f].node \in {None, node}
  /\ FaultList[f].message \in {None, message}

NodeStopped(faults, node) ==
  \E f \in DOMAIN FaultList :
    faults.active[f] /\ FaultList[f].kind = "StopNode" /\ FaultList[f].node \in {None, node}

(* w is the frame under way: when it is due, what it holds, the injector.  *)
Lucky(w) == Luck[1 + (w.faults.draws % Len(Luck))]
Drawn(w) == [w EXCEPT !.faults.draws = @ + 1]

DropFrameSlip(w) ==   \* not counted
  IF Lucky(w) THEN [Drawn(w) EXCEPT !.gone = TRUE] ELSE Drawn(w)

DropFrame(w) ==
  IF Lucky(w) THEN [Drawn(w) EXCEPT !.gone = TRUE, !.faults.dropped = @ + 1] ELSE Drawn(w)

DelayFrame(w, f) == [w EXCEPT !.due = @ + FaultList[f].delay, !.faults.delayed = @ + 1]

(* The slot keeps the first value it captures.                             *)
FreezeSignalSlip(w, f) ==   \* captures the value of each frame
  LET signal == FaultList[f].signal
      slot == <<w.frame.message, signal>>
      frozen == w.faults.frozen
  IN  IF signal \notin DOMAIN w.frame.data THEN w
      ELSE [w EXCEPT !.faults.frozen = [s \in DOMAIN frozen \cup {slot} |->
                                          IF s = slot THEN w.frame.data[signal] ELSE frozen[s]]]

FreezeSignal(w, f) ==
  LET signal == FaultList[f].signal
      slot == <<w.frame.message, signal>>
      frozen == w.faults.frozen
      value == IF slot \in DOMAIN frozen THEN frozen[slot] ELSE w.frame.data[signal]
  IN  IF signal \notin DOMAIN w.frame.data THEN w
      ELSE [w EXCEPT !.frame.data[signal] = Encoded(signal, value),
                     !.faults.frozen = [s \in DOMAIN frozen \cup {slot} |->
                                          IF s = slot THEN value ELSE frozen[s]]]

(* Without its declared range a signal still saturates to its bits.        *)
OutOfRange(w, f) ==
  IF FaultList[f].signal \notin DOMAIN w.frame.data THEN w
  ELSE [w EXCEPT !.frame.data[FaultList[f].signal] = Clamp(FaultList[f].value, 0, RawModulus - 1)]

(* Two draws: whether, and which bit of the payload.                       *)
Flipped(value, weight) == IF (value \div weight) % 2 = 0 THEN value + weight ELSE value - weight

BitFlip(w) ==
  LET hit == BitHit(w.frame.message, w.faults.draws + 1)
      struck == [Drawn(Drawn(w)) EXCEPT !.faults.corrupted = @ + 1]
  IN  IF ~Lucky(w) THEN Drawn(w)
      ELSE IF hit.signal \notin DOMAIN w.frame.data THEN struck
      ELSE [struck EXCEPT !.frame.data[hit.signal] = Flipped(@, hit.weight)]

Apply(w, f, node) ==
  IF w.gone \/ ~w.faults.active[f] \/ ~AppliesTo(f, node, w.frame.message) THEN w
  ELSE CASE FaultList[f].kind = "StopNode" -> w
         [] FaultList[f].kind = "DropFrames" -> DropFrame(w)
         [] FaultList[f].kind = "DelayMessage" -> DelayFrame(w, f)
         [] FaultList[f].kind = "FreezeSignal" -> FreezeSignal(w, f)
         [] FaultList[f].kind = "OutOfRange" -> OutOfRange(w, f)
         [] FaultList[f].kind = "BitFlip" -> BitFlip(w)

Process(faults, node, frame, now) ==
  LET w == [due |-> now, frame |-> frame, gone |-> FALSE, faults |-> faults]
  IN  IF NodeStopped(faults, node)
      THEN [w EXCEPT !.gone = TRUE, !.faults.dropped = @ + 1]
      ELSE Folded(LAMBDA v, f : Apply(v, f, node), w, [f \in DOMAIN FaultList |-> f])
=============================================================================
