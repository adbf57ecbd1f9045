------------------------------ MODULE Simulator -----------------------------
(***************************************************************************)
(* The simulation: a step moves the vehicle, lets every node produce what  *)
(* is due, passes it through the faults and releases what has become due.  *)
(***************************************************************************)
EXTENDS Ecu

CONSTANT Drive   \* the drive events: a time and what the driver does

ASSUME SimulationIsBuilt ==
  /\ Len(TxList) \in Nat /\ DOMAIN TxList = 1..Len(TxList)
  /\ Drive \in Seq([at : Nat, pedal : {"throttle", "brake", "gear"}, value : Int])
  /\ \A i \in DOMAIN TxList :
       /\ TxList[i].node \in Nodes
       /\ {TxList[i].counter, TxList[i].checksum} \subseteq SignalsOf[TxList[i].message] \cup {None}
       /\ \A b \in DOMAIN TxList[i].bindings :
            TxList[i].bindings[b].signal \in SignalsOf[TxList[i].message]

VARIABLES
  sim,  \* the members of Simulator, its nodes and its faults
  out   \* what the last step returned

simVars == <<sim, out>>

FreshSim == [pending |-> <<>>, drive |-> 0, produced |-> 0, last |-> 0, started |-> FALSE,
             plant |-> FreshPlant, ecus |-> EcuInit, faults |-> FaultInit, made |-> <<>>]

SimInit == sim = FreshSim /\ out = <<>>

SortedDrive == InOrderOfTime(Drive)

Driven(p, e) ==
  CASE e.pedal = "throttle" -> SetThrottle(p, e.value)
    [] e.pedal = "brake" -> SetBrake(p, e.value)
    [] e.pedal = "gear" -> SetGear(p, e.value)

ApplyDrive(now) ==
  LET reached == Reached(SortedDrive, now)
      events == SubSeq(SortedDrive, sim.drive + 1, reached)
  IN  [plant |-> Folded(Driven, sim.plant, events), next |-> Greatest(sim.drive, reached)]

(* s gathers what a step produces; a frame that survives the faults waits  *)
(* for its time.  nr tells one frame from another, and made, for the       *)
(* properties alone, remembers each as it was before the faults saw it.    *)
Collected(s, i, did, now) ==
  LET w == Process(s.faults, TxList[i].node, did.frames[1], now)
      nr == s.produced + 1
  IN  IF did.frames = <<>> THEN [s EXCEPT !.ecus = did.ecus]
      ELSE [s EXCEPT !.ecus = did.ecus, !.produced = nr, !.faults = w.faults,
                     !.made = Append(@, [of |-> i, at |-> now, data |-> did.frames[1].data]),
                     !.pending = IF w.gone THEN @
                                 ELSE Append(@, [at |-> w.due, nr |-> nr, of |-> i,
                                                 data |-> w.frame.data])]
Produce(s, i, plant, now) == Collected(s, i, StepMessage(i, s.ecus, plant, now), now)
AllProduced(s, plant, now) ==
  Folded(LAMBDA r, i : Produce(r, i, plant, now), s, [i \in DOMAIN TxList |-> i])

Step(now) ==
  LET since == IF sim.started THEN sim.last ELSE now
      dt == Greatest(0, now - since)
      driven == ApplyDrive(now)
      plant == IF HasPlant /\ dt # 0 THEN StepPlant(driven.plant, dt) ELSE driven.plant
      begun == [sim EXCEPT !.started = TRUE, !.last = now, !.drive = driven.next, !.plant = plant]
      made == AllProduced(begun, plant, now)
      sorted == InOrderOfTime(made.pending)
      due == Reached(sorted, now)
  IN  /\ sim' = [made EXCEPT !.pending = SubSeq(sorted, due + 1, Len(sorted))]
      /\ out' = SubSeq(sorted, 1, due)

Reset ==
  /\ sim' = [FreshSim EXCEPT
               !.ecus = [EcuReset(sim.ecus, 0) EXCEPT !.running = [n \in DOMAIN @ |-> TRUE]],
               !.plant = IF HasPlant THEN @ ELSE sim.plant,
               !.faults = FaultReset(sim.faults)]
  /\ UNCHANGED out

Trigger(n, message) == sim' = [sim EXCEPT !.ecus = Triggered(@, n, message)] /\ UNCHANGED out
SetRunning(n, on) == sim' = [sim EXCEPT !.ecus.running[n] = on] /\ UNCHANGED out
SetActive(f, on) == sim' = [sim EXCEPT !.faults.active[f] = on] /\ UNCHANGED out
Toggle(f) == sim' = [sim EXCEPT !.faults.active[f] = ~@] /\ UNCHANGED out

-----------------------------------------------------------------------------
(* A program that steps a simulation, at its own pace, and a person who    *)
(* switches faults and nodes between the steps.  watch keeps, since the    *)
(* last reset, what came out, and in fine a vehicle that is moved moment   *)
(* by moment, with the same orders at the beginning of the same steps.     *)
CONSTANTS Paces,                  \* time from one step to the next
          MaxSteps, MaxCommands   \* bounds

ASSUME WatchBounds == Paces \subseteq Nat /\ MaxSteps \in Nat /\ MaxCommands \in Nat

VARIABLE watch

vars == <<sim, out, watch>>

FreshWatch == [now |-> 0, first |-> 0, released |-> <<>>, dropped |-> 0,
               fine |-> FreshPlant, steps |-> 0, commands |-> 0]

Init == SimInit /\ watch = FreshWatch

EventsBetween(before, now) ==
  SubSeq(SortedDrive, Reached(SortedDrive, before) + 1, Reached(SortedDrive, now))

Moment(p, k) == StepPlant(p, 1)
MomentByMoment(p, n) == Folded(Moment, p, [k \in 1..n |-> k])

StepBy(pace) ==
  LET now == IF sim.started THEN watch.now + pace ELSE watch.now
      before == IF sim.started THEN watch.now ELSE -1
  IN  /\ watch.steps < MaxSteps
      /\ Step(now)
      /\ watch' = [watch EXCEPT
           !.now = now, !.steps = @ + 1,
           !.first = IF sim.started THEN @ ELSE now,
           !.fine = MomentByMoment(Folded(Driven, @, EventsBetween(before, now)),
                                   IF sim.started THEN pace ELSE 0),
           !.released = @ \o [k \in DOMAIN out' |-> [frame |-> out'[k], time |-> now, before |-> before]]]

(* A reset, with the time that the program begins with again.              *)
Restart(now) ==
  /\ Reset
  /\ watch' = [FreshWatch EXCEPT !.now = now, !.dropped = sim.faults.dropped,
                                 !.steps = watch.steps, !.commands = watch.commands + 1]

Command(act) == act /\ watch' = [watch EXCEPT !.commands = @ + 1]

Next ==
  \/ \E pace \in Paces : StepBy(pace)
  \/ /\ watch.commands < MaxCommands
     /\ \/ sim.started /\ Restart(0)
        \/ \E n \in DOMAIN sim.ecus.running :
             \/ Command(SetRunning(n, ~sim.ecus.running[n]))
             \/ \E i \in DOMAIN TxList : TxList[i].mode = "Event"
                                         /\ Command(Trigger(n, TxList[i].message))
        \/ \E f \in DOMAIN FaultList : sim.faults.active[f] /\ Command(Toggle(f))
        \/ \E f \in DOMAIN FaultList : ~sim.faults.active[f] /\ Command(SetActive(f, TRUE))

Spec == Init /\ [][Next]_vars

-----------------------------------------------------------------------------
Released(nr) == {k \in DOMAIN watch.released : watch.released[k].frame.nr = nr}
Waiting(nr) == {k \in DOMAIN sim.pending : sim.pending[k].nr = nr}

(* Type invariant: pending frames are in the future and in order, and the  *)
(* vehicle moves forwards at a speed its engine can turn.                  *)
SimTypeOK ==
  /\ \A k \in DOMAIN sim.pending :
       sim.pending[k].at > sim.last /\ (k > 1 => sim.pending[k-1].at <= sim.pending[k].at)
  /\ sim.drive \in 0..Len(Drive)
  /\ sim.plant.rpm \in 0..Greatest(IdleRpm, MaxRpm) /\ sim.plant.speed \in Nat
  /\ sim.plant.left \in 0..(StepTime - 1)
  /\ DOMAIN sim.ecus.tx = DOMAIN TxList /\ sim.faults.draws \in Nat

(* Frames leave in the order of their times, those of one time in the      *)
(* order they were produced, and each with the first step that reaches its *)
(* time, or the one that produced it (Simulator::step(), the stable sort   *)
(* and the release).                                                       *)
LeavesInTimeOrder ==
  /\ \A k \in DOMAIN watch.released :
       LET r == watch.released[k]
       IN  /\ r.frame.at <= r.time
           /\ r.before < r.frame.at \/ sim.made[r.frame.nr].at = r.time
  /\ \A j, k \in DOMAIN watch.released : j < k =>
       LET f == watch.released[j].frame
           g == watch.released[k].frame
       IN  f.at < g.at \/ (f.at = g.at /\ f.nr < g.nr)

(* Every frame produced has been released once, waits for its time, or is  *)
(* counted as dropped (step(), process(), dropped()).                      *)
EveryFrameIsAccountedFor ==
  LET gone == {nr \in 1..sim.produced : Released(nr) = {} /\ Waiting(nr) = {}}
  IN  /\ sim.produced = Len(sim.made)
      /\ sim.faults.dropped - watch.dropped = Cardinality(gone)
      /\ \A nr \in 1..sim.produced : Cardinality(Released(nr)) + Cardinality(Waiting(nr)) <= 1

(* What is produced leaves once, at its time and in its turn (step()).     *)
LeavesOnceAndInOrder == SimTypeOK /\ LeavesInTimeOrder /\ EveryFrameIsAccountedFor

(* However coarse the steps, a cyclic message never goes out in a burst to *)
(* catch up: if c more of it go out between two, these two are more than c *)
(* cycle times apart (Ecu::step(), the skip forward).  A cycle of 0 means  *)
(* every step.                                                             *)
Between(made, i, j, k) == Cardinality({nr \in (j + 1)..(k - 1) : made[nr].of = i})
NoBurst ==
  \A i \in DOMAIN TxList : TxList[i].mode = "Cyclic" /\ TxList[i].jitter = 0 /\ TxList[i].cycle > 0 =>
    \A j, k \in DOMAIN sim.made : j < k /\ sim.made[j].of = i /\ sim.made[k].of = i =>
      Between(sim.made, i, j, k) * TxList[i].cycle < sim.made[k].at - sim.made[j].at

(* And it never falls silent: a message is due again within a cycle and    *)
(* the jitter of the last step that its node ran in.                       *)
DueWithinACycle ==
  \A i \in DOMAIN TxList :
    LET tx == TxList[i]
    IN  sim.started /\ tx.mode # "Event" =>
          sim.ecus.tx[i].due <= sim.last + Greatest(tx.phase, tx.cycle + tx.jitter)

(* A cyclic message keeps its cycle: neither in a burst nor falling silent *)
(* (Ecu::step()).                                                          *)
KeepsItsCycle == NoBurst /\ DueWithinACycle

(* A receiver can rely on counter and checksum: in a frame that no fault   *)
(* has altered the counter tells how many of this message came before,     *)
(* those that were dropped or are late included, and the checksum covers   *)
(* the counter (Ecu::build()).                                             *)
CounterAndChecksumHold ==
  \A k \in DOMAIN watch.released :
    LET f == watch.released[k].frame
        tx == TxList[f.of]
        earlier == {nr \in 1..(f.nr - 1) : sim.made[nr].of = f.of}
    IN  f.data = sim.made[f.nr].data =>
          /\ tx.counter # None => f.data[tx.counter] = Cardinality(earlier) % RawModulus
          /\ tx.checksum # None =>
               f.data[tx.checksum] = ChecksumOf([f.data EXCEPT ![tx.checksum] = 0]) % RawModulus

(* A reset simulation replays: nodes, generators, vehicle and queues are   *)
(* those of a new one; only the switches of the faults and their counts    *)
(* stay, and a vehicle that no node looks at (Simulator::reset(),          *)
(* Ecu::reset()).                                                          *)
ResetReplays ==
  [][sim.started /\ ~sim'.started =>
       sim' = [FreshSim EXCEPT !.plant = IF HasPlant THEN @ ELSE sim.plant,
                               !.faults = [FaultInit EXCEPT
                                 !.active = sim.faults.active, !.dropped = sim.faults.dropped,
                                 !.delayed = sim.faults.delayed,
                                 !.corrupted = sim.faults.corrupted]]]_vars

(* Stepped coarsely or finely, a random walk comes by the same values: they*)
(* depend on the time alone (RandomWalk::sample()).                        *)
WalkDependsOnTimeOnly ==
  \A w \in Walks :
    LET at == sim.ecus.walks[w]
    IN  at = Walked(w, FreshWalk(w), at.index * Greatest(Sources[w].interval, 1))

(* No time is lost between the integration steps of the vehicle, whatever  *)
(* the pace of the simulation (Vehicle::step(), leftover_ns_).             *)
VehicleLosesNoTime ==
  HasPlant => sim.plant.steps * StepTime + sim.plant.left = watch.now - watch.first \/ ~sim.started

(* The vehicle is the one that is moved moment by moment: nothing is lost  *)
(* between integration steps, and each of the driver's events arrives once *)
(* and in its turn.  It does depend on the pace in one way, which fine     *)
(* shares: an event takes hold at the beginning of the step that reaches   *)
(* it, before the time it is for (Simulator::step(), leftover_ns_).        *)
VehicleIsAsAtTheFinestPace == HasPlant => sim.plant = watch.fine

(* How finely the simulation is stepped makes no difference to a random    *)
(* walk, and to the vehicle none but for when the driver is obeyed.        *)
OnlyTheDriverFeelsThePace ==
  WalkDependsOnTimeOnly /\ VehicleLosesNoTime /\ VehicleIsAsAtTheFinestPace

(* While a freeze fault that nothing else interferes with is on, every     *)
(* frame a step produces carries one value, the captured one as it can be  *)
(* encoded, whether it leaves with that step or waits.  And the captured   *)
(* value is kept until the reset, also while the fault is switched off     *)
(* (process(), FreezeSignal; frozen_slot()).                               *)
Freezes(f, i) ==
  /\ FaultList[f].kind = "FreezeSignal" /\ AppliesTo(f, TxList[i].node, TxList[i].message)
  /\ FaultList[f].signal \in SignalsOf[TxList[i].message]
  /\ \A g \in DOMAIN FaultList : FaultList[g].kind \in {"OutOfRange", "BitFlip"} => ~sim.faults.active[g]

SlotOf(f, i) == <<TxList[i].message, FaultList[f].signal>>
CarriesTheCaptured(frame, f, i) ==
  /\ SlotOf(f, i) \in DOMAIN sim.faults.frozen
  /\ frame.data[FaultList[f].signal]
       = Encoded(FaultList[f].signal, sim.faults.frozen[SlotOf(f, i)])
Frames == {sim.pending[k] : k \in DOMAIN sim.pending}
            \cup {watch.released[k].frame : k \in DOMAIN watch.released}

FrozenSignalsStay ==
  /\ [][sim'.started =>
         \A slot \in DOMAIN sim.faults.frozen :
           /\ slot \in DOMAIN sim'.faults.frozen
           /\ sim'.faults.frozen[slot] = sim.faults.frozen[slot]]_vars
  /\ [][\A f \in DOMAIN FaultList : \A i \in DOMAIN TxList :
         Freezes(f, i) /\ sim.faults.active[f] /\ sim'.started =>
           \A frame \in Frames' :
             frame.of = i /\ frame.nr > sim.produced => CarriesTheCaptured(frame, f, i)']_vars
=============================================================================
