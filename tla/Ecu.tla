-------------------------------- MODULE Ecu --------------------------------
(***************************************************************************)
(* The simulated nodes: what each transmits, when, and with which counter  *)
(* and checksum.  A step is computed message by message, node by node.     *)
(***************************************************************************)
EXTENDS Faults
LOCAL INSTANCE Functions

CONSTANTS
  SimNodes,       \* in the order of the configuration
  TxList,         \* the messages they transmit, in the order of the nodes
  SignalsOf,      \* the signals of each message
  HasPlant,
  JitterDraws,    \* the n-th draw, as -1, 0 or 1 times the jitter
  ChecksumOf(_)   \* of the values of a payload, with 0 for the checksum

ASSUME TransmissionsAreKnown ==
  /\ \A i \in DOMAIN TxList :
       /\ TxList[i].mode \in {"Cyclic", "Event", "OnChange"}
       /\ TxList[i].cycle \in Nat /\ TxList[i].jitter \in Nat /\ TxList[i].phase \in Nat
       /\ Len(TxList[i].bindings) \in Nat
       /\ DOMAIN TxList[i].bindings = 1..Len(TxList[i].bindings)
  /\ JitterDraws \in Seq({-1, 0, 1}) /\ JitterDraws # <<>>

Nodes == Range(SimNodes)

NoFrame == [message |-> None]
FreshRuntime(i, now) == [due |-> now + TxList[i].phase, counter |-> 0, last |-> NoFrame,
                         triggered |-> FALSE]

EcuInit == [tx |-> [i \in DOMAIN TxList |-> FreshRuntime(i, 0)],
            running |-> [n \in Nodes |-> TRUE],
            jitter |-> [n \in Nodes |-> 0],
            walks |-> FreshWalks]

SourcesOf(i) == {TxList[i].bindings[b].source : b \in DOMAIN TxList[i].bindings} \ {0}

(* reset() of every node; set_running(true) is the simulator's.            *)
EcuResetSlip(ecus, now) ==   \* the jitter generator goes on where it was
  LET sources == UNION {SourcesOf(i) : i \in DOMAIN TxList}
  IN  [ecus EXCEPT !.tx = [i \in DOMAIN @ |-> FreshRuntime(i, now)],
                   !.walks = [w \in DOMAIN @ |-> IF \E s \in sources : w \in WalksOf[s]
                                                 THEN FreshWalk(w) ELSE @[w]]]

EcuReset(ecus, now) ==
  LET sources == UNION {SourcesOf(i) : i \in DOMAIN TxList}
  IN  [ecus EXCEPT !.jitter = [n \in DOMAIN @ |-> 0],
                   !.tx = [i \in DOMAIN @ |-> FreshRuntime(i, now)],
                   !.walks = [w \in DOMAIN @ |-> IF \E s \in sources : w \in WalksOf[s]
                                                 THEN FreshWalk(w) ELSE @[w]]]

-----------------------------------------------------------------------------
(* b gathers the payload and the walks, binding by binding.                *)
Bind(b, binding, plant, now) ==
  LET set(v) == [b EXCEPT !.data[binding.signal] = Encoded(binding.signal, v)]
  IN  IF binding.signal \notin DOMAIN b.data THEN b
      ELSE IF binding.source # 0
      THEN [set(Sample(binding.source, b.walks, now)) EXCEPT
              !.walks = AfterSample(binding.source, @, now)]
      ELSE IF ~HasPlant THEN set(0)
      ELSE IF binding.field \notin PlantFields THEN b
      ELSE set(plant[binding.field])

(* The counter goes in before the checksum, which covers it.               *)
Stamped(data, signal, value) ==
  IF signal \notin DOMAIN data THEN data ELSE [data EXCEPT ![signal] = value % RawModulus]

CompletedSlip(i, ecus, bound) ==   \* the checksum does not cover the counter
  LET tx == TxList[i]
      summed == Stamped(bound.data, tx.checksum, ChecksumOf(bound.data))
  IN  [data |-> Stamped(summed, tx.counter, ecus.tx[i].counter), walks |-> bound.walks]

Completed(i, ecus, bound) ==
  LET tx == TxList[i]
      counted == Stamped(bound.data, tx.counter, ecus.tx[i].counter)
  IN  [data |-> Stamped(counted, tx.checksum, ChecksumOf(counted)), walks |-> bound.walks]

Build(i, ecus, plant, now) ==
  LET tx == TxList[i]
      empty == [data |-> [s \in SignalsOf[tx.message] |-> 0], walks |-> ecus.walks]
  IN  Completed(i, ecus, Folded(LAMBDA b, x : Bind(b, x, plant, now), empty, tx.bindings))

(* The next due time skips the cycles that a coarse step has missed.       *)
NextDueSlip(i, draws, now) == now.due + TxList[i].cycle   \* every missed cycle is made up for

NextDue(i, draws, now) ==
  LET tx == TxList[i]
      delta == IF tx.jitter = 0 THEN 0
               ELSE tx.jitter * JitterDraws[1 + (draws % Len(JitterDraws))]
      next == Greatest(0, (now.due + tx.cycle) + delta)
  IN  IF next <= now.time THEN now.time + tx.cycle ELSE next

Due(i, ecus, now) ==
  IF TxList[i].mode = "Event" THEN ecus.tx[i].triggered ELSE now >= ecus.tx[i].due

(* What a message does when it is due: the nodes after it, and its frame.  *)
Sent(i, ecus, built, now) ==
  LET tx == TxList[i]
      rt == ecus.tx[i]
      frame == [message |-> tx.message, data |-> built.data]
      sent == tx.mode # "OnChange" \/ frame # rt.last
      jittered == sent /\ tx.mode # "Event" /\ tx.jitter # 0
      due == IF tx.mode = "Event" THEN rt.due
             ELSE IF sent THEN NextDue(i, ecus.jitter[tx.node], [due |-> rt.due, time |-> now])
             ELSE rt.due + tx.cycle
  IN  [ecus |-> [ecus EXCEPT
                   !.walks = built.walks,
                   !.jitter[tx.node] = IF jittered THEN @ + 1 ELSE @,
                   !.tx[i] = [due |-> due, counter |-> rt.counter + 1,
                              triggered |-> rt.triggered /\ tx.mode # "Event",
                              last |-> IF sent THEN frame ELSE rt.last]],
       frames |-> IF sent THEN <<frame>> ELSE <<>>]

StepMessage(i, ecus, plant, now) ==
  IF ~ecus.running[TxList[i].node] \/ ~Due(i, ecus, now) THEN [ecus |-> ecus, frames |-> <<>>]
  ELSE Sent(i, ecus, Build(i, ecus, plant, now), now)

Triggered(ecus, node, message) ==
  LET hits == {i \in DOMAIN TxList : TxList[i].node = node /\ TxList[i].message = message}
  IN  [ecus EXCEPT !.tx = [i \in DOMAIN @ |->
         IF i \in hits /\ \A j \in hits : i <= j THEN [@[i] EXCEPT !.triggered = TRUE] ELSE @[i]]]
=============================================================================
