-------------------------- MODULE VirtualBusWatch --------------------------
(***************************************************************************)
(* Programs that use a virtual bus, and in watch what an observer with a   *)
(* logic analyser would know: every frame offered, every transmission with *)
(* its start and end, and every frame a program has taken.                 *)
(***************************************************************************)
EXTENDS VirtualBus

CONSTANTS
  Traffic,     \* for each node the frames it sends
  FilterSets,  \* the filter lists a node may set
  Intervals,   \* timeouts and amounts of time to advance by
  DrainLimits,
  \* Bounds: participants made, frames offered, changes of mind (a close, a
  \* participant destroyed, other filters), the clock when a call is made.
  MaxAttach, MaxSends, MaxChanges, Horizon

ASSUME WatchBounds ==
  /\ MaxAttach \in Nat /\ MaxSends \in Nat /\ MaxChanges \in Nat
  /\ Horizon \in Nat /\ Intervals \subseteq Nat \ {0} /\ DrainLimits \subseteq Nat

ASSUME TrafficIsFrames ==
  \A n \in Nodes : Traffic[n] \subseteq [id : CanId, dlc : 0..15, flags : SUBSET Flag]

VARIABLE watch

vars == <<net, bus, call, watch>>

(* free: when a frame that found its queue empty could first be sent.      *)
Init ==
  /\ BusInit
  /\ watch = [made |-> 0, changes |-> 0, wire |-> <<>>, free |-> <<>>,
              offered |-> [n \in Nodes |-> 0], taken |-> [n \in Nodes |-> <<>>],
              cleared |-> [n \in Nodes |-> [out |-> 0, in |-> 0]]]

Offered == Len(watch.free)
Unwatched == UNCHANGED watch

Join(n) ==
  /\ watch.made < MaxAttach
  /\ Attach(n)
  /\ watch' = [watch EXCEPT !.made = @ + 1]

Leaves(n) ==
  /\ watch.changes < MaxChanges
  /\ Destroy(n)
  /\ watch' = [watch EXCEPT !.changes = @ + 1, !.offered[n] = 0, !.taken[n] = <<>>, !.cleared[n] = [out |-> 0, in |-> 0]]

Opens(n) == ~bus[n].open /\ Open(n) /\ Unwatched

Closes(n) ==
  /\ bus[n].open /\ watch.changes < MaxChanges
  /\ Close(n)
  /\ watch' = [watch EXCEPT !.changes = @ + 1,
                 !.cleared[n] = [out |-> @.out + Len(bus[n].outbox),
                                            in |-> @.in + Len(bus[n].inbox)]]

Filters(n) ==
  \E filters \in FilterSets \ {bus[n].filters} :
    /\ watch.changes < MaxChanges
    /\ SetFilters(n, filters)
    /\ watch' = [watch EXCEPT !.changes = @ + 1]

Offer(n) ==
  \E f \in Traffic[n] :
    /\ Offered < MaxSends
    /\ Send(n, Tagged(f, Offered + 1))
    /\ watch' = [watch EXCEPT !.offered[n] = @ + 1,
                   !.free = Append(@, IF bus[n].outbox # <<>> THEN Horizon + 1
                                      ELSE IF InFlight THEN net.until ELSE net.now)]

(* What a call to receive() hands over.                                    *)
Taken == [watch EXCEPT !.taken = [n \in Nodes |->
            IF bus[n].inbox # <<>> /\ bus'[n].inbox = Tail(bus[n].inbox)
            THEN Append(@[n], Head(bus[n].inbox)) ELSE @[n]]]

Takes(n) ==
  \E t \in Intervals \cup {0} :
    /\ bus[n].inbox = <<>> => net.now <= Horizon
    /\ bus[n].inbox # <<>> => t = 0
    /\ Receive(n, t) /\ watch' = Taken

Waits == \E t \in Intervals : net.now <= Horizon /\ Advance(t) /\ Unwatched
Drains == \E max \in DrainLimits : net.now <= Horizon /\ Drain(max) /\ Unwatched

Started == [watch EXCEPT !.wire = IF net'.from = net.from THEN @
                                  ELSE Append(@, [frame |-> [net'.carried[1] EXCEPT !.at = 0],
                                                  start |-> net.now, end |-> net'.until])]
Runs ==
  \/ AdvanceTurn /\ watch' = IF InFlight THEN watch ELSE Started
  \/ AdvanceReturns /\ watch' = Taken
  \/ DrainTurn /\ watch' = IF InFlight THEN watch ELSE Started
  \/ DrainReturns /\ Unwatched

Next ==
  \/ \E n \in Nodes : \/ Join(n) \/ Leaves(n) \/ Opens(n) \/ Closes(n)
                      \/ Filters(n) \/ Offer(n) \/ Takes(n)
  \/ Waits \/ Drains \/ Runs

(* A call runs on the thread that made it.                                 *)
Spec == Init /\ [][Next]_vars /\ WF_vars(Runs)

-----------------------------------------------------------------------------
Waiting(n) == bus[n].outbox
Reaches(n) == watch.taken[n] \o bus[n].inbox

FrameUnderWay == [of : UNION {Traffic[n] : n \in Nodes}, nr : 1..MaxSends, at : Nat]
Arbitration == [at : Nat, winner : Nodes, losers : SUBSET Nodes]
MediumMembers == [order : Seq(Nodes), now : Nat, until : Nat, carried : Seq(FrameUnderWay),
                  from : SUBSET Nodes, log : Seq(Arbitration)]
Participant == [open : BOOLEAN, outbox : Seq(FrameUnderWay), inbox : Seq(FrameUnderWay),
                filters : FilterSets \cup {<<>>}, sent : Nat, received : Nat, dropped : Nat,
                refused : Nat, losses : Nat, bits : Nat, first : Nat, last : Nat]
Call == {Idle} \cup [op : {"drain"}, left : Nat]
          \cup [op : {"advance"}, target : Nat, reader : {{}} \cup {{n} : n \in Nodes}]
Transmission == [frame : FrameUnderWay, start : Nat, end : Nat]
Watched == [made : Nat, changes : Nat, free : Seq(Nat), wire : Seq(Transmission),
            offered : [Nodes -> Nat], taken : [Nodes -> Seq(FrameUnderWay)],
            cleared : [Nodes -> [out : Nat, in : Nat]]]

(* Type invariant: the attached pointers are distinct, only an attached    *)
(* and open participant holds frames, each in the queue of one that may    *)
(* send it, and neither queue outgrows its limit.                          *)
BusTypeOK ==
  /\ net \in MediumMembers /\ bus \in [Nodes -> Participant] /\ call \in Call /\ watch \in Watched
  /\ \A i, j \in DOMAIN net.order : net.order[i] = net.order[j] => i = j
  /\ Len(net.carried) <= 1 /\ (InFlight <=> net.from # {})
  /\ \A n \in Nodes :
       /\ \A i \in DOMAIN bus[n].outbox : bus[n].outbox[i].of \in Traffic[n]
       /\ Len(bus[n].outbox) <= TxLimit /\ Len(bus[n].inbox) <= RxLimit
       /\ n \notin Attached \/ ~bus[n].open => bus[n].outbox = <<>> /\ bus[n].inbox = <<>>

(* The medium carries one frame at a time: no transmission starts before   *)
(* the one before it has ended, whatever mix of advance(), drain() and     *)
(* receive() moved the clock, and the clock never passes a transmission    *)
(* that is not delivered (advance(), busy_until_ns_).                      *)
OneAtATime ==
  /\ \A i \in DOMAIN watch.wire : i > 1 => watch.wire[i-1].end <= watch.wire[i].start
  /\ InFlight => watch.wire # <<>> /\ net.until = watch.wire[Len(watch.wire)].end
  /\ call = Idle /\ InFlight => net.now < net.until

(* What a program takes and what its inbox holds come in the order of the  *)
(* wire, none twice, and stamped with the end of their transmission, which *)
(* is never in the future (deliver(), set_timestamp_ns()).                 *)
ReceivedInWireOrder ==
  \A n \in Nodes :
    LET got == Reaches(n)
        on(i) == {k \in DOMAIN watch.wire : watch.wire[k].frame.nr = got[i].nr}
    IN  /\ \A i \in DOMAIN got : \E k \in on(i) : got[i].at = watch.wire[k].end /\ got[i].at <= net.now
        /\ \A i, j \in DOMAIN got : i < j => \A k \in on(i), l \in on(j) : k < l

(* No frame is lost unaccounted for: one offered is on the wire, waiting,  *)
(* refused at the queue's limit or cleared by close(); one received has    *)
(* been taken, is waiting or was cleared (send(), deliver(), statistics).  *)
Accounted ==
  \A n \in Nodes :
    /\ watch.offered[n] =
         bus[n].sent + bus[n].refused + Len(bus[n].outbox) + watch.cleared[n].out
    /\ bus[n].received = Len(Reaches(n)) + watch.cleared[n].in

(* Every frame is received in the order of the wire, once, and none is     *)
(* lost unaccounted for (deliver(), send(), close(), statistics).          *)
EveryFrameOnceAndInOrder == ReceivedInWireOrder /\ Accounted

(* A frame more urgent than all others, which one node alone sends, waits  *)
(* for the frame that is on the wire when it is queued and for no other:   *)
(* it starts at the tick the medium falls free (start_transmission(),      *)
(* arbitration).                                                           *)
Foremost(frame) ==
  \E n \in Nodes :
    /\ frame \in Traffic[n]
    /\ \A m \in Nodes : \A g \in Traffic[m] :
         <<m, g>> # <<n, frame>> => ArbitrationKey(frame.id) < ArbitrationKey(g.id)

Urgent(f) == watch.free[f.nr] <= Horizon /\ Foremost(f.of)

UrgentStartsWhenFree ==
  /\ \A i \in DOMAIN watch.wire :
       Urgent(watch.wire[i].frame) => watch.wire[i].start = watch.free[watch.wire[i].frame.nr]
  /\ call = Idle => \A n \in Nodes : \A i \in DOMAIN bus[n].outbox :
                      Urgent(bus[n].outbox[i]) => net.now <= watch.free[bus[n].outbox[i].nr]

(* On the wire: one frame at a time, the most urgent as soon as it is free *)
(* (start_next_transmission(), advance()).                                 *)
OnTheWire == BusTypeOK /\ OneAtATime /\ UrgentStartsWhenFree

(* Every call comes back: the loops end, each frame ends at a later tick   *)
(* or sooner than the target (advance(), drain(), receive()).              *)
EveryCallReturns == (call # Idle) ~> (call = Idle)

(* The bus is a medium that serves the waiting frames by priority: each    *)
(* step of the loops is one of the abstract medium's or none at all        *)
(* (VirtualMedium).                                                        *)
Untimed == [of : UNION {Traffic[n] : n \in Nodes}, nr : 1..MaxSends, at : {0}]
Medium == INSTANCE PriorityMedium WITH
            Senders <- Nodes, Frames <- Untimed,
            Rank <- LAMBDA f : ArbitrationKey(f.of.id),
            waiting <- [n \in Nodes |-> bus[n].outbox],
            wire <- [i \in DOMAIN net.carried |-> [net.carried[i] EXCEPT !.at = 0]],
            landed <- [i \in 1..(Len(watch.wire) - Len(net.carried)) |-> watch.wire[i].frame]
ImplementsPriorityMedium == Medium!Spec
=============================================================================
