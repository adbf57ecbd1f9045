---------------------------- MODULE MCVirtualBus ----------------------------
(***************************************************************************)
(* Two implementations of IBus at model checking size, each on its own: a  *)
(* virtual bus, with identifiers of one bit and of two and one tick for    *)
(* each bit, and the replay of a short recording.                          *)
(***************************************************************************)
EXTENDS VirtualBusWatch, LogReplayBus, TLC

CONSTANTS brakes, tracer, doors

VARIABLE part        \* the part a behaviour is about

Standard(n) == [extended |-> FALSE, value |-> n]
Extended(n) == [extended |-> TRUE, value |-> n]

Brake == FrameOf(Standard(0), 0, {})
Door == FrameOf(Standard(1), 8, {})
Trace == FrameOf(Extended(1), 9, {"Fd", "Brs"})

MCCrew == <<tracer, doors, brakes>>
MCTraffic == (brakes :> {Brake}) @@ (tracer :> {Trace}) @@ (doors :> {Door})
MCFilters == {<<>>, <<[id |-> Packed(Standard(0)), mask |-> IdField \cup {EffBit},
                       invert |-> FALSE, match_format |-> TRUE]>>}

(* Two frames at one moment, one recorded before its turn.                 *)
Record(nr, at, id) == [nr |-> nr, at |-> at, id |-> id]
MCRecordings ==
  {<<>>, <<Record(1, 9, Standard(1))>>,
   <<Record(1, 13, Standard(0)), Record(2, 10, Standard(1)), Record(3, 13, Standard(1)),
     Record(4, 11, Standard(0)), Record(5, 16, Extended(1))>>}
MCOptions == [per : {1, 3}, ticks : {1, 2}, loop : BOOLEAN, offset : {0, 2, 20}]

-----------------------------------------------------------------------------
MediumAlone == part = "medium" /\ Next /\ UNCHANGED <<part, replayVars>>
ReplayAlone == part = "replay" /\ ReplayNext /\ UNCHANGED <<part, vars>>

Parked ==
  /\ pull = Returned
  /\ heard = [frames |-> <<>>, steady |-> TRUE, pulls |-> 0, others |-> 0]
  /\ \E options \in {o \in Options : o.per = 1 /\ o.ticks = 1 /\ o.offset = 0 /\ ~o.loop} :
       replay = Rewound([records |-> <<>>, options |-> options, open |-> FALSE,
                         filters |-> <<>>, index |-> 1, now |-> 0, stats |-> NoStatistics])

MCInit ==
  /\ part \in {"medium", "replay"}
  /\ Init
  /\ IF part = "replay" THEN ReplayInit ELSE Parked
MCNext == MediumAlone \/ ReplayAlone
MCVars == <<part, vars, replayVars>>

(* Either loop runs on the thread that made the call.                      *)
MCSpec ==
  /\ MCInit /\ [][MCNext]_MCVars
  /\ WF_MCVars(part = "medium" /\ Runs /\ UNCHANGED <<part, replayVars>>)
  /\ WF_MCVars(part = "replay" /\ PullTurn /\ UNCHANGED <<part, vars>>)

-----------------------------------------------------------------------------
(* Whichever bus it is, a program gets each frame once, in order and with  *)
(* its time (deliver(), receive()).                                        *)
FramesOnceAndInOrder == EveryFrameOnceAndInOrder /\ ReplayIsFaithful

(* Whichever bus it is, a call comes back (advance(), drain(), receive()). *)
CallsReturn == EveryCallReturns /\ EveryPullReturns
=============================================================================
