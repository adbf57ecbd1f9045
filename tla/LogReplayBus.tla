---------------------------- MODULE LogReplayBus ----------------------------
(***************************************************************************)
(* A recorded log replayed as if it were live traffic, in virtual time: a  *)
(* clock that moves only when a program receives.  A turn of the loop of   *)
(* receive() is a step, so that a call that never returns shows.           *)
(*                                                                         *)
(* A record is [nr, at, id]; nr, its place in the recording, tells one     *)
(* from another in the observer's log, heard.  The statistics keep the     *)
(* counters a replay moves.                                                *)
(***************************************************************************)
EXTENDS CanFrame

CONSTANTS
  Recordings,   \* what from_records() is given, in any order
  Options,      \* [per, ticks, loop, offset]: a speed of per / ticks
  FilterLists,  \* the filters a program may set
  Timeouts,     \* of its calls to receive()
  \* Bounds: calls to receive(), other calls, the clock when a call is made.
  MaxPulls, MaxOthers, LastPull

ASSUME ReplayBounds ==
  /\ \A o \in Options : o.per \in Nat \ {0} /\ o.ticks \in Nat \ {0} /\ o.offset \in Nat
                       /\ o.loop \in BOOLEAN
  /\ \A records \in Recordings :
       /\ DOMAIN records = 1..Len(records)
       /\ \A k \in DOMAIN records : records[k].nr = k /\ records[k].at \in Nat
  /\ Timeouts \subseteq Nat /\ MaxPulls \in Nat /\ MaxOthers \in Nat /\ LastPull \in Nat

VARIABLES replay,   \* the LogReplayBus
          pull,     \* the call to receive() under way
          heard     \* since the last rewind: the frames given, and whether
                    \* the filters stayed as they were

replayVars == <<replay, pull, heard>>

(* The constructor's std::stable_sort.                                     *)
InOrderOfTime(records) ==
  LET before(i, j) == \/ records[i].at < records[j].at
                      \/ records[i].at = records[j].at /\ i < j
      order == CHOOSE f \in [DOMAIN records -> DOMAIN records] :
                 \A i, j \in DOMAIN records : i < j => before(f[i], f[j])
  IN  [k \in DOMAIN records |-> records[order[k]]]

(* The first record that is not before the offset, or one past the last.   *)
FirstIndex(records, offset) ==
  CHOOSE i \in 1..(Len(records) + 1) :
    /\ \A k \in 1..(i - 1) : records[k].at - records[1].at < offset
    /\ i <= Len(records) => records[i].at - records[1].at >= offset
Rewound(r) ==
  [r EXCEPT !.index = FirstIndex(r.records, r.options.offset), !.now = r.options.offset]
NoStatistics == [received |-> 0, first |-> 0, last |-> 0]

Returned == [busy |-> FALSE, deadline |-> 0]

ReplayInit ==
  /\ \E records \in Recordings, options \in Options :
       replay = Rewound([records |-> InOrderOfTime(records), options |-> options, open |-> FALSE,
                         filters |-> <<>>, index |-> 1, now |-> 0, stats |-> NoStatistics])
  /\ pull = Returned
  /\ heard = [frames |-> <<>>, steady |-> TRUE, pulls |-> 0, others |-> 0]

AtEnd(r) == r.index > Len(r.records)
(* The offset is scaled, not the delay.                                    *)
DueAt(r, k) == ((r.records[k].at - r.records[1].at) * r.options.ticks) \div r.options.per

Later(a, b) == IF a < b THEN b ELSE a

Counted(stats, at) ==
  [received |-> stats.received + 1, first |-> IF stats.received = 0 THEN at ELSE stats.first, last |-> at]

-----------------------------------------------------------------------------
(* What a program does between two calls to receive().                     *)
Between == ~pull.busy /\ heard.others < MaxOthers /\ UNCHANGED pull

ReplayOpens(on) ==
  /\ Between
  /\ replay' = [replay EXCEPT !.open = on]
  /\ heard' = [heard EXCEPT !.others = @ + 1]

ReplayFilters ==
  \E filters \in FilterLists :
    /\ Between
    /\ replay' = [replay EXCEPT !.filters = filters]
    /\ heard' = [heard EXCEPT !.others = @ + 1,
                              !.steady = /\ @ /\ heard.frames = <<>>
                                         /\ replay.index = FirstIndex(replay.records, replay.options.offset)]

ResetsStatistics ==
  /\ Between
  /\ replay' = [replay EXCEPT !.stats = NoStatistics]
  /\ heard' = [heard EXCEPT !.others = @ + 1]

Rewind ==
  /\ Between
  /\ replay' = Rewound(replay)
  /\ heard' = [heard EXCEPT !.others = @ + 1, !.frames = <<>>, !.steady = TRUE]

(* A call on a bus that is not open returns at once.                       *)
Pull(timeout) ==
  /\ ~pull.busy /\ replay.open /\ heard.pulls < MaxPulls /\ replay.now <= LastPull
  /\ pull' = [busy |-> TRUE, deadline |-> replay.now + timeout]
  /\ heard' = [heard EXCEPT !.pulls = @ + 1]
  /\ UNCHANGED replay

StartsOver ==
  /\ pull.busy /\ AtEnd(replay) /\ replay.options.loop /\ replay.records # <<>>
  /\ replay' = [replay EXCEPT !.index = 1]
  /\ UNCHANGED <<pull, heard>>

(* The recording is exhausted, or its next frame is not due yet.           *)
GivesUpSlip ==   \* a loop over no records at all
  /\ pull.busy
  /\ IF AtEnd(replay) THEN ~replay.options.loop
     ELSE DueAt(replay, replay.index) > pull.deadline
  /\ replay' = [replay EXCEPT !.now = pull.deadline]
  /\ pull' = Returned
  /\ UNCHANGED heard

GivesUp ==
  /\ pull.busy
  /\ IF AtEnd(replay) THEN ~replay.options.loop \/ replay.records = <<>>
     ELSE DueAt(replay, replay.index) > pull.deadline
  /\ replay' = [replay EXCEPT !.now = pull.deadline]
  /\ pull' = Returned
  /\ UNCHANGED heard

(* A frame that the filters refuse is passed over within the same call.    *)
TakesRecord ==
  /\ pull.busy /\ ~AtEnd(replay) /\ DueAt(replay, replay.index) <= pull.deadline
  /\ LET record == replay.records[replay.index]
         now == Later(replay.now, DueAt(replay, replay.index))
         taken == AcceptedBy(replay.filters, record.id)
     IN  /\ replay' = [replay EXCEPT !.index = @ + 1, !.now = now,
                         !.stats = IF taken THEN Counted(@, now) ELSE @]
         /\ pull' = IF taken THEN Returned ELSE pull
         /\ heard' = IF taken THEN [heard EXCEPT !.frames = Append(@, [nr |-> record.nr, at |-> now])]
                     ELSE heard

PullTurn == StartsOver \/ GivesUp \/ TakesRecord

ReplayNext ==
  \/ \E on \in BOOLEAN : ReplayOpens(on)
  \/ ReplayFilters \/ ResetsStatistics \/ Rewind
  \/ \E timeout \in Timeouts : Pull(timeout)
  \/ PullTurn

-----------------------------------------------------------------------------
(* The records from place k on that the filters let through.               *)
AcceptedFrom(r, k) == {i \in k..Len(r.records) : AcceptedBy(r.filters, r.records[i].id)}

(* The first of them or, in a loop, if there is none, the first of all.    *)
ComesNext(r, k, i) ==
  LET first(set) == i \in set /\ \A j \in set : i <= j
  IN  IF AcceptedFrom(r, k) # {} THEN first(AcceptedFrom(r, k))
      ELSE r.options.loop /\ first(AcceptedFrom(r, 1))

(* The record of a frame that was heard, by its place in the replay, and   *)
(* from which place on the replay had to look for the k-th.                *)
PlaceOf(records, frameHeard) == CHOOSE i \in DOMAIN records : records[i].nr = frameHeard.nr
LookedFrom(r, frames, k) ==
  IF k = 1 THEN FirstIndex(r.records, r.options.offset) ELSE 1 + PlaceOf(r.records, frames[k - 1])
InFirstRound(r, frames, k) ==
  \A j \in 1..k : LookedFrom(r, frames, j) <= PlaceOf(r.records, frames[j])

(* No frame is given twice in a round, left out or given in another order, *)
(* which is that of the recording where two have one time: with one filter *)
(* list each frame is the one that comes next.                             *)
ReplayedInOrder ==
  /\ \A k \in DOMAIN heard.frames : \E i \in DOMAIN replay.records :
       replay.records[i].nr = heard.frames[k].nr
  /\ heard.steady => \A k \in DOMAIN heard.frames :
       ComesNext(replay, LookedFrom(replay, heard.frames, k), PlaceOf(replay.records, heard.frames[k]))
  /\ \A i, j \in DOMAIN replay.records :
       i < j => \/ replay.records[i].at < replay.records[j].at
                \/ replay.records[i].at = replay.records[j].at /\ replay.records[i].nr < replay.records[j].nr

(* The recording's own pace, scaled, but in the first round only: there a  *)
(* frame comes at its due time, or at the offset if that is later, whatever*)
(* timeouts the calls had.  The clock goes on when a loop starts over, the *)
(* due times do not: a later round begins when all is due, and all of it   *)
(* comes at that one time.  The clock never runs back (receive()).         *)
KeepsItsPace ==
  LET frames == heard.frames
      place(k) == PlaceOf(replay.records, frames[k])
      n == Len(replay.records)
  IN  /\ \A i, j \in DOMAIN frames : i < j => frames[i].at <= frames[j].at
      /\ heard.steady => \A k \in DOMAIN frames :
           IF InFirstRound(replay, frames, k)
           THEN frames[k].at = Later(DueAt(replay, place(k)), replay.options.offset)
           ELSE FirstIndex(replay.records, replay.options.offset) <= n =>
                  /\ frames[k].at >= DueAt(replay, n)
                  /\ k > 1 /\ ~InFirstRound(replay, frames, k - 1) => frames[k].at = frames[k - 1].at

(* The counters tell of the last frames given, from the first counted on.  *)
StatisticsTellTheReplay ==
  LET n == replay.stats.received
      frames == heard.frames
  IN  n \in DOMAIN frames => /\ replay.stats.first = frames[Len(frames) - n + 1].at
                             /\ replay.stats.last = frames[Len(frames)].at

(* A recording is replayed in its order, once at its pace and then at once *)
(* (receive()).                                                            *)
ReplayIsFaithful == ReplayedInOrder /\ KeepsItsPace /\ StatisticsTellTheReplay

(* Every call comes back, but one that loops over records that are all due *)
(* and all refused by the filters: no deadline ends that (receive()).      *)
LoopsForNothing ==
  /\ replay.options.loop /\ replay.records # <<>> /\ AcceptedFrom(replay, 1) = {}
  /\ \A k \in DOMAIN replay.records : DueAt(replay, k) <= pull.deadline
EveryPullReturns == pull.busy /\ ~LoopsForNothing ~> ~pull.busy
=============================================================================
