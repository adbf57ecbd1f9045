----------------------------- MODULE ViewModel -----------------------------
(***************************************************************************)
(* What the dashboard knows of the bus.  Every operation holds the mutex   *)
(* of the view model, so each is one step; ingest() is called from the     *)
(* thread of the simulation and from that of the user.                     *)
(*                                                                         *)
(* Timestamps wrap at TimeWord.  A filter matches a word it is equal to.   *)
(* The mean period of a message is kept as the sum of its periods.         *)
(***************************************************************************)
EXTENDS Integers, Sequences, FiniteSetsExt

CONSTANTS
  Database,        \* by identifier the messages: name, node, cycle, signal values
  TimeWord,        \* 2^64
  RateWindow,      \* 10^9 ns
  TraceCapacity, HistoryCapacity

None == "none"
Unknown == "<unknown>"

FreshHistory == [samples |-> <<>>, min |-> 0, max |-> 0]
FreshView ==
  [trace |-> <<>>, messages |-> <<>>, nodes |-> <<>>, recent |-> <<>>,
   bus |-> [frames |-> 0, bits |-> 0, first |-> 0, last |-> 0, errors |-> 0],
   history |-> FreshHistory, selected |-> None, filter |-> None,
   total |-> 0, filtered |-> 0, now |-> 0, paused |-> FALSE]

Elapsed(from, to) == (to - from) % TimeWord

-----------------------------------------------------------------------------
(* The extremes are found again each time: the sample that leaves may have *)
(* been one of them.                                                       *)
PushedSlip(h, value) ==   \* extremes are only ever widened
  LET all == Append(h.samples, value)
      kept == SubSeq(all, 1 + Max({0, Len(all) - HistoryCapacity}), Len(all))
  IN  [samples |-> kept, min |-> IF h.samples = <<>> THEN value ELSE Min({h.min, value}),
       max |-> IF h.samples = <<>> THEN value ELSE Max({h.max, value})]

Pushed(h, value) ==
  LET all == Append(h.samples, value)
      kept == SubSeq(all, 1 + Max({0, Len(all) - HistoryCapacity}), Len(all))
  IN  [samples |-> kept, min |-> Min(Range(kept)), max |-> Max(Range(kept))]

(* The level of a sample among rows lines; a constant signal is in the     *)
(* middle.                                                                 *)
Levels(h, rows) ==
  LET span == h.max - h.min
  IN  IF rows = 0 THEN <<>>
      ELSE [i \in DOMAIN h.samples |->
              IF span <= 0 THEN rows \div 2
              ELSE ((2 * (h.samples[i] - h.min) * (rows - 1)) + span) \div (2 * span)]

-----------------------------------------------------------------------------
(* An entry of the trace.                                                  *)
EntryOf(f) ==
  LET known == f.id \in DOMAIN Database
  IN  [at |-> f.at, id |-> f.id, nr |-> f.nr,
       name |-> IF known THEN Database[f.id].name ELSE None,
       node |-> IF known THEN Database[f.id].node ELSE None,
       signals |-> IF known /\ f.decodes THEN f.values ELSE <<>>]

PassesFilter(v, entry) ==
  v.filter \in {None, entry.name, entry.id, entry.node} \cup DOMAIN entry.signals

Put(f, key, value) == [k \in DOMAIN f \cup {key} |-> IF k = key THEN value ELSE f[k]]
At(f, key, otherwise) == IF key \in DOMAIN f THEN f[key] ELSE otherwise

(* Who sends it, as the table of the nodes names them.                     *)
NodeOf(entry) == IF entry.node = None THEN Unknown ELSE entry.node

FreshStats(f) ==
  [count |-> 0, first |-> f.at, last |-> 0, sum |-> 0, min |-> 0, max |-> 0, signals |-> <<>>,
   expected |-> IF f.id \in DOMAIN Database THEN Database[f.id].cycle ELSE 0]

(* A minimum of 0 stands for none.                                         *)
Counted(m, f, entry) ==
  LET period == Elapsed(m.last, f.at)
      measured == [m EXCEPT !.sum = @ + period, !.max = Max({@, period}),
                            !.min = IF @ = 0 \/ period < @ THEN period ELSE @]
      shown == IF entry.signals = <<>> THEN m.signals ELSE entry.signals
  IN  [(IF m.count > 0 THEN measured ELSE m) EXCEPT
         !.count = @ + 1, !.last = f.at, !.signals = shown]

(* Older than the window, by unsigned arithmetic, from the front.          *)
RecentAfter(recent, at) ==
  LET all == Append(recent, at)
      young == {i \in DOMAIN all : Elapsed(all[i], at) <= RateWindow}
  IN  SubSeq(all, Min(young), Len(all))

IngestSlip(v, f) ==   \* a node's frames are not counted while the trace is paused
  LET entry == EntryOf(f)
      node == NodeOf(entry)
      counted ==
        [v EXCEPT
           !.total = @ + 1, !.now = f.at,
           !.bus = [@ EXCEPT !.frames = @ + 1, !.bits = @ + f.bits, !.last = f.at],
           !.recent = RecentAfter(@, f.at),
           !.messages = Put(@, f.id, Counted(At(@, f.id, FreshStats(f)), f, entry))]
      trace == Append(v.trace, entry)
  IN  IF v.paused THEN counted
      ELSE [counted EXCEPT !.nodes = Put(@, node, At(@, node, 0) + 1),
                           !.trace = SubSeq(trace, 1 + Max({0, Len(trace) - TraceCapacity}), Len(trace))]

Ingest(v, f) ==
  LET entry == EntryOf(f)
      node == NodeOf(entry)
      plotted == v.selected \in DOMAIN entry.signals
      counted ==
        [v EXCEPT
           !.total = @ + 1, !.now = f.at,
           !.bus = [frames |-> @.frames + 1, bits |-> @.bits + f.bits,
                    first |-> IF @.first = 0 THEN f.at ELSE @.first, last |-> f.at,
                    errors |-> IF f.error THEN @.errors + 1 ELSE @.errors],
           !.nodes = Put(@, node, At(@, node, 0) + 1),
           !.recent = RecentAfter(@, f.at),
           !.messages = Put(@, f.id, Counted(At(@, f.id, FreshStats(f)), f, entry)),
           !.history = IF plotted THEN Pushed(@, entry.signals[v.selected]) ELSE @]
      trace == Append(v.trace, entry)
  IN  IF v.paused THEN counted
      ELSE IF ~PassesFilter(v, entry) THEN [counted EXCEPT !.filtered = @ + 1]
      ELSE [counted EXCEPT !.trace = SubSeq(trace, 1 + Max({0, Len(trace) - TraceCapacity}), Len(trace))]

Cleared(v) == [FreshView EXCEPT !.selected = v.selected, !.filter = v.filter,
                                !.now = v.now, !.paused = v.paused]

Selected(v, name) ==
  [v EXCEPT !.selected = name, !.history = IF name = v.selected THEN @ ELSE FreshHistory]

(* What the statistics page shows.                                         *)
FramesPerSecond(v) == Len(v.recent)
PeriodSuspect(m) ==
  LET n == m.count - 1
      off == m.sum - m.expected * n
  IN  m.expected # 0 /\ m.sum > 0 /\ (IF off < 0 THEN -off ELSE off) * 5 > m.expected * n
=============================================================================
