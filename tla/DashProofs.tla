----------------------------- MODULE DashProofs -----------------------------
(***************************************************************************)
(* The dashboard for any traffic, database, capacities and keys: whatever  *)
(* the two threads do in whichever order, the numbers of a snapshot count  *)
(* what arrived since they were cleared, and the panes show the latest of  *)
(* what they are about.                                                    *)
(***************************************************************************)
EXTENDS Dash, SequenceTheorems, FiniteSetTheorems, NaturalsInduction, TLAPS

(* The difference of two lengths, not below zero.                          *)
LEMMA AboveZero ==
  ASSUME NEW n \in Int
  PROVE  Max({0, n}) = IF n > 0 THEN n ELSE 0
<1> DEFINE m == IF n > 0 THEN n ELSE 0
<1>1. m \in {0, n} /\ \A y \in {0, n} : m >= y
  OBVIOUS
<1>2. \A x \in {0, n} : (\A y \in {0, n} : x >= y) => x = m
  OBVIOUS
<1> HIDE DEF m
<1>3. Max({0, n}) = m
  BY <1>1, <1>2 DEF Max
<1> QED BY <1>3 DEF m

(* The last n elements of a sequence, or all of them.                      *)
UpTo(l, n) == IF l > n THEN n ELSE l

LEMMA LatestIs ==
  ASSUME NEW S, NEW s \in Seq(S), NEW n \in Nat
  PROVE  /\ Latest(s, n) \in Seq(S) /\ Len(Latest(s, n)) = UpTo(Len(s), n)
         /\ \A i \in 1..UpTo(Len(s), n) :
              Latest(s, n)[i] = s[i + (Len(s) - UpTo(Len(s), n))]
<1> DEFINE l == Len(s)
           k == UpTo(l, n)
           from == 1 + (l - k)
<1>0. l \in Nat
  BY LenProperties
<1> HIDE DEF l
<1>1. k \in Nat /\ k <= l /\ from \in Int /\ from >= 1
  BY <1>0 DEF UpTo
<1>2. 1 + Max({0, l - n}) = from
  <2>1. l - n \in Int /\ (IF l - n > 0 THEN l - n ELSE 0) = l - k
    BY <1>0, <1>1 DEF UpTo
  <2>2. Max({0, l - n}) = IF l - n > 0 THEN l - n ELSE 0
    BY <2>1, AboveZero
  <2> QED BY <2>1, <2>2
<1>3. Latest(s, n) = SubSeq(s, from, l)
  BY <1>2 DEF Latest, l
<1>4. \A i \in from..l : s[i] \in S
  BY <1>0, <1>1, ElementOfSeq DEF l
<1> HIDE DEF from
<1>5. /\ SubSeq(s, from, l) \in Seq(S)
      /\ Len(SubSeq(s, from, l)) = IF from <= l THEN l - from + 1 ELSE 0
      /\ \A i \in 1..(l - from + 1) : SubSeq(s, from, l)[i] = s[from + i - 1]
  BY <1>0, <1>1, <1>4, SubSeqProperties
<1>6. l - from + 1 = k /\ \A i \in 1..k : from + i - 1 = i + (l - k)
  BY <1>0, <1>1 DEF from
<1>7. Len(SubSeq(s, from, l)) = k
  BY <1>0, <1>1, <1>5, <1>6
<1>8. \A i \in 1..k : SubSeq(s, from, l)[i] = s[i + (l - k)]
  BY <1>5, <1>6
<1> QED BY <1>3, <1>5, <1>7, <1>8 DEF l

(* Of the latest and one more the latest are those of all and one more,    *)
(* element by element.                                                     *)
GrowAlike(s, x, S, t, y, T, n) ==
  LET new == Latest(Append(s, x), n)
      kept == Latest(Append(t, y), n)
  IN  /\ new \in Seq(S) /\ kept \in Seq(T) /\ Len(new) = Len(kept) /\ Len(kept) >= 1
      /\ new[Len(new)] = x /\ kept[Len(kept)] = y
      /\ \A i \in 1..(Len(new) - 1) :
           \E j \in 1..Len(t) : new[i] = Latest(s, n)[j] /\ kept[i] = t[j]

LEMMA LatestOfLatest ==
  ASSUME NEW S, NEW s \in Seq(S), NEW x \in S, NEW n \in Nat \ {0},
         NEW T, NEW t \in Seq(T), NEW y \in T, Len(t) = Len(Latest(s, n))
  PROVE  GrowAlike(s, x, S, t, y, T, n)
<1> DEFINE new == Latest(Append(s, x), n)
           kept == Latest(Append(t, y), n)
           l == Len(s)
           k == UpTo(l, n)
           m == UpTo(l + 1, n)
           a == Append(s, x)
           b == Append(t, y)
<1>1. l \in Nat /\ k \in Nat /\ m \in Nat /\ m >= 1 /\ m <= l + 1 /\ k <= l
  <2>1. l \in Nat
    BY LenProperties
  <2> HIDE DEF l
  <2> QED BY <2>1 DEF UpTo
<1>2. /\ Latest(s, n) \in Seq(S) /\ Len(t) = k
      /\ \A i \in 1..k : Latest(s, n)[i] = s[i + (l - k)]
  BY LatestIs
<1>3. a \in Seq(S) /\ Len(a) = l + 1 /\ (\A i \in 1..l : a[i] = s[i]) /\ a[l + 1] = x
  BY AppendProperties
<1>4. b \in Seq(T) /\ Len(b) = k + 1 /\ (\A i \in 1..k : b[i] = t[i]) /\ b[k + 1] = y
  BY <1>2, AppendProperties
<1>5. new = Latest(a, n) /\ kept = Latest(b, n)
  OBVIOUS
<1>6. k = m \/ k = m - 1
  <2> HIDE DEF l
  <2> QED BY <1>1 DEF UpTo
<1>7. m = UpTo(l + 1, n) /\ m = UpTo(k + 1, n)
  <2> HIDE DEF l
  <2> QED BY <1>1 DEF UpTo
<1> HIDE DEF a, b, l, k, m, new, kept
<1>8. new \in Seq(S) /\ Len(new) = m /\ \A i \in 1..m : new[i] = a[i + (l + 1 - m)]
  <2>1. /\ Latest(a, n) \in Seq(S) /\ Len(Latest(a, n)) = UpTo(Len(a), n)
        /\ \A i \in 1..UpTo(Len(a), n) :
             Latest(a, n)[i] = a[i + (Len(a) - UpTo(Len(a), n))]
    BY <1>3, LatestIs
  <2>2. Len(a) = l + 1 /\ UpTo(Len(a), n) = m
    BY <1>3, <1>7
  <2>3. ASSUME NEW i \in 1..m PROVE new[i] = a[i + (l + 1 - m)]
    <3>1. new[i] = a[i + (Len(a) - UpTo(Len(a), n))]
      BY <1>5, <2>1, <2>2
    <3> QED BY <1>1, <2>2, <3>1
  <2> QED BY <1>5, <2>1, <2>2, <2>3
<1>9. kept \in Seq(T) /\ Len(kept) = m /\ \A i \in 1..m : kept[i] = b[i + (k + 1 - m)]
  <2>1. /\ Latest(b, n) \in Seq(T) /\ Len(Latest(b, n)) = UpTo(Len(b), n)
        /\ \A i \in 1..UpTo(Len(b), n) :
             Latest(b, n)[i] = b[i + (Len(b) - UpTo(Len(b), n))]
    BY <1>4, LatestIs
  <2>2. Len(b) = k + 1 /\ UpTo(Len(b), n) = m
    BY <1>4, <1>7
  <2>3. ASSUME NEW i \in 1..m PROVE kept[i] = b[i + (k + 1 - m)]
    <3>1. kept[i] = b[i + (Len(b) - UpTo(Len(b), n))]
      BY <1>5, <2>1, <2>2
    <3> QED BY <1>1, <2>2, <3>1
  <2> QED BY <1>5, <2>1, <2>2, <2>3
<1>10. new[m] = x /\ kept[m] = y
  <2>1. m \in 1..m /\ m + (l + 1 - m) = l + 1 /\ m + (k + 1 - m) = k + 1
    BY <1>1
  <2> QED BY <1>3, <1>4, <1>8, <1>9, <2>1
<1>11. ASSUME NEW i \in 1..(m - 1)
       PROVE  \E j \in 1..Len(t) : new[i] = Latest(s, n)[j] /\ kept[i] = t[j]
  <2> DEFINE j == i + (k + 1 - m)
  <2>1. j \in 1..k /\ i \in 1..m /\ i + (l + 1 - m) = j + (l - k) /\ i + (l + 1 - m) \in 1..l
    BY <1>1, <1>6
  <2> HIDE DEF j
  <2>2. new[i] = s[i + (l + 1 - m)]
    BY <1>3, <1>8, <2>1
  <2>3. kept[i] = t[j]
    BY <1>4, <1>9, <2>1 DEF j
  <2>4. new[i] = Latest(s, n)[j]
    BY <1>2, <2>1, <2>2
  <2> QED BY <1>2, <2>1, <2>3, <2>4
<1> QED BY <1>1, <1>8, <1>9, <1>10, <1>11 DEF new, kept, GrowAlike

-----------------------------------------------------------------------------
(* A sequence of numbers has a least and a greatest element, by induction  *)
(* on the part of it that was looked at.                                   *)
LEMMA NumbersFromZero ==
  ASSUME NEW S \in SUBSET Nat, 0 \in S, \A n \in S : n + 1 \in S
  PROVE  S = Nat
<1> DEFINE R == {ss \in Nat \X Nat : ss[1] < ss[2]}
           T == Nat \ S
<1>1. IsWellFoundedOn(R, Nat)
  BY NatLessThanWellFounded DEF OpToRel
<1> HIDE DEF R
<1> SUFFICES ASSUME T # {} PROVE FALSE
  OBVIOUS
<1>2. PICK x \in T : \A y \in T : <<y, x>> \notin R
  BY <1>1, WFMin
<1>3. x \in Nat /\ x # 0 /\ x - 1 \in Nat /\ x - 1 < x
  OBVIOUS
<1>4. <<x - 1, x>> \in R
  BY <1>3 DEF R
<1>5. x - 1 \in S
  BY <1>2, <1>3, <1>4
<1>6. (x - 1) + 1 \in S
  BY <1>5
<1> QED BY <1>3, <1>6

Bounded(s, n, lo, hi) == \A i \in 1..n : s[lo] <= s[i] /\ s[i] <= s[hi]

LEMMA ExtremesExist ==
  ASSUME NEW s \in Seq(Int), Len(s) > 0
  PROVE  \E lo, hi \in 1..Len(s) : Bounded(s, Len(s), lo, hi)
<1> DEFINE l == Len(s)
           Holds(n) == \E lo, hi \in 1..(n + 1) : Bounded(s, n + 1, lo, hi)
           S == {n \in Nat : n < l => Holds(n)}
<1>0. l \in Nat /\ l - 1 \in Nat /\ \A i \in 1..l : s[i] \in Int
  BY LenProperties, ElementOfSeq
<1> HIDE DEF l
<1>1. 0 \in S
  <2>1. 1 \in 1..l /\ 1 \in 1..(0 + 1) => Bounded(s, 0 + 1, 1, 1)
    BY <1>0 DEF Bounded
  <2> QED BY <1>0, <2>1
<1>2. ASSUME NEW n \in S PROVE n + 1 \in S
  <2> SUFFICES ASSUME n + 1 < l PROVE Holds(n + 1)
    OBVIOUS
  <2>0. n \in Nat /\ n < l
    BY <1>0
  <2>1. PICK lo \in 1..(n + 1), hi \in 1..(n + 1) : Bounded(s, n + 1, lo, hi)
    BY <2>0
  <2> DEFINE new == n + 2
             low == IF s[new] < s[lo] THEN new ELSE lo
             high == IF s[new] > s[hi] THEN new ELSE hi
  <2>2. new \in 1..l /\ lo \in 1..l /\ hi \in 1..l /\ (n + 1) + 1 = new
        /\ 1..((n + 1) + 1) = (1..(n + 1)) \cup {new}
    BY <1>0, <2>0
  <2> HIDE DEF new
  <2>3. s[new] \in Int /\ s[lo] \in Int /\ s[hi] \in Int
    BY <1>0, <2>2
  <2>4. low \in 1..((n + 1) + 1) /\ high \in 1..((n + 1) + 1)
    BY <2>2
  <2>5. s[low] <= s[lo] /\ s[low] <= s[new] /\ s[hi] <= s[high] /\ s[new] <= s[high]
        /\ s[low] \in Int /\ s[high] \in Int
    <3>1. s[low] = IF s[new] < s[lo] THEN s[new] ELSE s[lo]
      OBVIOUS
    <3>2. s[high] = IF s[new] > s[hi] THEN s[new] ELSE s[hi]
      OBVIOUS
    <3> HIDE DEF low, high
    <3> QED BY <2>3, <3>1, <3>2
  <2> HIDE DEF low, high
  <2>6. ASSUME NEW i \in 1..((n + 1) + 1) PROVE s[low] <= s[i] /\ s[i] <= s[high]
    <3>1. CASE i = new
      BY <2>5, <3>1
    <3>2. CASE i \in 1..(n + 1)
      <4>1. i \in 1..l
        BY <1>0, <2>0, <3>2
      <4>2. s[i] \in Int /\ s[lo] <= s[i] /\ s[i] <= s[hi]
        BY <1>0, <2>1, <3>2, <4>1 DEF Bounded
      <4>3. \A a, b, c \in Int : a <= b /\ b <= c => a <= c
        OBVIOUS
      <4> QED BY <2>3, <2>5, <4>2, <4>3, Zenon
    <3> QED BY <2>2, <3>1, <3>2
  <2>7. Bounded(s, (n + 1) + 1, low, high)
    BY <2>6 DEF Bounded
  <2> QED BY <2>4, <2>7
<1>3. S = Nat
  <2>1. S \in SUBSET Nat
    OBVIOUS
  <2> HIDE DEF S
  <2> QED BY <1>1, <1>2, <2>1, NumbersFromZero
<1>4. Holds(l - 1)
  <2>1. l - 1 \in S
    BY <1>0, <1>3
  <2> QED BY <1>0, <2>1
<1>5. (l - 1) + 1 = l
  BY <1>0
<1> QED BY <1>4, <1>5 DEF l

(* So Min and Max are the least and the greatest.                          *)
LEMMA ExtremesAre ==
  ASSUME NEW s \in Seq(Int), Len(s) > 0
  PROVE  /\ Min(Range(s)) \in Int /\ Max(Range(s)) \in Int
         /\ \A i \in 1..Len(s) : Min(Range(s)) <= s[i] /\ s[i] <= Max(Range(s))
<1>0. DOMAIN s = 1..Len(s) /\ \A i \in 1..Len(s) : s[i] \in Int
  BY LenProperties, ElementOfSeq
<1>1. PICK lo \in 1..Len(s), hi \in 1..Len(s) : Bounded(s, Len(s), lo, hi)
  BY ExtremesExist
<1>2. Range(s) \subseteq Int /\ s[lo] \in Range(s) /\ s[hi] \in Range(s)
      /\ \A i \in 1..Len(s) : s[i] \in Range(s)
  BY <1>0 DEF Range
<1>3. \A y \in Range(s) : s[lo] <= y /\ y <= s[hi]
  BY <1>0, <1>1 DEF Range, Bounded
<1> DEFINE r == Range(s)
<1> HIDE DEF r
<1>4. Min(r) \in r /\ \A y \in r : Min(r) <= y
  BY <1>2, <1>3 DEF Min, r
<1>5. Max(r) \in r /\ \A y \in r : Max(r) >= y
  <2>1. s[hi] \in r /\ \A y \in r : s[hi] >= y
    BY <1>0, <1>2, <1>3 DEF r
  <2> QED BY <2>1 DEF Max
<1> QED BY <1>0, <1>2, <1>4, <1>5 DEF r

(* A level is one of the eight rows.                                       *)
LEMMA LevelInRows ==
  ASSUME NEW x \in Int, NEW span \in Int, 0 <= x, x <= span, span > 0
  PROVE  (((2 * x * (8 - 1)) + span) \div (2 * span)) \in 0..7
<1> DEFINE d == 2 * span
           n == (2 * x * (8 - 1)) + span
           q == n \div d
<1>1. d \in Nat /\ d > 0 /\ n \in Nat /\ n < 8 * d
  OBVIOUS
<1> HIDE DEF n, d
<1>2. q \in Int /\ d * q <= n /\ n < d * (q + 1)
  BY <1>1
<1> HIDE DEF q
<1>3. ~(q >= 8)
  BY <1>1, <1>2
<1>4. ~(q < 0)
  BY <1>1, <1>2
<1>5. q \in 0..7
  BY <1>2, <1>3, <1>4
<1> QED BY <1>5 DEF q, n, d

(* Every sample between the extremes has such a level.                     *)
LEMMA LevelsInRows ==
  ASSUME NEW h, h.samples \in Seq(Int), h.min \in Int, h.max \in Int,
         \A i \in 1..Len(h.samples) : h.min <= h.samples[i] /\ h.samples[i] <= h.max
  PROVE  \A l \in Range(Levels(h, 8)) : l \in 0..7
<1> DEFINE span == h.max - h.min
           level(i) == IF span <= 0 THEN 8 \div 2
                       ELSE ((2 * (h.samples[i] - h.min) * (8 - 1)) + span) \div (2 * span)
<1>1. DOMAIN h.samples = 1..Len(h.samples) /\ \A i \in 1..Len(h.samples) : h.samples[i] \in Int
  BY LenProperties, ElementOfSeq
<1>2. Levels(h, 8) = [i \in 1..Len(h.samples) |-> level(i)]
  BY <1>1 DEF Levels
<1>3. ASSUME NEW i \in 1..Len(h.samples) PROVE level(i) \in 0..7
  <2> DEFINE x == h.samples[i] - h.min
  <2>1. x \in Int /\ span \in Int /\ 0 <= x /\ x <= span
    BY <1>1
  <2>2. CASE span <= 0
    BY <2>2
  <2>3. CASE ~(span <= 0)
    <3> HIDE DEF span, x
    <3>1. (((2 * x * (8 - 1)) + span) \div (2 * span)) \in 0..7
      BY <2>1, <2>3, LevelInRows
    <3> QED BY <2>3, <3>1 DEF x
  <2> QED BY <2>2, <2>3
<1> HIDE DEF level
<1>4. \A l \in Range([i \in 1..Len(h.samples) |-> level(i)]) :
        \E i \in 1..Len(h.samples) : l = level(i)
  BY DEF Range
<1> QED BY <1>2, <1>3, <1>4

-----------------------------------------------------------------------------
(* What ingest() makes of a frame.                                         *)
Times == 0..(TimeWord - 1)
ViewMembers == {"trace", "messages", "nodes", "recent", "bus", "history", "selected", "filter",
                "total", "filtered", "now", "paused"}
StatsMembers == {"count", "first", "last", "sum", "min", "max", "signals", "expected"}
Entries == {EntryOf(Stamp(f, at, nr)) : f \in Traffic, at \in Nat, nr \in Nat}
NodeNames == {NodeOf(e) : e \in Entries}

(* A stamp changes the time and the number of a frame.                     *)
LEMMA StampIs ==
  ASSUME NEW f \in Traffic, NEW at, NEW nr
  PROVE  LET g == Stamp(f, at, nr)
         IN  /\ g.id = f.id /\ g.at = at /\ g.nr = nr /\ g.decodes = f.decodes
             /\ g.values = f.values /\ g.bits = f.bits /\ g.error = f.error
             /\ f.id \in STRING
BY DashInputs DEF DashInputs, IsFrame, Stamp

(* What the transmit panel composes is traffic.                            *)
LEMMA ComposedIsTraffic ==
  ASSUME NEW name \in DOMAIN Composed
  PROVE  Composed[name] \in Traffic
<1>1. Composed[name] \in Range(Composed)
  BY DEF Range
<1> QED BY <1>1 DEF Traffic

(* The time of a frame is in its entry and in nothing else of it.          *)
LEMMA EntryIs ==
  ASSUME NEW f \in Traffic, NEW at \in Nat, NEW nr \in Nat, NEW v
  PROVE  LET e == EntryOf(Stamp(f, at, nr))
             plain == EntryOf(Stamp(f, 0, nr))
         IN  /\ e \in Entries /\ e.nr = nr /\ e.signals = plain.signals
             /\ NodeOf(e) = NodeOf(plain) /\ NodeOf(plain) \in NodeNames
             /\ PassesFilter(v, e) = PassesFilter(v, plain)
             /\ \A s \in DOMAIN plain.signals : plain.signals[s] \in Int
<1> DEFINE e == EntryOf(Stamp(f, at, nr))
           plain == EntryOf(Stamp(f, 0, nr))
<1>1. e \in Entries
  BY DEF Entries
<1>2. /\ e.nr = nr /\ e.signals = plain.signals /\ e.node = plain.node /\ e.name = plain.name
      /\ e.id = plain.id
  BY StampIs DEF EntryOf
<1>3. NodeOf(e) = NodeOf(plain) /\ PassesFilter(v, e) = PassesFilter(v, plain)
  BY <1>2 DEF NodeOf, PassesFilter
<1>4. NodeOf(plain) \in NodeNames
  BY DEF Entries, NodeNames
<1>5. plain.signals \in {f.values, <<>>}
  BY StampIs DEF EntryOf
<1>6. \A s \in DOMAIN f.values : f.values[s] \in Int
  BY DashInputs DEF DashInputs, IsFrame
<1>7. DOMAIN <<>> = {}
  OBVIOUS
<1> QED BY <1>1, <1>2, <1>3, <1>4, <1>5, <1>6, <1>7

(* Member by member.                                                       *)
LEMMA IngestIs ==
  ASSUME NEW v, DOMAIN v = ViewMembers, NEW f
  PROVE  LET w == Ingest(v, f)
             e == EntryOf(f)
         IN  /\ DOMAIN w = ViewMembers
             /\ w.total = v.total + 1 /\ w.now = f.at /\ w.bus.frames = v.bus.frames + 1
             /\ w.nodes = Put(v.nodes, NodeOf(e), At(v.nodes, NodeOf(e), 0) + 1)
             /\ w.recent = RecentAfter(v.recent, f.at)
             /\ w.messages = Put(v.messages, f.id, Counted(At(v.messages, f.id, FreshStats(f)), f, e))
             /\ w.history = IF v.selected \in DOMAIN e.signals
                            THEN Pushed(v.history, e.signals[v.selected]) ELSE v.history
             /\ w.selected = v.selected /\ w.paused = v.paused /\ w.filter = v.filter
             /\ w.trace = IF ~v.paused /\ PassesFilter(v, e)
                          THEN Latest(Append(v.trace, e), TraceCapacity) ELSE v.trace
             /\ w.filtered = IF ~v.paused /\ ~PassesFilter(v, e) THEN v.filtered + 1 ELSE v.filtered
BY DEF Ingest, ViewMembers, Latest

(* A sample is added to the plot.                                          *)
LEMMA PushedIs ==
  ASSUME NEW h, NEW x
  PROVE  LET g == Pushed(h, x)
         IN  /\ g.samples = Latest(Append(h.samples, x), HistoryCapacity)
             /\ g.min = Min(Range(g.samples)) /\ g.max = Max(Range(g.samples))
BY DEF Pushed, Latest

(* A frame is counted in the row of its message.                           *)
LEMMA CountedIs ==
  ASSUME NEW m, DOMAIN m = StatsMembers, NEW f, NEW e
  PROVE  LET c == Counted(m, f, e)
         IN  /\ DOMAIN c = StatsMembers /\ c.count = m.count + 1 /\ c.last = f.at
             /\ c.first = m.first
             /\ c.sum = IF m.count > 0 THEN m.sum + Elapsed(m.last, f.at) ELSE m.sum
BY DEF Counted, StatsMembers

(* As long as time goes forward, the difference does not wrap.             *)
LEMMA ElapsedIs ==
  ASSUME NEW from \in Times, NEW to \in Times
  PROVE  /\ Elapsed(from, to) \in Times
         /\ from <= to => Elapsed(from, to) = to - from
<1>1. TimeWord \in Nat /\ TimeWord > 0
  BY DashInputs DEF DashInputs, Times
<1>2. to - from \in Int /\ (to - from) % TimeWord \in 0..(TimeWord - 1)
  BY <1>1 DEF Times
<1>3. from <= to => (to - from) % TimeWord = to - from
  BY <1>1 DEF Times
<1> QED BY <1>2, <1>3 DEF Elapsed, Times

-----------------------------------------------------------------------------
(* Numbers of a set.                                                       *)
LEMMA LeastIs ==
  ASSUME NEW S \in SUBSET Nat, S # {}
  PROVE  Min(S) \in S /\ \A y \in S : Min(S) <= y
<1> DEFINE R == {ss \in Nat \X Nat : ss[1] < ss[2]}
<1>1. IsWellFoundedOn(R, Nat)
  BY NatLessThanWellFounded DEF OpToRel
<1> HIDE DEF R
<1>2. PICK x \in S : \A y \in S : <<y, x>> \notin R
  BY <1>1, WFMin
<1>3. ASSUME NEW y \in S PROVE x <= y
  <2>1. <<y, x>> \notin R /\ y \in Nat /\ x \in Nat
    BY <1>2
  <2>2. y < x => <<y, x>> \in R
    BY <2>1 DEF R
  <2> QED BY <2>1, <2>2
<1> QED BY <1>3 DEF Min

LEMMA OneMoreCounted ==
  ASSUME NEW n \in Nat, NEW S \in SUBSET (1..n)
  PROVE  /\ Cardinality(S) \in Nat /\ Cardinality(S \cup {n + 1}) = Cardinality(S) + 1
         /\ S # {} => Cardinality(S) > 0
<1>1. IsFiniteSet(1..n)
  BY FS_Interval
<1>2. IsFiniteSet(S)
  BY <1>1, FS_Subset
<1>3. n + 1 \notin S
  OBVIOUS
<1>4. Cardinality(S) \in Nat
  BY <1>2, FS_CardinalityType
<1>5. Cardinality(S \cup {n + 1}) = Cardinality(S) + 1
  BY <1>2, <1>3, FS_AddElement
<1>6. S # {} => Cardinality(S) # 0
  BY <1>2, FS_EmptySet
<1> QED BY <1>4, <1>5, <1>6

-----------------------------------------------------------------------------
(* The inductive invariant.                                                *)

(* What the members are made of.                                           *)
ViewData ==
  /\ DOMAIN view = ViewMembers
  /\ view.trace \in Seq(Entries) /\ view.recent \in Seq(Times) /\ view.now \in Times
  /\ view.history.samples \in Seq(Int) /\ view.filtered \in Nat /\ view.paused \in BOOLEAN
  /\ watch.arrived \in Seq([id : STRING, node : NodeNames, at : Times])
  /\ watch.shown \in Seq(Nat) /\ watch.plotted \in Seq(Int)
  /\ watch.nr \in Nat /\ watch.shots \in BOOLEAN
  /\ \A id \in DOMAIN view.messages :
       LET m == view.messages[id]
       IN  DOMAIN m = StatsMembers /\ m.first \in Times /\ m.last \in Times /\ m.sum \in Int

(* Older frames have left the window of the rate, the others are in it.    *)
Gone == Len(watch.arrived) - Len(view.recent)
WindowIsKept ==
  /\ Len(view.recent) <= Len(watch.arrived)
  /\ \A j \in 1..Len(view.recent) : view.recent[j] = watch.arrived[Gone + j].at
  /\ \A i \in 1..Len(watch.arrived) : view.now - watch.arrived[i].at <= RateWindow <=> i > Gone

(* As long as nothing was sent by hand, time only moves forward.           *)
TimeIsKept ==
  ~watch.shots =>
    /\ \A i \in 1..Len(watch.arrived) : watch.arrived[i].at <= view.now
    /\ \A i, j \in 1..Len(watch.arrived) : i <= j => watch.arrived[i].at <= watch.arrived[j].at
    /\ WindowIsKept
    /\ \A id \in DOMAIN view.messages :
         LET m == view.messages[id] IN m.sum = m.last - m.first /\ m.last <= view.now

(* The trace and what it should show, the plot and its samples.            *)
TraceIsKept ==
  /\ Len(view.trace) = Len(Latest(watch.shown, TraceCapacity))
  /\ \A i \in 1..Len(view.trace) : view.trace[i].nr = Latest(watch.shown, TraceCapacity)[i]
  /\ view.filtered + Len(watch.shown) <= view.total

PlotIsKept ==
  /\ view.history.samples = Latest(watch.plotted, HistoryCapacity)
  /\ view.history.samples # <<>> =>
       /\ view.history.min = Min(Range(view.history.samples))
       /\ view.history.max = Max(Range(view.history.samples))

ViewInv ==
  /\ ViewData /\ StatisticsAddUp /\ TimeIsKept /\ TraceIsKept /\ PlotIsKept
  /\ view.now <= producer.now

(* The three things that happen to a view: a frame arrives, the user looks *)
(* at it in another way, and the user clears it.                           *)
Arrives(f, at) ==
  LET e == EntryOf(Stamp(f, 0, Nr))
  IN  /\ view' = Ingest(view, Stamp(f, at, Nr)) /\ watch'.nr = Nr
      /\ watch'.arrived = Append(watch.arrived, [id |-> f.id, node |-> NodeOf(e), at |-> at])
      /\ watch'.shown = IF ~view.paused /\ PassesFilter(view, e)
                        THEN Append(watch.shown, Nr) ELSE watch.shown
      /\ watch'.plotted = IF view.selected \in DOMAIN e.signals
                          THEN Append(watch.plotted, e.signals[view.selected]) ELSE watch.plotted
      /\ producer'.now = producer.now
      /\ \/ at = producer.now /\ watch'.shots = watch.shots
         \/ at = 0 /\ watch'.shots = TRUE

Looks ==
  /\ DOMAIN view' = ViewMembers
  /\ \A member \in ViewMembers \ {"filter", "paused", "selected", "history"} :
       view'[member] = view[member]
  /\ view'.paused \in BOOLEAN
  /\ watch'.nr = watch.nr /\ watch'.arrived = watch.arrived /\ watch'.shown = watch.shown
  /\ watch'.shots = watch.shots
  /\ \/ view'.history = view.history /\ watch'.plotted = watch.plotted
     \/ view'.history = FreshHistory /\ watch'.plotted = <<>>
  /\ producer'.now \in Nat /\ producer'.now >= producer.now

Clears ==
  /\ view' = Cleared(view) /\ producer'.now = producer.now
  /\ watch'.nr = watch.nr /\ watch'.arrived = <<>> /\ watch'.shown = <<>>
  /\ watch'.plotted = <<>> /\ watch'.shots = FALSE

(* Of nothing the latest is nothing.                                       *)
LEMMA NothingIsLatest ==
  ASSUME NEW n \in Nat
  PROVE  Latest(<<>>, n) = <<>>
<1>1. <<>> \in Seq(Int) /\ Len(<<>>) = 0
  BY EmptySeq
<1>2. Latest(<<>>, n) \in Seq(Int) /\ Len(Latest(<<>>, n)) = UpTo(0, n)
  BY <1>1, LatestIs
<1>3. UpTo(0, n) = 0
  BY DEF UpTo
<1> QED BY <1>2, <1>3, EmptySeq

(* Another filter, selection or pause.                                     *)
LEMMA ViewInvLooks ==
  ASSUME ViewInv, Looks, producer.now \in Nat
  PROVE  ViewInv'
<1>1. /\ view'.trace = view.trace /\ view'.messages = view.messages /\ view'.nodes = view.nodes
      /\ view'.recent = view.recent /\ view'.bus = view.bus /\ view'.total = view.total
      /\ view'.filtered = view.filtered /\ view'.now = view.now
  BY DEF Looks, ViewMembers
<1>2. ViewData'
  <2>1. FreshHistory.samples \in Seq(Int) /\ <<>> \in Seq(Int)
    BY EmptySeq DEF FreshHistory
  <2>2. view'.history.samples \in Seq(Int) /\ watch'.plotted \in Seq(Int)
    BY <2>1 DEF ViewInv, ViewData, Looks
  <2>3. DOMAIN view' = ViewMembers /\ view'.paused \in BOOLEAN
    BY DEF Looks
  <2>4. /\ watch'.nr = watch.nr /\ watch'.arrived = watch.arrived /\ watch'.shown = watch.shown
        /\ watch'.shots = watch.shots
    BY DEF Looks
  <2> QED BY <1>1, <2>2, <2>3, <2>4 DEF ViewInv, ViewData
<1>3. StatisticsAddUp'
  <2>1. watch'.arrived = watch.arrived
    BY DEF Looks
  <2>2. \A key : ArrivalsOf(key)' = ArrivalsOf(key) /\ ArrivalsFrom(key)' = ArrivalsFrom(key)
    BY <2>1 DEF ArrivalsOf, ArrivalsFrom
  <2> QED BY <1>1, <2>1, <2>2 DEF ViewInv, StatisticsAddUp
<1>4. TimeIsKept'
  BY <1>1 DEF ViewInv, TimeIsKept, WindowIsKept, Gone, Looks
<1>5. TraceIsKept'
  BY <1>1 DEF ViewInv, TraceIsKept, Looks
<1>6. PlotIsKept'
  <2>1. CASE view'.history = view.history /\ watch'.plotted = watch.plotted
    BY <2>1 DEF ViewInv, PlotIsKept
  <2>2. CASE view'.history = FreshHistory /\ watch'.plotted = <<>>
    <3>1. Latest(<<>>, HistoryCapacity) = <<>>
      BY NothingIsLatest, DashInputs DEF DashInputs
    <3> QED BY <2>2, <3>1 DEF PlotIsKept, FreshHistory
  <2> QED BY <2>1, <2>2 DEF Looks
<1>7. view'.now <= producer'.now
  <2>1. view.now \in Int /\ view.now <= producer.now
    BY DEF ViewInv, ViewData, Times
  <2> QED BY <1>1, <2>1 DEF Looks
<1> QED BY <1>2, <1>3, <1>4, <1>5, <1>6, <1>7 DEF ViewInv

(* Nothing has arrived.                                                    *)
LEMMA ViewInvInit ==
  ASSUME Init
  PROVE  ViewInv
<1>1. /\ DOMAIN view = ViewMembers /\ view.now \in Times /\ view.paused \in BOOLEAN
      /\ view.trace = <<>> /\ view.messages = <<>> /\ view.nodes = <<>>
      /\ view.recent = <<>> /\ view.bus.frames = 0 /\ view.history = FreshHistory
      /\ view.total = 0 /\ view.filtered = 0 /\ watch.nr \in Nat
      /\ view.now <= producer.now
  BY WatchBounds, DashInputs DEF WatchBounds, DashInputs, Init, DashInit, FreshView, ViewMembers, Times
<1>2. DOMAIN <<>> = {} /\ Len(<<>>) = 0 /\ \A S : <<>> \in Seq(S)
  BY EmptySeq
<1>3. /\ Latest(<<>>, TraceCapacity) = <<>> /\ Latest(<<>>, HistoryCapacity) = <<>>
      /\ FreshHistory.samples = <<>>
  BY NothingIsLatest, DashInputs DEF DashInputs, FreshHistory
<1>4. ViewData
  <2>1. DOMAIN view.messages = {} /\ view.filtered \in Nat /\ watch.shots \in BOOLEAN
        /\ watch.arrived = <<>> /\ watch.shown = <<>> /\ watch.plotted = <<>>
    BY <1>1, <1>2 DEF Init
  <2> QED BY <1>1, <1>2, <1>3, <2>1 DEF ViewData
<1>5. StatisticsAddUp
  BY <1>1, <1>2 DEF StatisticsAddUp, Init
<1>6. TimeIsKept
  BY <1>1, <1>2 DEF TimeIsKept, WindowIsKept, Gone, Init
<1>7. TraceIsKept
  BY <1>1, <1>2, <1>3 DEF TraceIsKept, Init
<1>8. PlotIsKept
  BY <1>1, <1>3 DEF PlotIsKept, Init
<1> QED BY <1>1, <1>4, <1>5, <1>6, <1>7, <1>8 DEF ViewInv

(* The user clears the view.                                               *)
LEMMA ViewInvClears ==
  ASSUME ViewInv, Clears
  PROVE  ViewInv'
<1>1. /\ DOMAIN view' = ViewMembers /\ view'.now \in Times /\ view'.paused \in BOOLEAN
      /\ view'.trace = <<>> /\ view'.messages = <<>> /\ view'.nodes = <<>>
      /\ view'.recent = <<>> /\ view'.bus.frames = 0 /\ view'.history = FreshHistory
      /\ view'.total = 0 /\ view'.filtered = 0 /\ watch'.nr \in Nat
      /\ view'.now <= producer'.now
  <2>1. /\ DOMAIN view' = ViewMembers /\ view'.now = view.now /\ view'.paused = view.paused
        /\ view'.trace = <<>> /\ view'.messages = <<>> /\ view'.nodes = <<>>
        /\ view'.recent = <<>> /\ view'.bus.frames = 0 /\ view'.history = FreshHistory
        /\ view'.total = 0 /\ view'.filtered = 0
    BY DEF Clears, Cleared, FreshView, ViewMembers
  <2> QED BY <2>1 DEF ViewInv, ViewData, Clears
<1>2. DOMAIN <<>> = {} /\ Len(<<>>) = 0 /\ \A S : <<>> \in Seq(S)
  BY EmptySeq
<1>3. /\ Latest(<<>>, TraceCapacity) = <<>> /\ Latest(<<>>, HistoryCapacity) = <<>>
      /\ FreshHistory.samples = <<>>
  BY NothingIsLatest, DashInputs DEF DashInputs, FreshHistory
<1>4. ViewData'
  <2>1. DOMAIN view'.messages = {} /\ view'.filtered \in Nat /\ watch'.shots \in BOOLEAN
        /\ watch'.arrived = <<>> /\ watch'.shown = <<>> /\ watch'.plotted = <<>>
    <3>1. watch'.arrived = <<>> /\ watch'.shown = <<>> /\ watch'.plotted = <<>>
      BY DEF Clears
    <3>2. watch'.shots \in BOOLEAN
      BY Zenon DEF Clears
    <3>3. DOMAIN view'.messages = {} /\ view'.filtered \in Nat
      BY <1>1, <1>2
    <3> QED BY <3>1, <3>2, <3>3
  <2> QED BY <1>1, <1>2, <1>3, <2>1 DEF ViewData
<1>5. StatisticsAddUp'
  BY <1>1, <1>2 DEF StatisticsAddUp, Clears
<1>6. TimeIsKept'
  BY <1>1, <1>2 DEF TimeIsKept, WindowIsKept, Gone, Clears
<1>7. TraceIsKept'
  BY <1>1, <1>2, <1>3 DEF TraceIsKept, Clears
<1>8. PlotIsKept'
  BY <1>1, <1>3 DEF PlotIsKept, Clears
<1> QED BY <1>1, <1>4, <1>5, <1>6, <1>7, <1>8 DEF ViewInv

-----------------------------------------------------------------------------
(* A frame arrives: what is older than the window leaves it.               *)
LeavesTheFirst(recent, at, k) ==
  /\ RecentAfter(recent, at) \in Seq(Times)
  /\ Len(RecentAfter(recent, at)) = (Len(recent) + 2) - k
  /\ \A j \in 1..((Len(recent) + 2) - k) :
       RecentAfter(recent, at)[j] = Append(recent, at)[(k + j) - 1]
  /\ Elapsed(Append(recent, at)[k], at) <= RateWindow
  /\ \A i \in 1..(k - 1) : ~(Elapsed(Append(recent, at)[i], at) <= RateWindow)

LEMMA RecentIs ==
  ASSUME NEW recent \in Seq(Times), NEW at \in Times
  PROVE  \E k \in 1..(Len(recent) + 1) : LeavesTheFirst(recent, at, k)
<1> DEFINE all == Append(recent, at)
           r == Len(recent)
           young == {i \in DOMAIN all : Elapsed(all[i], at) <= RateWindow}
           k == Min(young)
<1>1. r \in Nat
  BY LenProperties
<1>2. all \in Seq(Times) /\ Len(all) = r + 1 /\ all[r + 1] = at
  BY AppendProperties
<1>3. DOMAIN all = 1..(r + 1) /\ \A i \in 1..(r + 1) : all[i] \in Times
  BY <1>2, LenProperties, ElementOfSeq
<1>4. RecentAfter(recent, at) = SubSeq(all, k, r + 1)
  BY <1>2 DEF RecentAfter
<1> HIDE DEF all, r
<1>5. r + 1 \in young
  <2>1. Elapsed(at, at) = 0 /\ RateWindow \in Nat
    BY ElapsedIs, DashInputs DEF DashInputs, Times
  <2> QED BY <1>1, <1>2, <1>3, <2>1
<1>6. young \in SUBSET Nat /\ young # {}
  BY <1>1, <1>3, <1>5
<1>7. k \in young /\ \A y \in young : k <= y
  <2> HIDE DEF young
  <2> QED BY <1>6, LeastIs
<1>8. k \in 1..(r + 1) /\ Elapsed(all[k], at) <= RateWindow
  BY <1>3, <1>7
<1>9. ASSUME NEW i \in 1..(k - 1) PROVE ~(Elapsed(all[i], at) <= RateWindow)
  <2>1. i \in 1..(r + 1) /\ ~(k <= i)
    BY <1>1, <1>8
  <2> QED BY <1>3, <1>7, <2>1
<1> HIDE DEF k, young
<1>10. /\ SubSeq(all, k, r + 1) \in Seq(Times)
       /\ Len(SubSeq(all, k, r + 1)) = IF k <= r + 1 THEN (r + 1) - k + 1 ELSE 0
       /\ \A j \in 1..((r + 1) - k + 1) : SubSeq(all, k, r + 1)[j] = all[k + j - 1]
  <2>1. \A i \in k..(r + 1) : all[i] \in Times
    BY <1>1, <1>3, <1>8
  <2>2. k \in Int /\ r + 1 \in Int
    BY <1>1, <1>8
  <2> QED BY <2>1, <2>2, SubSeqProperties
<1>11. k <= r + 1 /\ (r + 1) - k + 1 = (r + 2) - k
  BY <1>1, <1>8
<1>12. /\ SubSeq(all, k, r + 1) \in Seq(Times)
       /\ Len(SubSeq(all, k, r + 1)) = (r + 2) - k
       /\ \A j \in 1..((r + 2) - k) : SubSeq(all, k, r + 1)[j] = all[(k + j) - 1]
  BY <1>1, <1>8, <1>10, <1>11
<1> QED BY <1>4, <1>8, <1>9, <1>12 DEF all, r, LeavesTheFirst

(* What arrives, member by member.                                         *)
LEMMA ArrivesIs ==
  ASSUME ViewInv, NEW f \in Traffic, NEW at \in Times, Arrives(f, at)
  PROVE  LET g == Stamp(f, at, Nr)
             entry == EntryOf(g)
             e == EntryOf(Stamp(f, 0, Nr))
         IN  /\ DOMAIN view' = ViewMembers
             /\ view'.total = view.total + 1 /\ view'.now = at
             /\ view'.bus.frames = view.bus.frames + 1
             /\ view'.nodes = Put(view.nodes, NodeOf(e), At(view.nodes, NodeOf(e), 0) + 1)
             /\ view'.recent = RecentAfter(view.recent, at)
             /\ view'.messages =
                  Put(view.messages, f.id, Counted(At(view.messages, f.id, FreshStats(g)), g, entry))
             /\ view'.history = IF view.selected \in DOMAIN e.signals
                                THEN Pushed(view.history, e.signals[view.selected]) ELSE view.history
             /\ view'.paused = view.paused
             /\ view'.trace = IF ~view.paused /\ PassesFilter(view, e)
                              THEN Latest(Append(view.trace, entry), TraceCapacity) ELSE view.trace
             /\ view'.filtered = IF ~view.paused /\ ~PassesFilter(view, e)
                                 THEN view.filtered + 1 ELSE view.filtered
             /\ entry \in Entries /\ entry.nr = Nr /\ Nr \in Nat /\ NodeOf(e) \in NodeNames
             /\ g.at = at /\ g.id = f.id /\ f.id \in STRING
             /\ \A s \in DOMAIN e.signals : e.signals[s] \in Int
<1> DEFINE g == Stamp(f, at, Nr)
           entry == EntryOf(g)
           e == EntryOf(Stamp(f, 0, Nr))
<1>1. Nr \in Nat /\ at \in Nat /\ DOMAIN view = ViewMembers /\ view' = Ingest(view, g)
  <2>1. watch.nr \in Nat /\ DOMAIN view = ViewMembers
    BY DEF ViewInv, ViewData
  <2>2. at \in Nat
    BY DEF Times
  <2>3. view' = Ingest(view, g)
    BY DEF Arrives
  <2> QED BY <2>1, <2>2, <2>3 DEF Nr
<1>2. g.at = at /\ g.id = f.id /\ f.id \in STRING
  BY StampIs
<1>3. /\ entry \in Entries /\ entry.nr = Nr /\ entry.signals = e.signals
      /\ NodeOf(entry) = NodeOf(e) /\ NodeOf(e) \in NodeNames
      /\ PassesFilter(view, entry) = PassesFilter(view, e)
      /\ \A s \in DOMAIN e.signals : e.signals[s] \in Int
  BY <1>1, EntryIs
<1> HIDE DEF g, entry, e
<1>4. LET w == view'
          v == view
          x == EntryOf(g)
      IN  /\ DOMAIN w = ViewMembers
          /\ w.total = v.total + 1 /\ w.now = g.at /\ w.bus.frames = v.bus.frames + 1
          /\ w.nodes = Put(v.nodes, NodeOf(x), At(v.nodes, NodeOf(x), 0) + 1)
          /\ w.recent = RecentAfter(v.recent, g.at)
          /\ w.messages = Put(v.messages, g.id, Counted(At(v.messages, g.id, FreshStats(g)), g, x))
          /\ w.history = IF v.selected \in DOMAIN x.signals
                         THEN Pushed(v.history, x.signals[v.selected]) ELSE v.history
          /\ w.selected = v.selected /\ w.paused = v.paused /\ w.filter = v.filter
          /\ w.trace = IF ~v.paused /\ PassesFilter(v, x)
                       THEN Latest(Append(v.trace, x), TraceCapacity) ELSE v.trace
          /\ w.filtered = IF ~v.paused /\ ~PassesFilter(v, x) THEN v.filtered + 1 ELSE v.filtered
  BY <1>1, IngestIs
<1>5. EntryOf(g) = entry
  BY DEF entry
<1>6. /\ view'.total = view.total + 1 /\ view'.now = at /\ DOMAIN view' = ViewMembers
      /\ view'.bus.frames = view.bus.frames + 1 /\ view'.paused = view.paused
      /\ view'.nodes = Put(view.nodes, NodeOf(e), At(view.nodes, NodeOf(e), 0) + 1)
      /\ view'.recent = RecentAfter(view.recent, at)
  BY <1>2, <1>3, <1>4, <1>5
<1>7. view'.messages = Put(view.messages, f.id, Counted(At(view.messages, f.id, FreshStats(g)), g, entry))
  BY <1>2, <1>4, <1>5
<1>8. view'.history = IF view.selected \in DOMAIN e.signals
                      THEN Pushed(view.history, e.signals[view.selected]) ELSE view.history
  BY <1>3, <1>4, <1>5
<1>9. /\ view'.trace = IF ~view.paused /\ PassesFilter(view, e)
                       THEN Latest(Append(view.trace, entry), TraceCapacity) ELSE view.trace
      /\ view'.filtered = IF ~view.paused /\ ~PassesFilter(view, e)
                          THEN view.filtered + 1 ELSE view.filtered
  BY <1>3, <1>4, <1>5
<1> QED BY <1>1, <1>2, <1>3, <1>6, <1>7, <1>8, <1>9 DEF g, entry, e

(* The watch has seen one frame more.                                      *)
LEMMA OneMoreArrival ==
  ASSUME ViewInv, NEW f \in Traffic, NEW at \in Times, Arrives(f, at)
  PROVE  LET n == Len(watch.arrived)
             node == NodeOf(EntryOf(Stamp(f, 0, Nr)))
         IN  /\ n \in Nat /\ DOMAIN watch.arrived = 1..n /\ DOMAIN watch'.arrived = 1..(n + 1)
             /\ Len(watch'.arrived) = n + 1
             /\ watch'.arrived \in Seq([id : STRING, node : NodeNames, at : Times])
             /\ \A i \in 1..n : watch'.arrived[i] = watch.arrived[i]
             /\ watch'.arrived[n + 1] = [id |-> f.id, node |-> node, at |-> at]
             /\ \A i \in 1..n : watch.arrived[i].at \in Times
<1> DEFINE A == [id : STRING, node : NodeNames, at : Times]
           a == [id |-> f.id, node |-> NodeOf(EntryOf(Stamp(f, 0, Nr))), at |-> at]
<1>1. watch.arrived \in Seq(A)
  BY DEF ViewInv, ViewData
<1>2. f.id \in STRING /\ NodeOf(EntryOf(Stamp(f, 0, Nr))) \in NodeNames
  BY ArrivesIs
<1>3. a \in A
  BY <1>2
<1>4. watch'.arrived = Append(watch.arrived, a)
  BY DEF Arrives
<1>5. \A x \in A : x.at \in Times
  OBVIOUS
<1> HIDE DEF A, a
<1>6. Len(watch.arrived) \in Nat /\ DOMAIN watch.arrived = 1..Len(watch.arrived)
      /\ \A i \in 1..Len(watch.arrived) : watch.arrived[i] \in A
  BY <1>1, LenProperties, ElementOfSeq
<1>7. /\ watch'.arrived \in Seq(A) /\ Len(watch'.arrived) = Len(watch.arrived) + 1
      /\ \A i \in 1..Len(watch.arrived) : watch'.arrived[i] = watch.arrived[i]
      /\ watch'.arrived[Len(watch.arrived) + 1] = a
  BY <1>1, <1>3, <1>4, AppendProperties
<1>8. DOMAIN watch'.arrived = 1..(Len(watch.arrived) + 1)
  BY <1>7, LenProperties
<1> QED BY <1>5, <1>6, <1>7, <1>8 DEF A, a

(* Each table counts one frame more under the key it belongs to.           *)
LEMMA ArrivesCounts ==
  ASSUME ViewInv, NEW f \in Traffic, NEW at \in Times, Arrives(f, at)
  PROVE  StatisticsAddUp'
<1> DEFINE n == Len(watch.arrived)
           g == Stamp(f, at, Nr)
           e == EntryOf(Stamp(f, 0, Nr))
           node == NodeOf(e)
           old == At(view.messages, f.id, FreshStats(g))
           new == Counted(old, g, EntryOf(g))
<1>1. /\ n \in Nat /\ DOMAIN watch.arrived = 1..n /\ DOMAIN watch'.arrived = 1..(n + 1)
      /\ Len(watch'.arrived) = n + 1
      /\ \A i \in 1..n : watch'.arrived[i] = watch.arrived[i]
      /\ watch'.arrived[n + 1].id = f.id /\ watch'.arrived[n + 1].node = node
  <2>1. /\ n \in Nat /\ DOMAIN watch.arrived = 1..n /\ DOMAIN watch'.arrived = 1..(n + 1)
        /\ Len(watch'.arrived) = n + 1
        /\ \A i \in 1..n : watch'.arrived[i] = watch.arrived[i]
    BY OneMoreArrival
  <2>2. watch'.arrived[n + 1] = [id |-> f.id, node |-> node, at |-> at]
    BY OneMoreArrival
  <2> QED BY <2>1, <2>2
<1>2. /\ view'.total = view.total + 1 /\ view'.bus.frames = view.bus.frames + 1
      /\ view'.nodes = Put(view.nodes, node, At(view.nodes, node, 0) + 1)
      /\ view'.messages = Put(view.messages, f.id, new)
  BY ArrivesIs
<1>3. StatisticsAddUp
  BY DEF ViewInv
<1>4. DOMAIN old = StatsMembers
  <2>1. DOMAIN FreshStats(g) = StatsMembers
    BY DEF FreshStats, StatsMembers
  <2>2. \A id \in DOMAIN view.messages : DOMAIN view.messages[id] = StatsMembers
    BY DEF ViewInv, ViewData
  <2> QED BY <2>1, <2>2 DEF At
<1>5. new.count = old.count + 1
  <2> HIDE DEF old
  <2> QED BY <1>4, CountedIs
<1> HIDE DEF n, node
<1>6. 1..(n + 1) = (1..n) \cup {n + 1} /\ n + 1 \notin 1..n
  BY <1>1
<1>7. /\ \A id : ArrivalsOf(id) \in SUBSET (1..n)
      /\ \A id : ArrivalsOf(id)' = IF id = f.id THEN ArrivalsOf(id) \cup {n + 1} ELSE ArrivalsOf(id)
  BY <1>1, <1>6 DEF ArrivalsOf
<1>8. /\ \A k : ArrivalsFrom(k) \in SUBSET (1..n)
      /\ \A k : ArrivalsFrom(k)' = IF k = node THEN ArrivalsFrom(k) \cup {n + 1} ELSE ArrivalsFrom(k)
  BY <1>1, <1>6 DEF ArrivalsFrom
<1>9. /\ {watch'.arrived[i].id : i \in 1..(n + 1)} = {watch.arrived[i].id : i \in 1..n} \cup {f.id}
      /\ {watch'.arrived[i].node : i \in 1..(n + 1)} = {watch.arrived[i].node : i \in 1..n} \cup {node}
  BY <1>1, <1>6
<1>10. \A S \in SUBSET (1..n) :
         Cardinality(S) \in Nat /\ Cardinality(S \cup {n + 1}) = Cardinality(S) + 1
  BY <1>1, OneMoreCounted
<1>11. /\ DOMAIN view'.messages = DOMAIN view.messages \cup {f.id}
       /\ view'.messages[f.id] = new
       /\ \A id \in DOMAIN view.messages : id # f.id => view'.messages[id] = view.messages[id]
  <2> HIDE DEF new
  <2> QED BY <1>2 DEF Put
<1>12. /\ DOMAIN view'.nodes = DOMAIN view.nodes \cup {node}
       /\ view'.nodes[node] = At(view.nodes, node, 0) + 1
       /\ \A k \in DOMAIN view.nodes : k # node => view'.nodes[k] = view.nodes[k]
  <2> DEFINE more == At(view.nodes, node, 0) + 1
  <2>1. view'.nodes = Put(view.nodes, node, more)
    BY <1>2
  <2> HIDE DEF more
  <2>2. /\ DOMAIN view'.nodes = DOMAIN view.nodes \cup {node}
        /\ view'.nodes[node] = more
        /\ \A k \in DOMAIN view.nodes : k # node => view'.nodes[k] = view.nodes[k]
    BY <2>1 DEF Put
  <2> QED BY <2>2 DEF more
<1>13. old.count = Cardinality(ArrivalsOf(f.id))
  <2>1. CASE f.id \in DOMAIN view.messages
    BY <1>3, <2>1 DEF StatisticsAddUp, At
  <2>2. CASE f.id \notin DOMAIN view.messages
    <3>1. ArrivalsOf(f.id) = {}
      BY <1>3, <2>2 DEF StatisticsAddUp, ArrivalsOf
    <3>2. old.count = 0
      BY <2>2 DEF At, FreshStats
    <3> QED BY <3>1, <3>2, FS_EmptySet
  <2> QED BY <2>1, <2>2
<1>14. At(view.nodes, node, 0) = Cardinality(ArrivalsFrom(node))
  <2>1. CASE node \in DOMAIN view.nodes
    BY <1>3, <2>1 DEF StatisticsAddUp, At
  <2>2. CASE node \notin DOMAIN view.nodes
    <3>1. ArrivalsFrom(node) = {}
      BY <1>3, <2>2 DEF StatisticsAddUp, ArrivalsFrom
    <3> QED BY <2>2, <3>1, FS_EmptySet DEF At
  <2> QED BY <2>1, <2>2
<1> HIDE DEF old, new
<1>15. \A id \in DOMAIN view'.messages : view'.messages[id].count = Cardinality(ArrivalsOf(id)')
  <2> SUFFICES ASSUME NEW id \in DOMAIN view'.messages
               PROVE  view'.messages[id].count = Cardinality(ArrivalsOf(id)')
    OBVIOUS
  <2>1. CASE id = f.id
    BY <1>5, <1>7, <1>10, <1>11, <1>13, <2>1
  <2>2. CASE id # f.id
    BY <1>3, <1>7, <1>11, <2>2 DEF StatisticsAddUp
  <2> QED BY <2>1, <2>2
<1>16. \A k \in DOMAIN view'.nodes : view'.nodes[k] = Cardinality(ArrivalsFrom(k)')
  <2> SUFFICES ASSUME NEW k \in DOMAIN view'.nodes
               PROVE  view'.nodes[k] = Cardinality(ArrivalsFrom(k)')
    OBVIOUS
  <2>1. CASE k = node
    BY <1>8, <1>10, <1>12, <1>14, <2>1
  <2>2. CASE k # node
    BY <1>3, <1>8, <1>12, <2>2 DEF StatisticsAddUp
  <2> QED BY <2>1, <2>2
<1>17. view'.total = Len(watch'.arrived) /\ view'.bus.frames = view'.total
  BY <1>1, <1>2, <1>3 DEF StatisticsAddUp, n
<1>18. /\ DOMAIN view'.messages = {watch'.arrived[i].id : i \in DOMAIN watch'.arrived}
       /\ DOMAIN view'.nodes = {watch'.arrived[i].node : i \in DOMAIN watch'.arrived}
  BY <1>1, <1>3, <1>9, <1>11, <1>12 DEF StatisticsAddUp
<1> QED BY <1>15, <1>16, <1>17, <1>18 DEF StatisticsAddUp

(* The window of the rate moves on: k - 1 of the times leave it.           *)
LEMMA ArrivesInWindow ==
  ASSUME ViewInv, NEW f \in Traffic, NEW at \in Times, Arrives(f, at),
         ~watch.shots, at = producer.now
  PROVE  /\ WindowIsKept'
         /\ \A i \in 1..Len(watch'.arrived) : watch'.arrived[i].at <= view'.now
         /\ \A i, j \in 1..Len(watch'.arrived) :
              i <= j => watch'.arrived[i].at <= watch'.arrived[j].at
<1> DEFINE n == Len(watch.arrived)
           r == Len(view.recent)
           A(i) == watch'.arrived[i].at
           all == Append(view.recent, at)
<1>1. /\ n \in Nat /\ Len(watch'.arrived) = n + 1
      /\ \A i \in 1..n : A(i) = watch.arrived[i].at /\ A(i) \in Times
      /\ A(n + 1) = at
  <2>1. /\ n \in Nat /\ Len(watch'.arrived) = n + 1
        /\ \A i \in 1..n : watch'.arrived[i] = watch.arrived[i] /\ watch.arrived[i].at \in Times
    BY OneMoreArrival
  <2>2. watch'.arrived[n + 1] = [id |-> f.id, node |-> NodeOf(EntryOf(Stamp(f, 0, Nr))), at |-> at]
    BY OneMoreArrival
  <2> QED BY <2>1, <2>2
<1>2. view'.now = at /\ view'.recent = RecentAfter(view.recent, at)
  BY ArrivesIs
<1>3. view.recent \in Seq(Times) /\ view.now \in Times /\ view.now <= at /\ r \in Nat
  BY LenProperties DEF ViewInv, ViewData
<1>4. /\ r <= n
      /\ \A j \in 1..r : view.recent[j] = watch.arrived[(n - r) + j].at
      /\ \A i \in 1..n : view.now - watch.arrived[i].at <= RateWindow <=> i > n - r
      /\ \A i \in 1..n : watch.arrived[i].at <= view.now
      /\ \A i, j \in 1..n : i <= j => watch.arrived[i].at <= watch.arrived[j].at
  BY DEF ViewInv, TimeIsKept, WindowIsKept, Gone
<1>5. all \in Seq(Times) /\ (\A i \in 1..r : all[i] = view.recent[i]) /\ all[r + 1] = at
  BY <1>3, AppendProperties
<1>6. PICK k \in 1..(r + 1) :
        /\ Len(view'.recent) = (r + 2) - k
        /\ \A j \in 1..((r + 2) - k) : view'.recent[j] = all[(k + j) - 1]
        /\ Elapsed(all[k], at) <= RateWindow
        /\ \A i \in 1..(k - 1) : ~(Elapsed(all[i], at) <= RateWindow)
  <2>1. PICK k \in 1..(r + 1) : LeavesTheFirst(view.recent, at, k)
    BY <1>3, RecentIs
  <2>2. view'.recent = RecentAfter(view.recent, at)
    BY <1>2
  <2> QED BY <2>1, <2>2 DEF LeavesTheFirst
<1>7. Gone' = (n - r) + (k - 1)
  <2> DEFINE r2 == Len(view'.recent)
             n2 == Len(watch'.arrived)
  <2>1. n2 = n + 1 /\ r2 = (r + 2) - k
    BY <1>1, <1>6
  <2>2. Gone' = n2 - r2
    BY DEF Gone
  <2> HIDE DEF r2, n2, n, r
  <2> QED BY <1>1, <1>3, <2>1, <2>2
<1>8. TimeWord \in Nat /\ RateWindow \in Nat /\ \A t \in Times : t \in Int
  BY DashInputs DEF DashInputs, Times
<1>9. /\ \A i \in 1..(n + 1) : A(i) \in Times /\ A(i) \in Int /\ A(i) <= at
      /\ \A i, j \in 1..(n + 1) : i <= j => A(i) <= A(j)
  <2> HIDE DEF n, A
  <2>1. ASSUME NEW i \in 1..(n + 1) PROVE A(i) \in Times /\ A(i) \in Int /\ A(i) <= at
    <3>1. CASE i = n + 1
      BY <1>1, <1>8, <3>1
    <3>2. CASE i # n + 1
      <4>1. i \in 1..n
        BY <1>1, <3>2
      <4>2. A(i) \in Times /\ A(i) <= view.now
        BY <1>1, <1>4, <4>1
      <4> QED BY <1>3, <1>8, <4>2
    <3> QED BY <3>1, <3>2
  <2>2. ASSUME NEW i \in 1..(n + 1), NEW j \in 1..(n + 1), i <= j PROVE A(i) <= A(j)
    <3>1. CASE j = n + 1
      BY <1>1, <2>1, <3>1
    <3>2. CASE j # n + 1
      <4>1. i \in 1..n /\ j \in 1..n
        BY <1>1, <2>2, <3>2
      <4> QED BY <1>1, <1>4, <2>2, <4>1
    <3> QED BY <3>1, <3>2
  <2> QED BY <2>1, <2>2
<1>10. \A i \in 1..(r + 1) : (n - r) + i \in 1..(n + 1) /\ all[i] = A((n - r) + i)
  <2> SUFFICES ASSUME NEW i \in 1..(r + 1)
               PROVE  (n - r) + i \in 1..(n + 1) /\ all[i] = A((n - r) + i)
    OBVIOUS
  <2> HIDE DEF n, r, A, all
  <2>1. CASE i = r + 1
    <3>1. (n - r) + i = n + 1 /\ n + 1 \in 1..(n + 1)
      BY <1>1, <1>3, <2>1
    <3> QED BY <1>1, <1>5, <2>1, <3>1
  <2>2. CASE i # r + 1
    <3>1. i \in 1..r /\ (n - r) + i \in 1..n /\ (n - r) + i \in 1..(n + 1)
      BY <1>1, <1>3, <1>4, <2>2
    <3> QED BY <1>1, <1>4, <1>5, <3>1
  <2> QED BY <2>1, <2>2
<1>11. \A i \in 1..(r + 1) : Elapsed(all[i], at) = at - A((n - r) + i)
  <2> HIDE DEF n, r, A, all
  <2> SUFFICES ASSUME NEW i \in 1..(r + 1)
               PROVE  Elapsed(all[i], at) = at - A((n - r) + i)
    OBVIOUS
  <2>1. all[i] \in Times /\ all[i] <= at /\ all[i] = A((n - r) + i)
    BY <1>9, <1>10
  <2>2. Elapsed(all[i], at) = at - all[i]
    BY <2>1, ElapsedIs
  <2> QED BY <2>1, <2>2
<1>12. \A j \in 1..Len(view'.recent) : view'.recent[j] = watch'.arrived[Gone' + j].at
  <2> HIDE DEF n, r, all
  <2> SUFFICES ASSUME NEW j \in 1..((r + 2) - k)
               PROVE  view'.recent[j] = A(Gone' + j)
    BY <1>6
  <2>1. (k + j) - 1 \in 1..(r + 1) /\ (n - r) + ((k + j) - 1) = Gone' + j
    BY <1>1, <1>3, <1>7
  <2> QED BY <1>6, <1>10, <2>1
<1>13. ASSUME NEW i \in 1..(n + 1) PROVE at - A(i) <= RateWindow <=> i > Gone'
  <2> DEFINE kth == (n - r) + k
  <2> HIDE DEF n, r, A, all
  <2>0. at \in Int /\ A(i) \in Int /\ k \in Int
    BY <1>8, <1>9
  <2>1. CASE i > Gone'
    <3>1. kth \in 1..(n + 1) /\ kth <= i
      BY <1>1, <1>3, <1>7, <1>10, <2>1
    <3> HIDE DEF kth
    <3>2. A(kth) <= A(i) /\ A(kth) \in Int
      BY <1>9, <3>1
    <3>3. at - A(kth) <= RateWindow
      BY <1>6, <1>11 DEF kth
    <3> QED BY <1>8, <2>0, <2>1, <3>2, <3>3
  <2>2. CASE ~(i > Gone') /\ i > n - r
    <3> DEFINE p == i - (n - r)
    <3>1. p \in 1..(k - 1) /\ p \in 1..(r + 1) /\ (n - r) + p = i
      BY <1>1, <1>3, <1>4, <1>7, <2>2
    <3> HIDE DEF p
    <3>2. ~(Elapsed(all[p], at) <= RateWindow) /\ Elapsed(all[p], at) = at - A(i)
      BY <1>6, <1>11, <3>1
    <3> QED BY <2>2, <3>2
  <2>3. CASE ~(i > n - r)
    <3>1. i \in 1..n /\ ~(i > Gone')
      BY <1>1, <1>3, <1>4, <1>7, <2>3
    <3>2. ~(view.now - A(i) <= RateWindow)
      BY <1>1, <1>4, <2>3, <3>1
    <3> QED BY <1>3, <1>8, <2>0, <3>1, <3>2
  <2> QED BY <2>1, <2>2, <2>3
<1>14. Len(view'.recent) <= Len(watch'.arrived)
  <2> HIDE DEF n, r
  <2> QED BY <1>1, <1>3, <1>4, <1>6
<1>15. WindowIsKept'
  BY <1>1, <1>2, <1>12, <1>13, <1>14 DEF WindowIsKept
<1> QED BY <1>1, <1>2, <1>9, <1>15

(* A message's periods add up to the time since its first frame.           *)
LEMMA ArrivesTimes ==
  ASSUME ViewInv, NEW f \in Traffic, NEW at \in Times, Arrives(f, at)
  PROVE  /\ TimeIsKept'
         /\ \A id \in DOMAIN view'.messages :
              LET m == view'.messages[id]
              IN  DOMAIN m = StatsMembers /\ m.first \in Times /\ m.last \in Times /\ m.sum \in Int
<1> DEFINE g == Stamp(f, at, Nr)
           old == At(view.messages, f.id, FreshStats(g))
           new == Counted(old, g, EntryOf(g))
<1>1. g.at = at /\ view'.now = at /\ view'.messages = Put(view.messages, f.id, new)
  BY ArrivesIs
<1>2. \A id \in DOMAIN view.messages :
        /\ DOMAIN view.messages[id] = StatsMembers /\ view.messages[id].first \in Times
        /\ view.messages[id].last \in Times /\ view.messages[id].sum \in Int
  BY DEF ViewInv, ViewData
<1>3. at \in Int /\ (\A t \in Times : t \in Int) /\ view.now \in Int /\ view.now <= producer.now
  BY DEF ViewInv, ViewData, Times
<1>4. ASSUME f.id \in DOMAIN view.messages
      PROVE  old = view.messages[f.id] /\ old.count > 0
  <2>1. old = view.messages[f.id]
    BY <1>4 DEF At
  <2>2. /\ old.count = Cardinality(ArrivalsOf(f.id))
        /\ \E i \in DOMAIN watch.arrived : watch.arrived[i].id = f.id
    BY <1>4, <2>1 DEF ViewInv, StatisticsAddUp
  <2>3. Len(watch.arrived) \in Nat /\ DOMAIN watch.arrived = 1..Len(watch.arrived)
    BY OneMoreArrival
  <2>4. ArrivalsOf(f.id) \in SUBSET (1..Len(watch.arrived)) /\ ArrivalsOf(f.id) # {}
    BY <2>2, <2>3 DEF ArrivalsOf
  <2>5. Cardinality(ArrivalsOf(f.id)) > 0
    <3> DEFINE S == ArrivalsOf(f.id)
    <3> HIDE DEF S
    <3>1. S \in SUBSET (1..Len(watch.arrived)) /\ S # {}
      BY <2>4 DEF S
    <3>2. Cardinality(S) > 0
      BY <2>3, <3>1, OneMoreCounted
    <3> QED BY <3>2 DEF S
  <2> QED BY <2>1, <2>2, <2>5
<1>5. ASSUME f.id \notin DOMAIN view.messages
      PROVE  DOMAIN old = StatsMembers /\ old.count = 0 /\ old.first = at /\ old.sum = 0
  <2>1. old = FreshStats(g)
    BY <1>5 DEF At
  <2> QED BY <1>1, <2>1 DEF FreshStats, StatsMembers
<1>6. DOMAIN old = StatsMembers /\ old.first \in Times /\ old.sum \in Int
  BY <1>2, <1>4, <1>5
<1> HIDE DEF old, g
<1>7. /\ DOMAIN new = StatsMembers /\ new.last = at /\ new.first = old.first
      /\ new.sum = IF old.count > 0 THEN old.sum + Elapsed(old.last, at) ELSE old.sum
  BY <1>1, <1>6, CountedIs
<1>8. new.sum \in Int
  <2>1. CASE f.id \in DOMAIN view.messages
    <3>1. old.last \in Times
      BY <1>2, <1>4, <2>1
    <3>2. Elapsed(old.last, at) \in Int
      BY <1>3, <3>1, ElapsedIs
    <3> QED BY <1>4, <1>6, <1>7, <2>1, <3>2
  <2>2. CASE f.id \notin DOMAIN view.messages
    BY <1>5, <1>6, <1>7, <2>2
  <2> QED BY <2>1, <2>2
<1>9. /\ DOMAIN view'.messages = DOMAIN view.messages \cup {f.id}
      /\ view'.messages[f.id] = new
      /\ \A id \in DOMAIN view.messages : id # f.id => view'.messages[id] = view.messages[id]
  <2> HIDE DEF new
  <2> QED BY <1>1 DEF Put
<1> HIDE DEF new
<1>10. \A id \in DOMAIN view'.messages :
         LET m == view'.messages[id]
         IN  DOMAIN m = StatsMembers /\ m.first \in Times /\ m.last \in Times /\ m.sum \in Int
  <2> SUFFICES ASSUME NEW id \in DOMAIN view'.messages
               PROVE  LET m == view'.messages[id]
                      IN  /\ DOMAIN m = StatsMembers /\ m.first \in Times /\ m.last \in Times
                          /\ m.sum \in Int
    OBVIOUS
  <2>1. CASE id = f.id
    BY <1>6, <1>7, <1>8, <1>9, <2>1
  <2>2. CASE id # f.id
    BY <1>2, <1>9, <2>2
  <2> QED BY <2>1, <2>2
<1>11. ASSUME ~watch'.shots PROVE ~watch.shots /\ at = producer.now
  BY <1>11 DEF Arrives
<1>12. ASSUME ~watch'.shots
       PROVE  \A id \in DOMAIN view'.messages :
                LET m == view'.messages[id] IN m.sum = m.last - m.first /\ m.last <= view'.now
  <2>1. \A id \in DOMAIN view.messages :
          /\ view.messages[id].sum = view.messages[id].last - view.messages[id].first
          /\ view.messages[id].last <= view.now
    BY <1>11, <1>12 DEF ViewInv, TimeIsKept
  <2>2. new.sum = new.last - new.first /\ new.last <= at
    <3>1. CASE f.id \in DOMAIN view.messages
      <4> DEFINE first == old.first
                 last == old.last
                 sum == old.sum
      <4>1. first \in Int /\ last \in Times /\ last \in Int /\ sum = last - first /\ last <= at
        <5>1. old.first \in Times /\ old.last \in Times /\ sum = last - first /\ last <= view.now
          BY <1>2, <1>4, <2>1, <3>1
        <5>2. old.first \in Int /\ old.last \in Int /\ view.now <= at
          BY <1>3, <1>11, <1>12, <5>1
        <5>3. old.last <= at
          BY <1>3, <5>1, <5>2
        <5> QED BY <5>1, <5>2, <5>3
      <4>2. new.sum = sum + Elapsed(last, at) /\ new.last = at /\ new.first = first
        BY <1>4, <1>7, <3>1
      <4> HIDE DEF first, last, sum
      <4>3. Elapsed(last, at) = at - last
        BY <4>1, ElapsedIs
      <4> QED BY <1>3, <4>1, <4>2, <4>3
    <3>2. CASE f.id \notin DOMAIN view.messages
      BY <1>3, <1>5, <1>7, <3>2
    <3> QED BY <3>1, <3>2
  <2> SUFFICES ASSUME NEW id \in DOMAIN view'.messages
               PROVE  /\ view'.messages[id].sum = view'.messages[id].last - view'.messages[id].first
                      /\ view'.messages[id].last <= view'.now
    OBVIOUS
  <2>3. CASE id = f.id
    BY <1>1, <1>9, <2>2, <2>3
  <2>4. CASE id # f.id
    <3>1. id \in DOMAIN view.messages /\ view'.messages[id] = view.messages[id]
      BY <1>9, <2>4
    <3>2. view.messages[id].last \in Int /\ view.now <= at
      BY <1>2, <1>3, <1>11, <1>12, <3>1
    <3> QED BY <1>1, <1>3, <2>1, <3>1, <3>2
  <2> QED BY <2>3, <2>4
<1>13. TimeIsKept'
  <2> SUFFICES ASSUME ~watch'.shots
               PROVE  /\ \A i \in 1..Len(watch'.arrived) : watch'.arrived[i].at <= view'.now
                      /\ \A i, j \in 1..Len(watch'.arrived) :
                           i <= j => watch'.arrived[i].at <= watch'.arrived[j].at
                      /\ WindowIsKept'
                      /\ \A id \in DOMAIN view'.messages :
                           LET m == view'.messages[id]
                           IN  m.sum = m.last - m.first /\ m.last <= view'.now
    BY DEF TimeIsKept
  <2> QED BY <1>11, <1>12, ArrivesInWindow
<1> QED BY <1>10, <1>13

(* The oldest leaves the trace and the plot when they are full.            *)
LEMMA ArrivesPanes ==
  ASSUME ViewInv, NEW f \in Traffic, NEW at \in Times, Arrives(f, at)
  PROVE  /\ TraceIsKept' /\ view'.trace \in Seq(Entries) /\ watch'.shown \in Seq(Nat)
         /\ PlotIsKept' /\ view'.history.samples \in Seq(Int) /\ watch'.plotted \in Seq(Int)
<1> DEFINE entry == EntryOf(Stamp(f, at, Nr))
           e == EntryOf(Stamp(f, 0, Nr))
           live == ~view.paused /\ PassesFilter(view, e)
<1>0. TraceCapacity \in Nat \ {0} /\ HistoryCapacity \in Nat \ {0}
  BY DashInputs DEF DashInputs
<1>1. /\ view'.trace = IF live THEN Latest(Append(view.trace, entry), TraceCapacity) ELSE view.trace
      /\ view'.filtered = IF ~view.paused /\ ~PassesFilter(view, e)
                          THEN view.filtered + 1 ELSE view.filtered
      /\ entry \in Entries /\ entry.nr = Nr /\ Nr \in Nat
      /\ view'.total = view.total + 1
  BY ArrivesIs
<1>2. /\ view'.history = IF view.selected \in DOMAIN e.signals
                         THEN Pushed(view.history, e.signals[view.selected]) ELSE view.history
      /\ \A s \in DOMAIN e.signals : e.signals[s] \in Int
  BY ArrivesIs
<1>3. /\ watch'.shown = IF live THEN Append(watch.shown, Nr) ELSE watch.shown
      /\ watch'.plotted = IF view.selected \in DOMAIN e.signals
                          THEN Append(watch.plotted, e.signals[view.selected]) ELSE watch.plotted
  BY DEF Arrives
<1>4. /\ view.trace \in Seq(Entries) /\ watch.shown \in Seq(Nat) /\ view.filtered \in Nat
      /\ view.history.samples \in Seq(Int) /\ watch.plotted \in Seq(Int)
  BY DEF ViewInv, ViewData
<1>5. view.total \in Nat /\ Len(watch.shown) \in Nat
  BY <1>4, LenProperties, OneMoreArrival DEF ViewInv, StatisticsAddUp
<1> HIDE DEF entry, e
<1>6. TraceIsKept' /\ view'.trace \in Seq(Entries) /\ watch'.shown \in Seq(Nat)
  <2>1. CASE live
    <3> DEFINE s == watch.shown
               t == view.trace
               new == Latest(Append(s, Nr), TraceCapacity)
               kept == Latest(Append(t, entry), TraceCapacity)
    <3>1. new = Latest(watch'.shown, TraceCapacity) /\ kept = view'.trace
      BY <1>1, <1>3, <2>1
    <3>2. Len(t) = Len(Latest(s, TraceCapacity))
      BY DEF ViewInv, TraceIsKept
    <3>3. /\ new \in Seq(Nat) /\ kept \in Seq(Entries) /\ Len(new) = Len(kept) /\ Len(kept) >= 1
          /\ new[Len(new)] = Nr /\ kept[Len(kept)] = entry
          /\ \A i \in 1..(Len(new) - 1) :
               \E j \in 1..Len(t) : new[i] = Latest(s, TraceCapacity)[j] /\ kept[i] = t[j]
      <4> HIDE DEF s, t
      <4>1. s \in Seq(Nat) /\ t \in Seq(Entries)
        BY <1>4 DEF s, t
      <4>2. GrowAlike(s, Nr, Nat, t, entry, Entries, TraceCapacity)
        BY <1>0, <1>1, <3>2, <4>1, LatestOfLatest
      <4> QED BY <4>2 DEF GrowAlike
    <3>4. \A j \in 1..Len(t) : t[j].nr = Latest(s, TraceCapacity)[j]
      BY DEF ViewInv, TraceIsKept
    <3>5. Len(new) \in Nat
      BY <3>3, LenProperties
    <3> HIDE DEF s, t, new, kept
    <3>6. ASSUME NEW i \in 1..Len(kept) PROVE kept[i].nr = new[i]
      <4>1. CASE i = Len(new)
        BY <1>1, <3>3, <4>1
      <4>2. CASE i # Len(new)
        <5>1. i \in 1..(Len(new) - 1)
          BY <3>3, <3>5, <4>2
        <5> QED BY <3>3, <3>4, <5>1
      <4> QED BY <4>1, <4>2
    <3>7. Append(watch.shown, Nr) \in Seq(Nat) /\ Len(Append(watch.shown, Nr)) = Len(watch.shown) + 1
      BY <1>1, <1>4, AppendProperties
    <3>8. view'.filtered + Len(watch'.shown) <= view'.total
      <4> DEFINE w == Len(watch.shown)
                 w2 == Len(watch'.shown)
      <4>1. w2 = w + 1 /\ w \in Nat /\ view.filtered + w <= view.total
        BY <1>3, <1>5, <2>1, <3>7 DEF ViewInv, TraceIsKept
      <4>2. view'.filtered = view.filtered
        BY <1>1, <2>1
      <4> HIDE DEF w, w2
      <4>3. view'.filtered + w2 <= view'.total
        BY <1>1, <1>4, <1>5, <4>1, <4>2
      <4> QED BY <4>3 DEF w2
    <3>9. watch'.shown \in Seq(Nat)
      BY <1>3, <2>1, <3>7
    <3>10. Len(view'.trace) = Len(Latest(watch'.shown, TraceCapacity))
      BY <3>1, <3>3
    <3>11. \A i \in 1..Len(view'.trace) : view'.trace[i].nr = Latest(watch'.shown, TraceCapacity)[i]
      BY <3>1, <3>6
    <3> QED BY <3>1, <3>3, <3>8, <3>9, <3>10, <3>11 DEF TraceIsKept
  <2>2. CASE ~live
    <3>1. view'.trace = view.trace /\ watch'.shown = watch.shown
      BY <1>1, <1>3, <2>2
    <3>2. view'.filtered + Len(watch.shown) <= view'.total
      <4> DEFINE w == Len(watch.shown)
      <4>1. w \in Nat /\ view.filtered + w <= view.total
        BY <1>5 DEF ViewInv, TraceIsKept
      <4>2. view'.filtered \in Nat /\ view'.filtered <= view.filtered + 1
        BY <1>1, <1>4
      <4> HIDE DEF w
      <4>3. view'.filtered + w <= view'.total
        BY <1>1, <1>4, <1>5, <4>1, <4>2
      <4> QED BY <4>3 DEF w
    <3> QED BY <1>4, <3>1, <3>2 DEF ViewInv, TraceIsKept
  <2> QED BY <2>1, <2>2
<1>7. PlotIsKept' /\ view'.history.samples \in Seq(Int) /\ watch'.plotted \in Seq(Int)
  <2>1. CASE view.selected \in DOMAIN e.signals
    <3> DEFINE x == e.signals[view.selected]
               s == watch.plotted
               t == view.history.samples
               new == Latest(Append(s, x), HistoryCapacity)
               kept == Latest(Append(t, x), HistoryCapacity)
    <3>1. x \in Int /\ watch'.plotted = Append(s, x) /\ view'.history = Pushed(view.history, x)
      BY <1>2, <1>3, <2>1
    <3>2. t = Latest(s, HistoryCapacity) /\ s \in Seq(Int) /\ t \in Seq(Int)
      BY <1>4 DEF ViewInv, PlotIsKept
    <3> HIDE DEF x
    <3>3. /\ view'.history.samples = kept
          /\ view'.history.min = Min(Range(view'.history.samples))
          /\ view'.history.max = Max(Range(view'.history.samples))
      BY <3>1, PushedIs
    <3>4. /\ new \in Seq(Int) /\ kept \in Seq(Int) /\ Len(new) = Len(kept) /\ Len(kept) >= 1
          /\ new[Len(new)] = x /\ kept[Len(kept)] = x
          /\ \A i \in 1..(Len(new) - 1) :
               \E j \in 1..Len(t) : new[i] = Latest(s, HistoryCapacity)[j] /\ kept[i] = t[j]
      <4> HIDE DEF s, t
      <4>1. Len(t) = Len(Latest(s, HistoryCapacity))
        BY <3>2
      <4>2. GrowAlike(s, x, Int, t, x, Int, HistoryCapacity)
        BY <1>0, <3>1, <3>2, <4>1, LatestOfLatest
      <4> QED BY <4>2 DEF GrowAlike
    <3>5. Len(new) \in Nat
      BY <3>4, LenProperties
    <3> HIDE DEF s, t
    <3>6. watch'.plotted \in Seq(Int)
      BY <3>1, <3>2, AppendProperties
    <3> HIDE DEF new, kept
    <3>7. ASSUME NEW i \in 1..Len(kept) PROVE kept[i] = new[i]
      <4>1. CASE i = Len(new)
        BY <3>4, <4>1
      <4>2. CASE i # Len(new)
        <5>1. i \in 1..(Len(new) - 1)
          BY <3>4, <3>5, <4>2
        <5> QED BY <3>2, <3>4, <5>1
      <4> QED BY <4>1, <4>2
    <3>8. kept = new
      BY <3>4, <3>7, SeqEqual
    <3>9. view'.history.samples = Latest(watch'.plotted, HistoryCapacity)
      BY <3>1, <3>3, <3>8 DEF new
    <3> QED BY <3>3, <3>4, <3>6, <3>9 DEF PlotIsKept
  <2>2. CASE view.selected \notin DOMAIN e.signals
    BY <1>2, <1>3, <1>4, <2>2 DEF ViewInv, PlotIsKept
  <2> QED BY <2>1, <2>2
<1> QED BY <1>6, <1>7

(* A frame arrives.                                                        *)
LEMMA ViewInvArrives ==
  ASSUME ViewInv, NEW f \in Traffic, NEW at \in Times, Arrives(f, at), producer.now \in Nat
  PROVE  ViewInv'
<1>1. DOMAIN view' = ViewMembers /\ view'.now = at /\ view'.paused = view.paused /\ Nr \in Nat
      /\ view'.filtered \in {view.filtered, view.filtered + 1}
  BY ArrivesIs
<1>2. watch'.arrived \in Seq([id : STRING, node : NodeNames, at : Times])
  BY OneMoreArrival
<1>3. watch'.nr \in Nat /\ watch'.shots \in BOOLEAN
  BY <1>1 DEF Arrives, ViewInv, ViewData
<1>4. view.paused \in BOOLEAN /\ view.filtered \in Nat
  BY DEF ViewInv, ViewData
<1>5. ViewData'
  <2>1. \A id \in DOMAIN view'.messages :
          LET m == view'.messages[id]
          IN  DOMAIN m = StatsMembers /\ m.first \in Times /\ m.last \in Times /\ m.sum \in Int
    BY ArrivesTimes
  <2>2. /\ view'.trace \in Seq(Entries) /\ watch'.shown \in Seq(Nat)
        /\ view'.history.samples \in Seq(Int) /\ watch'.plotted \in Seq(Int)
    BY ArrivesPanes
  <2>3. view'.recent \in Seq(Times)
    <3>1. view'.recent = RecentAfter(view.recent, at) /\ view.recent \in Seq(Times)
      BY ArrivesIs DEF ViewInv, ViewData
    <3>2. RecentAfter(view.recent, at) \in Seq(Times)
      BY <3>1, RecentIs DEF LeavesTheFirst
    <3> QED BY <3>1, <3>2
  <2>4. view'.filtered \in Nat /\ view'.paused \in BOOLEAN
    BY <1>1, <1>4
  <2> QED BY <1>1, <1>2, <1>3, <2>1, <2>2, <2>3, <2>4 DEF ViewData
<1>6. view'.now <= producer'.now
  BY <1>1 DEF Arrives, Times
<1> QED BY <1>5, <1>6, ArrivesCounts, ArrivesTimes, ArrivesPanes DEF ViewInv

-----------------------------------------------------------------------------
(* The two threads: what they hold, and how far the clock has come in the  *)
(* passes that were made.                                                  *)
ProducerPlaces == {"step", "feed", "periodic", "sleep", "done"}
UserPlaces == {"loop", "send", "repeat", "join", "done"}
UserMembers == {"at", "page", "help", "focused", "typed", "signal", "message", "status", "running"}
WatchMembers == {"nr", "passes", "keys", "typed", "shots", "arrived", "shown", "plotted"}

ProducerData ==
  /\ DOMAIN producer = {"at", "now", "queue", "index"} /\ producer.at \in ProducerPlaces
  /\ producer.now \in Nat /\ producer.queue \in Seq(Traffic) /\ producer.index \in Nat \ {0}

UserData ==
  /\ DOMAIN user = UserMembers /\ user.at \in UserPlaces /\ user.page \in 0..4
  /\ user.at = "repeat" => user.message \in DOMAIN Composed

ThreadsInv ==
  /\ ProducerData
  /\ UserData /\ periodic \in Seq(DOMAIN Composed)
  /\ DOMAIN watch = WatchMembers /\ watch.passes \in Nat

Longest == CHOOSE longest \in Pass :
             (\A pass \in Pass : pass <= longest) /\ longest * MaxPasses < TimeWord

ClockInv ==
  /\ producer.at \in {"feed", "periodic", "sleep"} =>
       watch.passes \in 1..MaxPasses /\ producer.now <= Longest * (watch.passes - 1)
  /\ producer.at = "step" =>
       watch.passes \in 0..MaxPasses /\ producer.now <= Longest * watch.passes

DashInv == ViewInv /\ ThreadsInv /\ ClockInv

(* The bounds of a run leave room for the longest pass.                    *)
LEMMA LongestIs ==
  /\ Longest \in Nat /\ MaxPasses \in Nat /\ TimeWord \in Nat /\ Longest * MaxPasses < TimeWord
  /\ \A pass \in Pass : pass \in Nat /\ pass <= Longest
<1>1. Pass \subseteq Nat /\ MaxPasses \in Nat /\ TimeWord \in Nat
  BY DashInputs, WatchBounds DEF DashInputs, WatchBounds
<1>2. \E longest \in Pass :
        (\A pass \in Pass : pass <= longest) /\ longest * MaxPasses < TimeWord
  BY WatchBounds DEF WatchBounds
<1>3. /\ Longest \in Pass /\ (\A pass \in Pass : pass <= Longest)
      /\ Longest * MaxPasses < TimeWord
  BY <1>2, Zenon DEF Longest
<1> QED BY <1>1, <1>3

(* Within the bounds the clock has not wrapped.                            *)
LEMMA ClockFits ==
  ASSUME ThreadsInv, ClockInv
  PROVE  /\ 0 \in Times
         /\ producer.at \in {"feed", "periodic"} => producer.now \in Times
<1>1. /\ Longest \in Nat /\ MaxPasses \in Nat /\ TimeWord \in Nat
      /\ Longest * MaxPasses < TimeWord
  BY LongestIs
<1>2. Longest * MaxPasses \in Nat /\ TimeWord > 0
  BY <1>1
<1>3. ASSUME producer.at \in {"feed", "periodic"} PROVE producer.now < TimeWord
  <2> DEFINE p == watch.passes
             t == producer.now
  <2>1. p \in 1..MaxPasses /\ t <= Longest * (p - 1) /\ t \in Nat
    BY <1>3 DEF ClockInv, ThreadsInv, ProducerData
  <2> HIDE DEF p, t
  <2>2. \A a, b, c \in Nat : b <= c => a * b <= a * c
    OBVIOUS
  <2>3. p - 1 \in Nat /\ p - 1 <= MaxPasses /\ Longest * (p - 1) \in Nat
    BY <1>1, <2>1
  <2>4. Longest * (p - 1) <= Longest * MaxPasses
    BY <1>1, <2>2, <2>3
  <2>5. t < TimeWord
    BY <1>1, <1>2, <2>1, <2>3, <2>4
  <2> QED BY <2>5 DEF t
<1>4. producer.now \in Nat
  BY DEF ThreadsInv, ProducerData
<1> QED BY <1>1, <1>2, <1>3, <1>4 DEF Times

ViewStep == Looks \/ Clears \/ \E f \in Traffic : \E at \in Times : Arrives(f, at)

(* Whichever of the three it is.                                           *)
LEMMA ViewInvStep ==
  ASSUME ViewInv, ThreadsInv, ViewStep
  PROVE  ViewInv'
<1>1. producer.now \in Nat
  BY DEF ThreadsInv, ProducerData
<1> QED BY <1>1, ViewInvLooks, ViewInvClears, ViewInvArrives DEF ViewStep

(* What the watch keeps of a frame that arrives.                           *)
LEMMA ObserveIs ==
  ASSUME NEW w, DOMAIN w = WatchMembers, NEW f
  PROVE  LET o == Observe(f, w)
             e == EntryOf(Stamp(f, 0, Nr))
         IN  /\ DOMAIN o = WatchMembers /\ o.nr = Nr /\ o.shots = w.shots /\ o.passes = w.passes
             /\ o.arrived = Append(w.arrived, [id |-> f.id, node |-> NodeOf(e), at |-> view'.now])
             /\ o.shown = IF ~view.paused /\ PassesFilter(view, e) THEN Append(w.shown, Nr) ELSE w.shown
             /\ o.plotted = IF view.selected \in DOMAIN e.signals
                            THEN Append(w.plotted, e.signals[view.selected]) ELSE w.plotted
<1> DEFINE e == EntryOf(Stamp(f, 0, Nr))
<1> HIDE DEF e
<1>1. Observe(f, w) =
        [w EXCEPT !.nr = Nr,
                  !.arrived = Append(@, [id |-> f.id, node |-> NodeOf(e), at |-> view'.now]),
                  !.shown = IF ~view.paused /\ PassesFilter(view, e) THEN Append(@, Nr) ELSE @,
                  !.plotted = IF view.selected \in DOMAIN e.signals
                              THEN Append(@, e.signals[view.selected]) ELSE @]
  BY DEF Observe, e
<1> DEFINE a == [id |-> f.id, node |-> NodeOf(e), at |-> view'.now]
<1> HIDE DEF a
<1>2. LET o == Observe(f, w)
      IN  /\ DOMAIN o = WatchMembers /\ o.nr = Nr /\ o.shots = w.shots /\ o.passes = w.passes
          /\ o.arrived = Append(w.arrived, a)
          /\ o.shown = IF ~view.paused /\ PassesFilter(view, e) THEN Append(w.shown, Nr) ELSE w.shown
          /\ o.plotted = IF view.selected \in DOMAIN e.signals
                         THEN Append(w.plotted, e.signals[view.selected]) ELSE w.plotted
  BY <1>1 DEF WatchMembers, a
<1> QED BY <1>2 DEF e, a

(* A frame that the view model takes in and the watch observes arrives.    *)
LEMMA TakenInArrives ==
  ASSUME ViewInv, ThreadsInv, NEW f, NEW at,
         view' = Ingest(view, Stamp(f, at, Nr)), f \in Traffic,
         producer'.now = producer.now, watch'.nr = Nr,
         watch'.arrived = Observe(f, watch).arrived, watch'.shown = Observe(f, watch).shown,
         watch'.plotted = Observe(f, watch).plotted,
         (at = producer.now /\ watch'.shots = watch.shots) \/ (at = 0 /\ watch'.shots = TRUE)
  PROVE  Arrives(f, at) /\ view'.total = view.total + 1 /\ view'.selected = view.selected
<1> DEFINE e == EntryOf(Stamp(f, 0, Nr))
           g == Stamp(f, at, Nr)
<1>1. DOMAIN view = ViewMembers /\ DOMAIN watch = WatchMembers
  BY DEF ViewInv, ViewData, ThreadsInv
<1>2. g.at = at
  BY StampIs
<1>3. view'.now = at /\ view'.total = view.total + 1 /\ view'.selected = view.selected
  <2> HIDE DEF g
  <2>1. view' = Ingest(view, g)
    BY DEF g
  <2>2. /\ Ingest(view, g).now = g.at /\ Ingest(view, g).total = view.total + 1
        /\ Ingest(view, g).selected = view.selected
    BY <1>1, IngestIs
  <2> QED BY <1>2, <2>1, <2>2
<1>4. /\ watch'.arrived = Append(watch.arrived, [id |-> f.id, node |-> NodeOf(e), at |-> at])
      /\ watch'.shown = IF ~view.paused /\ PassesFilter(view, e)
                        THEN Append(watch.shown, Nr) ELSE watch.shown
      /\ watch'.plotted = IF view.selected \in DOMAIN e.signals
                          THEN Append(watch.plotted, e.signals[view.selected]) ELSE watch.plotted
  BY <1>1, <1>3, ObserveIs
<1> QED BY <1>3, <1>4 DEF Arrives

(* Nothing that is shown changes.                                          *)
LEMMA SameLooks ==
  ASSUME ViewInv, ThreadsInv, view' = view, watch'.nr = watch.nr, watch'.arrived = watch.arrived,
         watch'.shown = watch.shown, watch'.plotted = watch.plotted, watch'.shots = watch.shots,
         producer'.now \in Nat, producer'.now >= producer.now
  PROVE  ViewStep
<1>1. DOMAIN view' = ViewMembers /\ view'.paused \in BOOLEAN
  BY DEF ViewInv, ViewData
<1> QED BY <1>1 DEF ViewStep, Looks

-----------------------------------------------------------------------------
(* The thread of the simulation.                                           *)
LEMMA FeedsStep ==
  ASSUME DashInv, Feeds
  PROVE  ViewStep /\ ThreadsInv' /\ ClockInv'
<1>0. ViewInv /\ ThreadsInv /\ ClockInv
  BY DEF DashInv
<1>1. producer.at = "feed" /\ UNCHANGED <<user, periodic>>
      /\ ProducerData
  BY <1>0 DEF Feeds, ProducerFeeds, ThreadsInv
<1>2. CASE producer.queue = <<>>
  <2>1. watch' = watch /\ view' = view
        /\ producer' = [producer EXCEPT !.at = "periodic", !.index = 1]
    BY <1>2 DEF Feeds, ProducerFeeds
  <2>2. /\ ProducerData'
        /\ producer'.now = producer.now /\ producer'.at = "periodic" /\ producer.now \in Nat
    BY <1>1, <2>1 DEF ProducerData, ProducerPlaces
  <2>3. ViewStep
    BY <1>0, <2>1, <2>2, SameLooks
  <2>4. ThreadsInv'
    BY <1>0, <1>1, <2>1, <2>2 DEF ThreadsInv, UserData
  <2>5. ClockInv'
    BY <1>0, <1>1, <2>1, <2>2 DEF ClockInv
  <2> QED BY <2>3, <2>4, <2>5
<1>3. CASE producer.queue # <<>>
  <2> DEFINE f == Head(producer.queue)
  <2>1. /\ watch' = Observe(f, watch) /\ view' = Ingest(view, Stamp(f, producer.now, Nr))
        /\ producer' = [producer EXCEPT !.queue = Tail(@)]
    BY <1>3 DEF Feeds, ProducerFeeds
  <2>2. f \in Traffic /\ Tail(producer.queue) \in Seq(Traffic)
    BY <1>1, <1>3, HeadTailProperties DEF ProducerData
  <2> HIDE DEF f
  <2>3. /\ ProducerData'
        /\ producer'.now = producer.now /\ producer'.at = "feed"
    BY <1>1, <2>1, <2>2 DEF ProducerData
  <2>4. DOMAIN watch' = WatchMembers /\ watch'.passes = watch.passes /\ watch'.nr = Nr
        /\ watch'.shots = watch.shots
    BY <1>0, <2>1, ObserveIs DEF ThreadsInv
  <2>5. producer.now \in Times
    BY <1>0, <1>1, ClockFits
  <2>6. Arrives(f, producer.now)
    BY <1>0, <2>1, <2>2, <2>3, <2>4, TakenInArrives
  <2>7. ViewStep
    BY <2>2, <2>5, <2>6 DEF ViewStep
  <2>8. ThreadsInv'
    BY <1>0, <1>1, <2>3, <2>4 DEF ThreadsInv, UserData
  <2>9. ClockInv'
    BY <1>0, <1>1, <2>3, <2>4 DEF ClockInv
  <2> QED BY <2>7, <2>8, <2>9
<1> QED BY <1>2, <1>3

LEMMA RepeatsStep ==
  ASSUME DashInv, Repeats
  PROVE  ViewStep /\ ThreadsInv' /\ ClockInv'
<1>0. ViewInv /\ ThreadsInv /\ ClockInv
  BY DEF DashInv
<1>1. /\ producer.at = "periodic" /\ UNCHANGED <<user, periodic>>
      /\ ProducerData
      /\ periodic \in Seq(DOMAIN Composed) /\ producer.index \in Nat \ {0}
  BY <1>0 DEF Repeats, ProducerRepeats, ThreadsInv, ProducerData
<1>2. CASE producer.index > Len(periodic)
  <2>1. watch' = watch /\ view' = view
        /\ producer' = [producer EXCEPT !.at = "sleep", !.index = 1]
    BY <1>2 DEF Repeats, ProducerRepeats
  <2>2. /\ ProducerData'
        /\ producer'.now = producer.now /\ producer'.at = "sleep" /\ producer.now \in Nat
    BY <1>1, <2>1 DEF ProducerData, ProducerPlaces
  <2>3. ViewStep
    BY <1>0, <2>1, <2>2, SameLooks
  <2>4. ThreadsInv'
    BY <1>0, <1>1, <2>1, <2>2 DEF ThreadsInv, UserData
  <2>5. ClockInv'
    BY <1>0, <1>1, <2>1, <2>2 DEF ClockInv
  <2> QED BY <2>3, <2>4, <2>5
<1>3. CASE ~(producer.index > Len(periodic))
  <2> DEFINE name == periodic[producer.index]
             f == Composed[name]
  <2>1. /\ watch' = Observe(f, watch) /\ view' = Ingest(view, Stamp(f, producer.now, Nr))
        /\ producer' = [producer EXCEPT !.index = @ + 1]
    BY <1>3 DEF Repeats, ProducerRepeats
  <2>2. f \in Traffic
    <3>1. Len(periodic) \in Nat
      BY <1>1, LenProperties
    <3>2. producer.index \in 1..Len(periodic)
      BY <1>1, <1>3, <3>1
    <3>3. name \in DOMAIN Composed
      BY <1>1, <3>2, ElementOfSeq
    <3> HIDE DEF name
    <3> QED BY <3>3, ComposedIsTraffic
  <2> HIDE DEF f
  <2>3. /\ ProducerData'
        /\ producer'.now = producer.now /\ producer'.at = "periodic"
    BY <1>1, <2>1, <2>2 DEF ProducerData
  <2>4. DOMAIN watch' = WatchMembers /\ watch'.passes = watch.passes /\ watch'.nr = Nr
        /\ watch'.shots = watch.shots
    BY <1>0, <2>1, ObserveIs DEF ThreadsInv
  <2>5. producer.now \in Times
    BY <1>0, <1>1, ClockFits
  <2>6. Arrives(f, producer.now)
    BY <1>0, <2>1, <2>2, <2>3, <2>4, TakenInArrives
  <2>7. ViewStep
    BY <2>2, <2>5, <2>6 DEF ViewStep
  <2>8. ThreadsInv'
    BY <1>0, <1>1, <2>3, <2>4 DEF ThreadsInv, UserData
  <2>9. ClockInv'
    BY <1>0, <1>1, <2>3, <2>4 DEF ClockInv
  <2> QED BY <2>7, <2>8, <2>9
<1> QED BY <1>2, <1>3

LEMMA PassesStep ==
  ASSUME DashInv, Passes
  PROVE  ViewStep /\ ThreadsInv' /\ ClockInv'
<1>0. ViewInv /\ ThreadsInv /\ ClockInv
  BY DEF DashInv
<1>1. /\ producer.at = "step" /\ UNCHANGED <<view, user, periodic>>
      /\ watch' = [watch EXCEPT !.passes = @ + 1]
      /\ ProducerData
      /\ DOMAIN watch = WatchMembers /\ watch.passes \in 0..MaxPasses
      /\ producer.now <= Longest * watch.passes
  BY <1>0 DEF Passes, ProducerSteps, ThreadsInv, ClockInv
<1>2. /\ DOMAIN watch' = WatchMembers /\ watch'.passes = watch.passes + 1 /\ watch'.nr = watch.nr
      /\ watch'.arrived = watch.arrived /\ watch'.shown = watch.shown
      /\ watch'.plotted = watch.plotted /\ watch'.shots = watch.shots
  BY <1>1 DEF WatchMembers
<1>3. /\ ProducerData'
      /\ producer'.now = producer.now /\ producer.now \in Nat
      /\ producer'.at = "done" \/ (producer'.at = "feed" /\ watch.passes < MaxPasses)
  <2>1. CASE user.running
    <3>1. PICK frames \in SimFrames : producer' = [producer EXCEPT !.at = "feed", !.queue = frames]
      BY <2>1 DEF Passes, ProducerSteps
    <3>2. frames \in Seq(Traffic) /\ watch.passes < MaxPasses
      BY <2>1, DashInputs DEF DashInputs, Passes
    <3> QED BY <1>1, <3>1, <3>2 DEF ProducerData, ProducerPlaces
  <2>2. CASE ~user.running
    <3>1. producer' = [producer EXCEPT !.at = "done"]
      BY <2>2 DEF Passes, ProducerSteps
    <3> QED BY <1>1, <3>1 DEF ProducerData, ProducerPlaces
  <2> QED BY <2>1, <2>2
<1>4. ViewStep
  BY <1>0, <1>1, <1>2, <1>3, SameLooks
<1>5. ThreadsInv'
  BY <1>0, <1>1, <1>2, <1>3 DEF ThreadsInv, UserData
<1>6. ClockInv'
  <2>1. CASE producer'.at = "done"
    BY <2>1 DEF ClockInv
  <2>2. CASE producer'.at = "feed" /\ watch.passes < MaxPasses
    <3> DEFINE p == watch.passes
    <3>1. p \in 0..MaxPasses /\ p < MaxPasses /\ watch'.passes = p + 1
      BY <1>1, <1>2, <2>2
    <3>2. MaxPasses \in Nat
      BY LongestIs
    <3> HIDE DEF p
    <3>3. p + 1 \in 1..MaxPasses /\ (p + 1) - 1 = p
      BY <3>1, <3>2
    <3>4. producer'.now <= Longest * ((p + 1) - 1)
      BY <1>1, <1>3, <3>3 DEF p
    <3> QED BY <2>2, <3>1, <3>3, <3>4 DEF ClockInv
  <2> QED BY <1>3, <2>1, <2>2
<1> QED BY <1>4, <1>5, <1>6

LEMMA SleepsStep ==
  ASSUME DashInv, ProducerSleeps, UNCHANGED watch
  PROVE  ViewStep /\ ThreadsInv' /\ ClockInv'
<1>0. ViewInv /\ ThreadsInv /\ ClockInv
  BY DEF DashInv
<1>1. /\ producer.at = "sleep" /\ UNCHANGED <<view, user, periodic>>
      /\ ProducerData
      /\ watch.passes \in 1..MaxPasses /\ producer.now <= Longest * (watch.passes - 1)
  BY <1>0 DEF ProducerSleeps, ThreadsInv, ClockInv
<1>2. PICK pass \in Pass : producer' = [producer EXCEPT !.at = "step", !.now = @ + pass]
  BY DEF ProducerSleeps
<1>3. pass \in Nat /\ pass <= Longest /\ Longest \in Nat /\ MaxPasses \in Nat
  BY LongestIs
<1>4. /\ ProducerData'
      /\ producer'.now = producer.now + pass /\ producer.now \in Nat /\ producer'.at = "step"
  BY <1>1, <1>2, <1>3 DEF ProducerData, ProducerPlaces
<1>5. ViewStep
  <2>1. producer'.now \in Nat /\ producer'.now >= producer.now
    BY <1>3, <1>4
  <2> QED BY <1>0, <1>1, <2>1, SameLooks
<1>6. ThreadsInv'
  BY <1>0, <1>1, <1>4 DEF ThreadsInv, UserData
<1>7. ClockInv'
  <2> DEFINE p == watch.passes
             t == producer.now
  <2>1. p \in 1..MaxPasses /\ t \in Nat /\ t <= Longest * (p - 1)
    BY <1>1, <1>4
  <2> HIDE DEF p, t
  <2>2. p \in Nat /\ Longest * (p - 1) = (Longest * p) - Longest /\ Longest * p \in Nat
    BY <1>3, <2>1
  <2>3. t + pass <= Longest * p /\ p \in 0..MaxPasses
    BY <1>3, <2>1, <2>2
  <2>4. producer'.now <= Longest * watch'.passes /\ watch'.passes \in 0..MaxPasses
    BY <1>4, <2>3 DEF p, t
  <2> QED BY <1>4, <2>4 DEF ClockInv
<1> QED BY <1>5, <1>6, <1>7

-----------------------------------------------------------------------------
(* The thread of the user.                                                 *)
UserKeeps == UserData' /\ periodic' \in Seq(DOMAIN Composed)

Sends == /\ user.message \in DOMAIN Composed
         /\ view' = Ingest(view, Stamp(Composed[user.message], 0, Nr))

OnlyLooks ==
  /\ DOMAIN view' = ViewMembers /\ view'.paused \in BOOLEAN
  /\ \A member \in ViewMembers \ {"filter", "paused", "selected", "history"} :
       view'[member] = view[member]
  /\ \/ view'.selected = view.selected /\ view'.history = view.history
     \/ view'.selected # view.selected /\ view'.history = FreshHistory

LEMMA SameOnlyLooks ==
  ASSUME ViewInv, view' = view
  PROVE  OnlyLooks
BY DEF OnlyLooks, ViewInv, ViewData

LEMMA StopsPeriodicIs ==
  ASSUME ThreadsInv, NEW text, StopsPeriodic(text)
  PROVE  UserKeeps /\ view' = view
<1>1. UserData /\ user' = [user EXCEPT !.status = text, !.at = "loop"] /\ periodic' = <<>>
      /\ view' = view
  BY DEF ThreadsInv, StopsPeriodic, Reports
<1>2. UserData'
  BY <1>1 DEF UserData, UserMembers, UserPlaces
<1> QED BY <1>1, <1>2, EmptySeq DEF UserKeeps

LEMMA TransmitsIs ==
  ASSUME ThreadsInv, NEW repeat \in BOOLEAN, Transmits(repeat, Nr)
  PROVE  UserKeeps /\ (view' = view \/ Sends)
<1>1. UserData /\ periodic \in Seq(DOMAIN Composed)
  BY DEF ThreadsInv
<1>2. CASE user.message = None
  BY <1>2, StopsPeriodicIs DEF Transmits
<1>3. CASE user.message # None /\ user.message \in DOMAIN Composed
  <2>1. /\ periodic' = periodic /\ view' = Ingest(view, Stamp(Composed[user.message], 0, Nr))
        /\ user' = [user EXCEPT !.status = "sent", !.at = IF repeat THEN "repeat" ELSE "loop"]
    BY <1>3 DEF Transmits, Reports
  <2>2. UserData'
    BY <1>1, <1>3, <2>1 DEF UserData, UserMembers, UserPlaces
  <2> QED BY <1>1, <1>3, <2>1, <2>2 DEF UserKeeps, Sends
<1>4. CASE user.message # None /\ user.message \notin DOMAIN Composed
  <2>1. /\ periodic' = periodic /\ view' = view
        /\ user' = [user EXCEPT !.status = "error", !.at = "loop"]
    BY <1>4 DEF Transmits, Reports
  <2>2. UserData'
    BY <1>1, <2>1 DEF UserData, UserMembers, UserPlaces
  <2> QED BY <1>1, <2>1, <2>2 DEF UserKeeps
<1> QED BY <1>2, <1>3, <1>4

LEMMA AppliedIs ==
  ASSUME ViewInv, view' = Applied
  PROVE  OnlyLooks
<1> DEFINE typed == user.typed
           signal == user.signal
           filtered == [view EXCEPT !.filter = typed]
<1>0. DOMAIN view = ViewMembers /\ view.paused \in BOOLEAN
  BY DEF ViewInv, ViewData
<1> HIDE DEF typed, signal
<1>1. view' = IF signal = None THEN filtered ELSE Selected(filtered, signal)
  BY DEF Applied, typed, signal
<1>2. CASE signal = None
  BY <1>0, <1>1, <1>2 DEF OnlyLooks, ViewMembers
<1>3. CASE signal # None
  <2>1. /\ DOMAIN filtered = ViewMembers
        /\ \A member \in ViewMembers \ {"filter"} : filtered[member] = view[member]
    BY <1>0 DEF ViewMembers
  <2>2. filtered.selected = view.selected /\ filtered.history = view.history
        /\ filtered.paused = view.paused
    BY <2>1 DEF ViewMembers
  <2> HIDE DEF filtered
  <2> DEFINE history == IF signal = view.selected THEN view.history ELSE FreshHistory
  <2>3. view' = [filtered EXCEPT !.selected = signal, !.history = history]
    BY <1>1, <1>3, <2>2 DEF Selected
  <2> HIDE DEF history
  <2>4. /\ DOMAIN view' = ViewMembers /\ view'.paused = view.paused /\ view'.selected = signal
        /\ view'.history = history
        /\ \A member \in ViewMembers \ {"filter", "paused", "selected", "history"} :
             view'[member] = view[member]
    BY <2>1, <2>2, <2>3 DEF ViewMembers
  <2> QED BY <1>0, <2>4 DEF OnlyLooks, history
<1> QED BY <1>2, <1>3

LEMMA PressesKeyIs ==
  ASSUME ViewInv, ThreadsInv, NEW k, PressesKey(k, Nr)
  PROVE  /\ UserKeeps /\ producer' = producer
         /\ OnlyLooks \/ (view' = Cleared(view) /\ k = "c") \/ (Sends /\ k # "c")
<1>1. UserData /\ periodic \in Seq(DOMAIN Composed) /\ producer' = producer /\ user.at = "loop"
  BY DEF ThreadsInv, PressesKey
<1>2. CASE k = "?" /\ Turns([user EXCEPT !.help = ~@], view)
  <2>1. UserData' /\ view' = view /\ periodic' = periodic
    BY <1>1, <1>2 DEF Turns, UserData, UserMembers, UserPlaces
  <2> QED BY <1>1, <2>1, SameOnlyLooks DEF UserKeeps
<1>3. CASE k # "?" /\ user.help /\ Turns([user EXCEPT !.help = FALSE], view)
  <2>1. UserData' /\ view' = view /\ periodic' = periodic
    BY <1>1, <1>3 DEF Turns, UserData, UserMembers, UserPlaces
  <2> QED BY <1>1, <2>1, SameOnlyLooks DEF UserKeeps
<1>4. CASE Turns([user EXCEPT !.running = FALSE, !.at = "join"], view)
  <2>1. UserData' /\ view' = view /\ periodic' = periodic
    BY <1>1, <1>4 DEF Turns, UserData, UserMembers, UserPlaces
  <2> QED BY <1>1, <2>1, SameOnlyLooks DEF UserKeeps
<1>5. CASE k \in DOMAIN PageOf /\ Turns([user EXCEPT !.page = PageOf[k]], view)
  <2>1. PageOf[k] \in 0..4
    BY <1>5 DEF PageOf
  <2> DEFINE page == PageOf[k]
  <2> HIDE DEF page
  <2>2. user' = [user EXCEPT !.page = page] /\ view' = view /\ periodic' = periodic
    BY <1>5 DEF Turns, page
  <2>3. UserData'
    BY <1>1, <2>1, <2>2 DEF UserData, UserMembers, UserPlaces, page
  <2> QED BY <1>1, <2>2, <2>3, SameOnlyLooks DEF UserKeeps
<1>6. CASE Turns(user, [view EXCEPT !.paused = ~@])
  <2>1. user' = user /\ periodic' = periodic /\ view' = [view EXCEPT !.paused = ~@]
    BY <1>6 DEF Turns
  <2>2. DOMAIN view = ViewMembers /\ view.paused \in BOOLEAN
    BY DEF ViewInv, ViewData
  <2>3. OnlyLooks
    BY <2>1, <2>2 DEF OnlyLooks, ViewMembers
  <2>4. UserData'
    BY <1>1, <2>1 DEF UserData
  <2> QED BY <1>1, <2>1, <2>3, <2>4 DEF UserKeeps
<1>7. CASE k = "c" /\ Turns(user, Cleared(view))
  <2>1. user' = user /\ periodic' = periodic /\ view' = Cleared(view)
    BY <1>7 DEF Turns
  <2>2. UserData'
    BY <1>1, <2>1 DEF UserData
  <2> QED BY <1>1, <1>7, <2>1, <2>2 DEF UserKeeps
<1>8. CASE Turns([user EXCEPT !.at = IF user.page = TransmitPage THEN "send" ELSE "loop"], Applied)
  <2>1. /\ user' = [user EXCEPT !.at = IF user.page = TransmitPage THEN "send" ELSE "loop"]
        /\ periodic' = periodic /\ view' = Applied
    BY <1>8 DEF Turns
  <2>2. UserData'
    BY <1>1, <2>1 DEF UserData, UserMembers, UserPlaces
  <2> QED BY <1>1, <2>1, <2>2, AppliedIs DEF UserKeeps
<1>9. CASE k = "p" /\ Transmits(TRUE, Nr)
  BY <1>1, <1>9, TransmitsIs, SameOnlyLooks
<1>10. CASE StopsPeriodic("stopped")
  BY <1>1, <1>10, StopsPeriodicIs, SameOnlyLooks
<1> QED BY <1>2, <1>3, <1>4, <1>5, <1>6, <1>7, <1>8, <1>9, <1>10 DEF PressesKey

(* What the watch makes of the steps of the user.                          *)
LEMMA TotalIs ==
  ASSUME ViewInv
  PROVE  view.total \in Nat
BY LenProperties DEF ViewInv, ViewData, StatisticsAddUp

LEMMA NoShot ==
  ASSUME view'.total # view.total + 1
  PROVE  Shot = watch
BY DEF Shot

LEMMA SentShot ==
  ASSUME ViewInv, ThreadsInv, Sends
  PROVE  LET f == Composed[user.message]
         IN  /\ f \in Traffic /\ view'.selected = view.selected
             /\ DOMAIN Shot = WatchMembers /\ Shot.nr = Nr /\ Shot.passes = watch.passes
             /\ Shot.shots = TRUE /\ Shot.arrived = Observe(f, watch).arrived
             /\ Shot.shown = Observe(f, watch).shown /\ Shot.plotted = Observe(f, watch).plotted
<1> DEFINE f == Composed[user.message]
           g == Stamp(f, 0, Nr)
           o == Observe(f, watch)
<1>1. f \in Traffic
  BY ComposedIsTraffic DEF Sends
<1>2. DOMAIN view = ViewMembers /\ DOMAIN watch = WatchMembers
  BY DEF ViewInv, ViewData, ThreadsInv
<1>3. view'.total = view.total + 1 /\ view'.selected = view.selected
  <2>1. view' = Ingest(view, g)
    BY DEF Sends
  <2> HIDE DEF g
  <2>2. Ingest(view, g).total = view.total + 1 /\ Ingest(view, g).selected = view.selected
    BY <1>2, IngestIs
  <2> QED BY <2>1, <2>2
<1>4. Shot = [o EXCEPT !.shots = TRUE]
  BY <1>3 DEF Shot
<1>5. DOMAIN o = WatchMembers /\ o.nr = Nr /\ o.passes = watch.passes
  BY <1>2, ObserveIs
<1> HIDE DEF o
<1>6. /\ DOMAIN Shot = WatchMembers /\ Shot.nr = Nr /\ Shot.passes = watch.passes
      /\ Shot.shots = TRUE /\ Shot.arrived = o.arrived
      /\ Shot.shown = o.shown /\ Shot.plotted = o.plotted
  BY <1>4, <1>5 DEF WatchMembers
<1> QED BY <1>1, <1>3, <1>6 DEF o

(* The clock stands still while the user does something.                   *)
LEMMA UserStepKeeps ==
  ASSUME ThreadsInv, ClockInv, UserKeeps, producer' = producer,
         DOMAIN watch' = WatchMembers, watch'.passes = watch.passes
  PROVE  ThreadsInv' /\ ClockInv'
<1>1. ThreadsInv'
  BY DEF ThreadsInv, UserKeeps, ProducerData
<1>2. ClockInv'
  BY DEF ClockInv
<1> QED BY <1>1, <1>2

LEMMA KeyStep ==
  ASSUME DashInv, NEW k, Key(k)
  PROVE  ViewStep /\ ThreadsInv' /\ ClockInv'
<1> DEFINE w == [Shot EXCEPT !.keys = @ + 1]
           plotted == IF view'.selected = view.selected THEN w.plotted ELSE <<>>
<1>0. ViewInv /\ ThreadsInv /\ ClockInv
  BY DEF DashInv
<1>1. /\ UserKeeps /\ producer' = producer
      /\ OnlyLooks \/ (view' = Cleared(view) /\ k = "c") \/ (Sends /\ k # "c")
  BY <1>0, PressesKeyIs DEF Key
<1>2. watch' = IF k = "c" /\ view' = Cleared(view)
               THEN [w EXCEPT !.arrived = <<>>, !.shown = <<>>, !.plotted = <<>>, !.shots = FALSE]
               ELSE [w EXCEPT !.plotted = plotted]
  BY DEF Key
<1>3. DOMAIN watch = WatchMembers /\ view.total \in Nat /\ producer.now \in Nat
  BY <1>0, TotalIs DEF ThreadsInv, ProducerData
<1>4. ASSUME Shot = watch
      PROVE  /\ DOMAIN w = WatchMembers /\ w.nr = watch.nr /\ w.passes = watch.passes
             /\ w.arrived = watch.arrived /\ w.shown = watch.shown
             /\ w.plotted = watch.plotted /\ w.shots = watch.shots
  BY <1>3, <1>4 DEF WatchMembers
<1>5. ViewStep /\ DOMAIN watch' = WatchMembers /\ watch'.passes = watch.passes
  <2>1. CASE k = "c" /\ view' = Cleared(view)
    <3>1. view'.total = 0
      BY <2>1 DEF Cleared, FreshView
    <3>2. Shot = watch
      BY <1>3, <3>1, NoShot
    <3> HIDE DEF w
    <3>3. watch' = [w EXCEPT !.arrived = <<>>, !.shown = <<>>, !.plotted = <<>>, !.shots = FALSE]
      BY <1>2, <2>1
    <3>4. /\ DOMAIN watch' = WatchMembers /\ watch'.nr = watch.nr /\ watch'.passes = watch.passes
          /\ watch'.arrived = <<>> /\ watch'.shown = <<>> /\ watch'.plotted = <<>>
          /\ watch'.shots = FALSE
      BY <1>4, <3>2, <3>3 DEF WatchMembers
    <3> QED BY <1>1, <2>1, <3>4 DEF ViewStep, Clears
  <2>2. CASE ~(k = "c" /\ view' = Cleared(view)) /\ OnlyLooks
    <3>1. view'.total = view.total
      BY <2>2 DEF OnlyLooks, ViewMembers
    <3>2. Shot = watch
      BY <1>3, <3>1, NoShot
    <3>3. watch' = [w EXCEPT !.plotted = plotted]
      BY <1>2, <2>2
    <3> HIDE DEF w, plotted
    <3>4. /\ DOMAIN watch' = WatchMembers /\ watch'.nr = watch.nr /\ watch'.passes = watch.passes
          /\ watch'.arrived = watch.arrived /\ watch'.shown = watch.shown
          /\ watch'.shots = watch.shots /\ watch'.plotted = plotted
      BY <1>4, <3>2, <3>3 DEF WatchMembers
    <3>5. \/ view'.history = view.history /\ watch'.plotted = watch.plotted
          \/ view'.history = FreshHistory /\ watch'.plotted = <<>>
      BY <1>4, <2>2, <3>2, <3>4 DEF OnlyLooks, plotted
    <3>6. Looks
      BY <1>1, <1>3, <2>2, <3>4, <3>5 DEF Looks, OnlyLooks
    <3> QED BY <3>4, <3>6 DEF ViewStep
  <2>3. CASE Sends /\ k # "c"
    <3> DEFINE f == Composed[user.message]
    <3>1. /\ f \in Traffic /\ view'.selected = view.selected
          /\ DOMAIN Shot = WatchMembers /\ Shot.nr = Nr /\ Shot.passes = watch.passes
          /\ Shot.shots = TRUE /\ Shot.arrived = Observe(f, watch).arrived
          /\ Shot.shown = Observe(f, watch).shown /\ Shot.plotted = Observe(f, watch).plotted
      BY <1>0, <2>3, SentShot
    <3>2. view' = Ingest(view, Stamp(f, 0, Nr))
      BY <2>3 DEF Sends
    <3> HIDE DEF f
    <3>3. /\ DOMAIN w = WatchMembers /\ w.nr = Nr /\ w.passes = watch.passes
          /\ w.shots = TRUE /\ w.arrived = Shot.arrived /\ w.shown = Shot.shown
          /\ w.plotted = Shot.plotted
      BY <3>1 DEF WatchMembers
    <3> HIDE DEF w
    <3>4. watch' = [w EXCEPT !.plotted = w.plotted]
      BY <1>2, <2>3, <3>1
    <3>5. /\ DOMAIN watch' = WatchMembers /\ watch'.nr = Nr /\ watch'.passes = watch.passes
          /\ watch'.shots = TRUE /\ watch'.arrived = Observe(f, watch).arrived
          /\ watch'.shown = Observe(f, watch).shown /\ watch'.plotted = Observe(f, watch).plotted
      BY <3>1, <3>3, <3>4 DEF WatchMembers
    <3>6. Arrives(f, 0)
      BY <1>0, <1>1, <3>1, <3>2, <3>5, TakenInArrives
    <3>7. 0 \in Times
      BY <1>0, ClockFits
    <3> QED BY <3>1, <3>5, <3>6, <3>7 DEF ViewStep
  <2> QED BY <1>1, <2>1, <2>2, <2>3
<1> QED BY <1>0, <1>1, <1>5, UserStepKeeps

LEMMA SendsOnceStep ==
  ASSUME DashInv, SendsOnce(Nr), watch' = Shot
  PROVE  ViewStep /\ ThreadsInv' /\ ClockInv'
<1>0. ViewInv /\ ThreadsInv /\ ClockInv
  BY DEF DashInv
<1>1. UserKeeps /\ producer' = producer /\ (view' = view \/ Sends)
  BY <1>0, TransmitsIs DEF SendsOnce
<1>2. DOMAIN watch = WatchMembers /\ view.total \in Nat /\ producer.now \in Nat
  BY <1>0, TotalIs DEF ThreadsInv, ProducerData
<1>3. ViewStep /\ DOMAIN watch' = WatchMembers /\ watch'.passes = watch.passes
  <2>1. CASE view' = view
    <3>1. watch' = watch
      BY <1>2, <2>1, NoShot
    <3>2. ViewStep
      BY <1>0, <1>1, <1>2, <2>1, <3>1, SameLooks
    <3> QED BY <1>2, <3>1, <3>2
  <2>2. CASE Sends
    <3> DEFINE f == Composed[user.message]
    <3>1. /\ f \in Traffic
          /\ DOMAIN Shot = WatchMembers /\ Shot.nr = Nr /\ Shot.passes = watch.passes
          /\ Shot.shots = TRUE /\ Shot.arrived = Observe(f, watch).arrived
          /\ Shot.shown = Observe(f, watch).shown /\ Shot.plotted = Observe(f, watch).plotted
      BY <1>0, <2>2, SentShot
    <3>2. view' = Ingest(view, Stamp(f, 0, Nr))
      BY <2>2 DEF Sends
    <3> HIDE DEF f
    <3>3. Arrives(f, 0)
      BY <1>0, <1>1, <3>1, <3>2, TakenInArrives
    <3>4. 0 \in Times
      BY <1>0, ClockFits
    <3> QED BY <3>1, <3>3, <3>4 DEF ViewStep
  <2> QED BY <1>1, <2>1, <2>2
<1> QED BY <1>0, <1>1, <1>3, UserStepKeeps

(* The steps that leave the view model alone.                              *)
LEMMA AsideStep ==
  ASSUME DashInv,
         \/ Edits
         \/ AddsPeriodic /\ UNCHANGED watch
         \/ Joins /\ UNCHANGED watch
         \/ UNCHANGED vars
  PROVE  ViewStep /\ ThreadsInv' /\ ClockInv'
<1>0. ViewInv /\ ThreadsInv /\ ClockInv /\ UserData /\ periodic \in Seq(DOMAIN Composed)
      /\ DOMAIN watch = WatchMembers /\ producer.now \in Nat
  BY DEF DashInv, ThreadsInv, ProducerData
<1>1. /\ view' = view /\ producer' = producer
      /\ watch' \in {watch, [watch EXCEPT !.typed = @ + 1]}
  BY DEF Edits, MovesFocus, Types, AddsPeriodic, Joins, vars
<1>2. UserKeeps
  <2>1. CASE Edits
    <3>1. CASE MovesFocus
      <4>1. user' = [user EXCEPT !.focused = ~@] /\ periodic' = periodic
        BY <3>1 DEF MovesFocus
      <4>2. UserData'
        BY <1>0, <4>1 DEF UserData, UserMembers
      <4> QED BY <1>0, <4>1, <4>2 DEF UserKeeps
    <3>2. CASE Types
      <4>1. PICK field \in {"typed", "signal", "message"} : \E v : user' = [user EXCEPT ![field] = v]
        BY <3>2 DEF Types
      <4>2. PICK v : user' = [user EXCEPT ![field] = v]
        BY <4>1
      <4>3. user.at = "loop" /\ periodic' = periodic
        BY <3>2 DEF Types
      <4>4. UserData'
        BY <1>0, <4>2, <4>3 DEF UserData, UserMembers
      <4> QED BY <1>0, <4>3, <4>4 DEF UserKeeps
    <3> QED BY <2>1, <3>1, <3>2 DEF Edits
  <2>2. CASE AddsPeriodic
    <3>1. /\ user.message \in DOMAIN Composed /\ periodic' = Append(periodic, user.message)
          /\ user' = [user EXCEPT !.at = "loop"]
      BY <1>0, <2>2 DEF AddsPeriodic, UserData
    <3>2. UserData'
      BY <1>0, <3>1 DEF UserData, UserMembers, UserPlaces
    <3>3. periodic' \in Seq(DOMAIN Composed)
      BY <1>0, <3>1, AppendProperties
    <3> QED BY <3>2, <3>3 DEF UserKeeps
  <2>3. CASE Joins
    <3>1. user' = [user EXCEPT !.at = "done"] /\ periodic' = periodic
      BY <2>3 DEF Joins
    <3>2. UserData'
      BY <1>0, <3>1 DEF UserData, UserMembers, UserPlaces
    <3> QED BY <1>0, <3>1, <3>2 DEF UserKeeps
  <2>4. CASE UNCHANGED vars
    BY <1>0, <2>4 DEF vars, UserKeeps, UserData
  <2> QED BY <2>1, <2>2, <2>3, <2>4
<1>3. /\ watch'.nr = watch.nr /\ watch'.arrived = watch.arrived /\ watch'.shown = watch.shown
      /\ watch'.plotted = watch.plotted /\ watch'.shots = watch.shots
      /\ DOMAIN watch' = WatchMembers /\ watch'.passes = watch.passes
  BY <1>0, <1>1 DEF WatchMembers
<1>4. ViewStep
  BY <1>0, <1>1, <1>3, SameLooks
<1> QED BY <1>0, <1>1, <1>2, <1>3, <1>4, UserStepKeeps

-----------------------------------------------------------------------------
(* Both threads begin.                                                     *)
LEMMA DashInvInit ==
  ASSUME Init
  PROVE  DashInv
<1>1. ThreadsInv
  <2>1. ProducerData
    BY EmptySeq DEF Init, DashInit, ProducerData, ProducerPlaces
  <2>2. UserData
    BY DEF Init, DashInit, FreshUser, UserData, UserMembers, UserPlaces
  <2>3. periodic \in Seq(DOMAIN Composed)
    BY EmptySeq DEF Init, DashInit
  <2>4. DOMAIN watch = WatchMembers /\ watch.passes \in Nat
    BY DEF Init, WatchMembers
  <2> QED BY <2>1, <2>2, <2>3, <2>4 DEF ThreadsInv
<1>2. ClockInv
  <2>1. producer.at = "step" /\ producer.now = 0 /\ watch.passes = 0
    BY DEF Init, DashInit
  <2>2. Longest \in Nat /\ MaxPasses \in Nat
    BY LongestIs
  <2> QED BY <2>1, <2>2 DEF ClockInv
<1> QED BY <1>1, <1>2, ViewInvInit DEF DashInv

(* One step of either thread.                                              *)
LEMMA DashInvNext ==
  ASSUME DashInv, [Next]_vars
  PROVE  DashInv'
<1>1. ViewStep /\ ThreadsInv' /\ ClockInv'
  <2>1. CASE Feeds
    BY <2>1, FeedsStep
  <2>2. CASE Repeats
    BY <2>2, RepeatsStep
  <2>3. CASE Passes
    BY <2>3, PassesStep
  <2>4. CASE ProducerSleeps /\ UNCHANGED watch
    BY <2>4, SleepsStep
  <2>5. ASSUME NEW k \in Keys, Key(k) PROVE ViewStep /\ ThreadsInv' /\ ClockInv'
    BY <2>5, KeyStep
  <2>6. CASE SendsOnce(Nr) /\ watch' = Shot
    BY <2>6, SendsOnceStep
  <2>7. CASE \/ Edits
             \/ AddsPeriodic /\ UNCHANGED watch
             \/ Joins /\ UNCHANGED watch
             \/ UNCHANGED vars
    BY <2>7, AsideStep
  <2> QED BY <2>1, <2>2, <2>3, <2>4, <2>5, <2>6, <2>7 DEF Next, Producer, User
<1>2. ViewInv'
  BY <1>1, ViewInvStep DEF DashInv
<1> QED BY <1>1, <1>2 DEF DashInv

(* What the invariant says about the types, the rates and the panes.       *)
LEMMA ViewIsTyped ==
  ASSUME DashInv
  PROVE  ViewTypeOK
<1>0. ViewData /\ TraceIsKept /\ PlotIsKept /\ ProducerData /\ UserData
      /\ periodic \in Seq(DOMAIN Composed)
  BY DEF DashInv, ViewInv, ThreadsInv
<1>1. TraceCapacity \in Nat /\ HistoryCapacity \in Nat
  BY DashInputs DEF DashInputs
<1>2. \A l, n \in Nat : UpTo(l, n) <= n
  BY DEF UpTo
<1>3. Len(view.trace) <= TraceCapacity
  <2>1. watch.shown \in Seq(Nat) /\ Len(view.trace) = Len(Latest(watch.shown, TraceCapacity))
    BY <1>0 DEF ViewData, TraceIsKept
  <2>2. Len(Latest(watch.shown, TraceCapacity)) = UpTo(Len(watch.shown), TraceCapacity)
        /\ Len(watch.shown) \in Nat
    BY <1>1, <2>1, LatestIs, LenProperties
  <2> QED BY <1>1, <1>2, <2>1, <2>2
<1>4. Len(view.history.samples) <= HistoryCapacity
  <2>1. /\ watch.plotted \in Seq(Int)
        /\ view.history.samples = Latest(watch.plotted, HistoryCapacity)
    BY <1>0 DEF ViewData, PlotIsKept
  <2>2. Len(Latest(watch.plotted, HistoryCapacity)) = UpTo(Len(watch.plotted), HistoryCapacity)
        /\ Len(watch.plotted) \in Nat
    BY <1>1, <2>1, LatestIs, LenProperties
  <2> QED BY <1>1, <1>2, <2>1, <2>2
<1>5. \A i \in DOMAIN view.recent : view.recent[i] \in 0..(TimeWord - 1)
  BY <1>0, LenProperties, ElementOfSeq DEF ViewData, Times
<1>6. Range(periodic) \subseteq DOMAIN Composed
  BY <1>0, LenProperties, ElementOfSeq DEF Range
<1> QED BY <1>0, <1>3, <1>4, <1>5, <1>6
        DEF ViewTypeOK, ViewData, UserData, ProducerData, UserPlaces, ProducerPlaces

LEMMA RatesFollow ==
  ASSUME DashInv
  PROVE  RatesAreMeasured
<1> SUFFICES ASSUME ~watch.shots
             PROVE  /\ FramesPerSecond(view) = Cardinality(RecentArrivals)
                    /\ \A id \in DOMAIN view.messages :
                         view.messages[id].sum = view.messages[id].last - view.messages[id].first
  BY DEF RatesAreMeasured
<1> DEFINE n == Len(watch.arrived)
           r == Len(view.recent)
<1>1. /\ watch.arrived \in Seq([id : STRING, node : NodeNames, at : Times])
      /\ view.recent \in Seq(Times) /\ view.now \in Times
  BY DEF DashInv, ViewInv, ViewData
<1>2. /\ n \in Nat /\ r \in Nat /\ DOMAIN watch.arrived = 1..n
      /\ \A i \in 1..n : watch.arrived[i].at \in Times
  <2>1. \A a \in [id : STRING, node : NodeNames, at : Times] : a.at \in Times
    OBVIOUS
  <2>2. \A i \in 1..n : watch.arrived[i] \in [id : STRING, node : NodeNames, at : Times]
    BY <1>1, ElementOfSeq
  <2> QED BY <1>1, <2>1, <2>2, LenProperties
<1>3. /\ \A i \in 1..n : watch.arrived[i].at <= view.now
      /\ r <= n
      /\ \A i \in 1..n : view.now - watch.arrived[i].at <= RateWindow <=> i > n - r
  BY DEF DashInv, ViewInv, TimeIsKept, WindowIsKept, Gone
<1>4. \A i \in 1..n : Elapsed(watch.arrived[i].at, view.now) = view.now - watch.arrived[i].at
  BY <1>1, <1>2, <1>3, ElapsedIs
<1> HIDE DEF n, r
<1>5. RecentArrivals = {i \in 1..n : i > n - r}
  BY <1>2, <1>3, <1>4 DEF RecentArrivals
<1>6. {i \in 1..n : i > n - r} = ((n - r) + 1)..n
  BY <1>2, <1>3
<1>7. Cardinality(((n - r) + 1)..n) = r
  <2>1. (n - r) + 1 \in Int /\ n \in Int
    BY <1>2
  <2>2. Cardinality(((n - r) + 1)..n) =
          IF (n - r) + 1 > n THEN 0 ELSE n - ((n - r) + 1) + 1
    BY <2>1, FS_Interval
  <2> QED BY <1>2, <1>3, <2>2
<1>8. \A id \in DOMAIN view.messages :
        view.messages[id].sum = view.messages[id].last - view.messages[id].first
  BY DEF DashInv, ViewInv, TimeIsKept
<1> QED BY <1>5, <1>6, <1>7, <1>8 DEF FramesPerSecond, r

LEMMA PanesFollow ==
  ASSUME DashInv
  PROVE  PanesShowTheLatest
<1>0. ViewData /\ TraceIsKept /\ PlotIsKept
  BY DEF DashInv, ViewInv
<1>1. TraceShowsTheLatest
  <2> DEFINE t == view.trace
             s == Latest(watch.shown, TraceCapacity)
  <2>1. t \in Seq(Entries) /\ s \in Seq(Nat)
    BY <1>0, LatestIs, DashInputs DEF ViewData, DashInputs
  <2>2. Len(t) = Len(s) /\ \A i \in 1..Len(t) : t[i].nr = s[i]
    BY <1>0 DEF TraceIsKept
  <2> HIDE DEF t, s
  <2>3. DOMAIN t = 1..Len(t) /\ s = [i \in 1..Len(s) |-> s[i]]
    BY <2>1, LenProperties
  <2>4. [i \in DOMAIN t |-> t[i].nr] = s
    BY <2>2, <2>3
  <2> QED BY <1>0, <2>4 DEF TraceShowsTheLatest, TraceIsKept, t, s
<1>2. \A l \in Range(Levels(view.history, 8)) : l \in 0..7
  <2> DEFINE h == view.history
  <2>1. h.samples \in Seq(Int) /\ Len(h.samples) \in Nat
    BY <1>0, LenProperties DEF ViewData
  <2>2. CASE Len(h.samples) = 0
    <3>1. DOMAIN h.samples = {}
      BY <2>1, <2>2, LenProperties
    <3>2. DOMAIN Levels(h, 8) = {}
      BY <3>1 DEF Levels
    <3> QED BY <3>2 DEF Range
  <2>3. CASE Len(h.samples) > 0
    <3>1. h.samples # <<>>
      BY <2>3, EmptySeq
    <3>2. h.min = Min(Range(h.samples)) /\ h.max = Max(Range(h.samples))
      BY <1>0, <3>1 DEF PlotIsKept
    <3>3. /\ h.min \in Int /\ h.max \in Int
          /\ \A i \in 1..Len(h.samples) : h.min <= h.samples[i] /\ h.samples[i] <= h.max
      BY <2>1, <2>3, <3>2, ExtremesAre
    <3> HIDE DEF h
    <3>4. \A l \in Range(Levels(h, 8)) : l \in 0..7
      BY <2>1, <3>3, LevelsInRows
    <3> QED BY <3>4 DEF h
  <2> QED BY <2>1, <2>2, <2>3
<1> QED BY <1>0, <1>1, <1>2 DEF PanesShowTheLatest, PlotIsOfTheSelection, PlotIsKept

(* The inductive invariant holds in every state (Dashboard.cpp, ViewModel).*)
THEOREM DashInvAlways == Spec => []DashInv
<1>1. Init => DashInv
  BY DashInvInit
<1>2. DashInv /\ [Next]_vars => DashInv'
  BY DashInvNext
<1> QED BY <1>1, <1>2, PTL DEF Spec

(* The numbers on the screen are true in every state of the two threads:   *)
(* they count what arrived since they were cleared, under its identifier   *)
(* and its sender, and the rate and the periods are those of the times of  *)
(* arrival (ingest(), clear(), snapshot()).                                *)
THEOREM StatisticsStayTrue == Spec => []StatisticsAreTrue
<1>1. DashInv => StatisticsAreTrue
  BY ViewIsTyped, RatesFollow DEF StatisticsAreTrue, DashInv, ViewInv
<1> QED BY <1>1, DashInvAlways, PTL

(* The trace and the plot show the latest of what they are about, whoever  *)
(* sent it and however often the user paused, filtered, selected or        *)
(* cleared (ingest(), SignalHistory::push(), select_signal()).             *)
THEOREM PanesStayCurrent == Spec => []PanesShowTheLatest
<1>1. DashInv => PanesShowTheLatest
  BY PanesFollow
<1> QED BY <1>1, DashInvAlways, PTL

=============================================================================
