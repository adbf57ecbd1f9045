----------------------------- MODULE StMinWalk -----------------------------
(***************************************************************************)
(* Walks through the separation times a caller of ns_to_st_min may ask     *)
(* for, so that the encoding can be checked at each of them, and proves it *)
(* for every separation time and every byte.                               *)
(***************************************************************************)
EXTENDS IsoTp, TLAPS

CONSTANTS Stride,  \* distance between the requests walked through, in ns
          Longest  \* bound: where the walk ends

ASSUME WalkAssumption == Stride \in Nat \ {0} /\ Longest \in Nat

VARIABLE asked   \* the separation time asked for, in ns

WalkInit == asked \in {0, 1, Stride - 1}
Ask == asked + Stride <= Longest /\ asked' = asked + Stride
WalkSpec == WalkInit /\ [][Ask]_asked

(* ns_to_st_min never makes the peer faster than asked, but for the two    *)
(* ranges NotTooFast names, and of the bytes that honour the request it    *)
(* picks a quickest one.                                                   *)
EncodingIsQuickest == NotTooFast(asked) /\ NotTooSlow(asked)

-----------------------------------------------------------------------------
(* Rounding up to a unit gives the least number of units that covers ns.   *)
LEMMA RoundedUpCovers ==
  ASSUME NEW ns \in Nat
  PROVE  /\ RoundedUp(ns, GridNs) \in Nat
         /\ RoundedUp(ns, GridNs) * GridNs >= ns
         /\ RoundedUp(ns, GridNs) * GridNs < ns + GridNs
         /\ RoundedUp(ns, Millisecond) \in Nat
         /\ RoundedUp(ns, Millisecond) * Millisecond >= ns
         /\ RoundedUp(ns, Millisecond) * Millisecond < ns + Millisecond
BY DEF RoundedUp, GridNs, Millisecond

(* ns_to_st_min never asks the peer to go faster than its caller wanted,   *)
(* except where NotTooFast says so.                                        *)
LEMMA EncodingNotTooFast ==
  ASSUME NEW ns \in Nat
  PROVE  NotTooFast(ns)
<1> DEFINE grid == RoundedUp(ns, GridNs)
           ms == RoundedUp(ns, Millisecond)
<1>1. CASE ns = 0
  BY <1>1 DEF NotTooFast, NsToStMin, StMinToNs, Millisecond
<1>2. CASE ns # 0 /\ ns < Millisecond
  <2>1. /\ grid \in Nat /\ grid * 100000 >= ns /\ grid * 100000 < ns + 100000
    BY RoundedUpCovers DEF GridNs
  <2>2. NsToStMin(ns) = 240 + Capped(grid, 9)
    BY <1>2 DEF NsToStMin
  <2> HIDE DEF grid
  <2>3. CASE grid <= 9
    <3>1. grid # 0
      BY SMT, <1>2, <2>1
    <3>2. NsToStMin(ns) = 240 + grid /\ 240 + grid \in 241..249
      BY SMT, <2>1, <2>2, <2>3, <3>1 DEF Capped
    <3>3. StMinToNs(NsToStMin(ns)) = grid * 100000
      BY SMT, <2>1, <2>3, <3>2 DEF StMinToNs, GridNs
    <3>4. StMinToNs(NsToStMin(ns)) >= ns
      BY SMT, <2>1, <3>3
    <3> QED BY SMT, <3>4 DEF NotTooFast
  <2>4. CASE grid > 9
    <3>1. NsToStMin(ns) = 249
      BY SMT, <2>1, <2>2, <2>4 DEF Capped
    <3>2. StMinToNs(NsToStMin(ns)) = 900000
      BY SMT, <3>1 DEF StMinToNs, GridNs
    <3>3. ns < 1000000 /\ ns > 900000
      BY SMT, <1>2, <2>1, <2>4 DEF Millisecond
    <3> QED BY SMT, <3>2, <3>3 DEF NotTooFast
  <2> QED BY <2>1, <2>3, <2>4
<1>3. CASE ns >= Millisecond
  <2>1. /\ ms \in Nat /\ ms * 1000000 >= ns /\ ms * 1000000 < ns + 1000000
    BY RoundedUpCovers DEF Millisecond
  <2>2. NsToStMin(ns) = Capped(ms, 127)
    BY <1>3 DEF NsToStMin, Millisecond
  <2> HIDE DEF ms
  <2> QED
    BY <2>1, <2>2, <1>3 DEF NotTooFast, StMinToNs, Capped, Millisecond, GridNs
<1> QED BY <1>1, <1>2, <1>3 DEF Millisecond

(* Every byte means a delay on one of the two grids, or the slowest rate.  *)
LEMMA DelaysAreOnTheGrid ==
  ASSUME NEW raw \in Raw
  PROVE  \/ \E n \in 0..127 : StMinToNs(raw) = n * 1000000
         \/ \E n \in 1..9 : StMinToNs(raw) = n * 100000
<1>1. CASE raw \in 0..127
  BY SMT, <1>1 DEF StMinToNs, Millisecond
<1>2. CASE raw \in 241..249
  <2>1. raw - 240 \in 1..9 /\ StMinToNs(raw) = (raw - 240) * 100000
    BY SMT, <1>2 DEF StMinToNs, GridNs
  <2> QED BY SMT, <2>1
<1>3. CASE raw \in Raw /\ raw > 127 /\ raw \notin 241..249
  <2>1. StMinToNs(raw) = 127 * 1000000
    BY SMT, <1>3 DEF StMinToNs, Millisecond, Raw
  <2> QED BY SMT, <2>1
<1> QED BY SMT, <1>1, <1>2, <1>3 DEF Raw

(* Of the bytes that honour a request ns_to_st_min picks a quickest one.   *)
LEMMA EncodingNotTooSlow ==
  ASSUME NEW ns \in Nat
  PROVE  NotTooSlow(ns)
<1> SUFFICES ASSUME NEW raw \in Raw, StMinToNs(raw) >= ns
             PROVE  StMinToNs(raw) >= StMinToNs(NsToStMin(ns))
  BY SMT DEF NotTooSlow
<1> DEFINE grid == RoundedUp(ns, GridNs)
           ms == RoundedUp(ns, Millisecond)
<1>0. StMinToNs(raw) \in Nat /\ StMinToNs(raw) >= ns
  BY DelaysAreOnTheGrid, SMT
<1>1. CASE ns = 0
  <2>1. StMinToNs(NsToStMin(ns)) = 0
    BY SMT, <1>1 DEF NsToStMin, StMinToNs, Millisecond
  <2> QED BY SMT, <1>0, <2>1
<1>2. CASE ns # 0 /\ ns < Millisecond
  <2>1. /\ grid \in Nat /\ grid * 100000 >= ns /\ grid * 100000 < ns + 100000
    BY SMT, RoundedUpCovers DEF GridNs
  <2>2. NsToStMin(ns) = 240 + Capped(grid, 9)
    BY SMT, <1>2 DEF NsToStMin
  <2>3. \/ grid <= 9 /\ StMinToNs(NsToStMin(ns)) = grid * 100000
        \/ grid > 9 /\ StMinToNs(NsToStMin(ns)) = 900000
    <3> HIDE DEF grid
    <3> QED BY SMT, <1>2, <2>1, <2>2 DEF Capped, StMinToNs, Millisecond, GridNs
  <2> HIDE DEF grid
  <2>4. CASE \E n \in 0..127 : StMinToNs(raw) = n * 1000000
    BY SMT, <1>0, <1>2, <2>1, <2>3, <2>4 DEF Millisecond
  <2>5. CASE \E n \in 1..9 : StMinToNs(raw) = n * 100000
    BY SMT, <1>0, <1>2, <2>1, <2>3, <2>5 DEF Millisecond
  <2> QED BY SMT, <2>4, <2>5, DelaysAreOnTheGrid
<1>3. CASE ns >= Millisecond
  <2>1. /\ ms \in Nat /\ ms * 1000000 >= ns /\ ms * 1000000 < ns + 1000000
    BY SMT, RoundedUpCovers DEF Millisecond
  <2>2. NsToStMin(ns) = Capped(ms, 127)
    BY SMT, <1>3 DEF NsToStMin, Millisecond
  <2>3. \/ ms <= 127 /\ StMinToNs(NsToStMin(ns)) = ms * 1000000
        \/ ms > 127 /\ StMinToNs(NsToStMin(ns)) = 127000000
    <3> HIDE DEF ms
    <3> QED BY SMT, <2>1, <2>2 DEF Capped, StMinToNs, Millisecond
  <2> HIDE DEF ms
  <2>4. CASE \E n \in 0..127 : StMinToNs(raw) = n * 1000000
    BY SMT, <1>0, <1>3, <2>1, <2>3, <2>4 DEF Millisecond
  <2>5. CASE \E n \in 1..9 : StMinToNs(raw) = n * 100000
    BY SMT, <1>0, <1>3, <2>5 DEF Millisecond
  <2> QED BY SMT, <2>4, <2>5, DelaysAreOnTheGrid
<1> QED BY SMT, <1>1, <1>2, <1>3 DEF Millisecond

(* The byte of a decoded delay is the byte it came from; the reserved ones *)
(* all become 0x7F.                                                        *)
THEOREM EncodingRoundTrips == RoundTrips
<1> SUFFICES ASSUME NEW raw \in Raw
             PROVE  NsToStMin(StMinToNs(raw)) = IF raw \in Meaningful THEN raw ELSE 127
  BY DEF RoundTrips
<1>1. CASE raw \in 0..127
  BY <1>1 DEF Raw, Meaningful, NsToStMin, StMinToNs, Capped, RoundedUp, Millisecond, GridNs
<1>2. CASE raw \in 241..249
  BY <1>2 DEF Raw, Meaningful, NsToStMin, StMinToNs, Capped, RoundedUp, Millisecond, GridNs
<1>3. CASE raw \in 128..240 \cup 250..255
  BY <1>3 DEF Raw, Meaningful, NsToStMin, StMinToNs, Capped, RoundedUp, Millisecond, GridNs
<1> QED BY <1>1, <1>2, <1>3 DEF Raw

(* Every separation time the walk asks for is encoded without making the   *)
(* peer too fast or slower than it need be.                                *)
THEOREM QuickestIsChosen == WalkSpec => []EncodingIsQuickest
<1> DEFINE Inv == asked \in Nat
<1>1. WalkInit => Inv
  BY WalkAssumption DEF WalkInit
<1>2. Inv /\ [Ask]_asked => Inv'
  BY WalkAssumption DEF Ask
<1>3. Inv => EncodingIsQuickest
  BY EncodingNotTooFast, EncodingNotTooSlow DEF EncodingIsQuickest
<1> QED BY <1>1, <1>2, <1>3, PTL DEF WalkSpec
=============================================================================
