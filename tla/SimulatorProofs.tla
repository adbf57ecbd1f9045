-------------------------- MODULE SimulatorProofs --------------------------
(***************************************************************************)
(* Proofs about the simulation, for every configuration.                   *)
(***************************************************************************)
EXTENDS Simulator, SequenceTheorems, FiniteSetTheorems, TLAPS

(* Induction, as a statement about sets of numbers.                        *)
LEMMA SetInduction ==
  ASSUME NEW T \in SUBSET Nat, 0 \in T, \A n \in T : n + 1 \in T
  PROVE  Nat \subseteq T
<1> DEFINE R == {ss \in Nat \X Nat : ss[1] < ss[2]}
<1>1. IsWellFoundedOn(R, Nat)
  BY NatLessThanWellFounded DEF OpToRel
<1>2. SUFFICES ASSUME Nat \ T # {} PROVE FALSE
  OBVIOUS
<1>3. \E x \in Nat \ T : \A y \in Nat \ T : ~(<<y, x>> \in R)
  <2> HIDE DEF R
  <2> QED BY <1>1, <1>2, WFMin
<1>4. PICK x \in Nat \ T : \A y \in Nat \ T : ~(<<y, x>> \in R)
  BY <1>3
<1>5. x # 0 /\ x - 1 \in Nat /\ <<x - 1, x>> \in R
  OBVIOUS
<1>6. x - 1 \in T
  BY <1>4, <1>5
<1> QED BY <1>6, <1>4

-----------------------------------------------------------------------------
(* Sequences of whatever.                                                  *)
IsSequence(s) == \E S : s \in Seq(S)

LEMMA OneSetForBoth ==
  ASSUME NEW s, NEW t, IsSequence(s), IsSequence(t)
  PROVE  \E S : s \in Seq(S) /\ t \in Seq(S)
<1>1. PICK A : s \in Seq(A)
  BY DEF IsSequence
<1>2. PICK B : t \in Seq(B)
  BY DEF IsSequence
<1>3. s \in Seq(A \cup B) /\ t \in Seq(A \cup B)
  BY <1>1, <1>2, SeqMonotonic
<1> QED BY <1>3

LEMMA SequenceHasALength ==
  ASSUME NEW s, IsSequence(s)
  PROVE  Len(s) \in Nat /\ DOMAIN s = 1..Len(s)
<1>1. PICK S : s \in Seq(S)
  BY DEF IsSequence
<1> QED BY <1>1, LenProperties

(* A loop that stops at the first that is still to come stops somewhere.   *)
LEMMA ReachedIs ==
  ASSUME NEW s, NEW t, IsSequence(s)
  PROVE  /\ Reached(s, t) \in 0..Len(s)
         /\ \A k \in 1..Reached(s, t) : s[k].at <= t
         /\ Reached(s, t) < Len(s) => ~(s[Reached(s, t) + 1].at <= t)
<1> DEFINE Stops(n) == /\ \A k \in 1..n : s[k].at <= t
                       /\ n < Len(s) => ~(s[n + 1].at <= t)
           T == {n \in Nat : n <= Len(s) => \A k \in 1..n : s[k].at <= t}
<1>1. Len(s) \in Nat
  BY SequenceHasALength
<1>2. SUFFICES \E n \in 0..Len(s) : Stops(n)
  BY <1>2 DEF Reached
<1>3. SUFFICES ASSUME \A n \in 0..Len(s) : ~Stops(n) PROVE FALSE
  OBVIOUS
<1>4. 0 \in T
  OBVIOUS
<1>5. ASSUME NEW n \in T PROVE n + 1 \in T
  <2> SUFFICES ASSUME n + 1 <= Len(s) PROVE \A k \in 1..(n + 1) : s[k].at <= t
    OBVIOUS
  <2>1. \A k \in 1..n : s[k].at <= t
    BY <1>1
  <2>2. s[n + 1].at <= t
    <3>1. n \in 0..Len(s)
      BY <1>1
    <3> QED BY <1>3, <2>1, <3>1
  <2> QED BY <2>1, <2>2
<1>6. Len(s) \in T
  BY <1>1, <1>4, <1>5, SetInduction
<1> QED BY <1>1, <1>3, <1>6

-----------------------------------------------------------------------------
(* An insertion moves what is later by one place.                          *)
LEMMA InsertedIs ==
  ASSUME NEW s, NEW x, IsSequence(s)
  PROVE  LET n == Reached(s, x.at)
             t == Inserted(s, x)
         IN  /\ IsSequence(t) /\ Len(t) = Len(s) + 1 /\ n \in 0..Len(s)
             /\ \A k \in 1..(Len(s) + 1) :
                  t[k] = IF k <= n THEN s[k] ELSE IF k = n + 1 THEN x ELSE s[k - 1]
<1> DEFINE n == Reached(s, x.at)
           t == Inserted(s, x)
<1>1. PICK A : s \in Seq(A)
  BY DEF IsSequence
<1> DEFINE S == A \cup {x}
           a == SubSeq(s, 1, n)
           b == Append(a, x)
           c == SubSeq(s, n + 1, Len(s))
<1>2. s \in Seq(S) /\ x \in S /\ Len(s) \in Nat /\ n \in 0..Len(s)
  BY <1>1, SeqMonotonic, SequenceHasALength, ReachedIs
<1>3. t = b \o c
  BY DEF Inserted
<1> HIDE DEF S, n, t
<1>4. a \in Seq(S) /\ Len(a) = n /\ \A k \in 1..n : a[k] = s[k]
  BY <1>2, SubSeqProperties
<1>5. c \in Seq(S) /\ Len(c) = Len(s) - n /\ \A k \in 1..(Len(s) - n) : c[k] = s[n + k]
  <2>1. n + 1 \in 1..(Len(s) + 1) /\ Len(s) \in n..Len(s)
    BY <1>2
  <2> QED BY <1>2, <2>1, SubSeqProperties
<1> HIDE DEF a, c
<1>6. b \in Seq(S) /\ Len(b) = n + 1 /\ b[n + 1] = x /\ \A k \in 1..n : b[k] = s[k]
  BY <1>2, <1>4, AppendProperties
<1> HIDE DEF b
<1>7. /\ t \in Seq(S) /\ Len(t) = Len(s) + 1
      /\ \A k \in 1..(Len(s) + 1) : t[k] = IF k <= n + 1 THEN b[k] ELSE c[k - (n + 1)]
  <2>1. /\ b \o c \in Seq(S) /\ Len(b \o c) = Len(b) + Len(c)
        /\ \A k \in 1..(Len(b) + Len(c)) : (b \o c)[k] = IF k <= Len(b) THEN b[k] ELSE c[k - Len(b)]
    BY <1>5, <1>6, ConcatProperties
  <2>2. Len(b) + Len(c) = Len(s) + 1
    BY <1>2, <1>5, <1>6
  <2> QED BY <1>3, <1>6, <2>1, <2>2
<1>8. ASSUME NEW k \in 1..(Len(s) + 1), k > n + 1
      PROVE  c[k - (n + 1)] = s[k - 1]
  <2>1. k - (n + 1) \in 1..(Len(s) - n) /\ n + (k - (n + 1)) = k - 1
    BY <1>2, <1>8
  <2> QED BY <1>5, <2>1
<1>9. /\ IsSequence(t) /\ Len(t) = Len(s) + 1 /\ n \in 0..Len(s)
      /\ \A k \in 1..(Len(s) + 1) :
           t[k] = IF k <= n THEN s[k] ELSE IF k = n + 1 THEN x ELSE s[k - 1]
  BY <1>2, <1>6, <1>7, <1>8 DEF IsSequence
<1> QED BY <1>9 DEF n, t

(* Before says in which order frames leave.                                *)
Timed(f) == f.at \in Int /\ f.nr \in Int
Before(f, g) == f.at < g.at \/ (f.at = g.at /\ f.nr < g.nr)
Entries(s) == {s[k] : k \in 1..Len(s)}
InTurn(s) ==
  /\ IsSequence(s)
  /\ \A k \in 1..Len(s) : Timed(s[k])
  /\ \A j, k \in 1..Len(s) : j < k => Before(s[j], s[k])

(* What is inserted comes after what is due at the same time.              *)
LEMMA InsertedInTurn ==
  ASSUME NEW s, NEW x, InTurn(s), Timed(x),
         \A k \in 1..Len(s) : s[k].at = x.at => s[k].nr < x.nr
  PROVE  /\ InTurn(Inserted(s, x)) /\ Len(Inserted(s, x)) = Len(s) + 1
         /\ Entries(Inserted(s, x)) = Entries(s) \cup {x}
<1> DEFINE n == Reached(s, x.at)
           t == Inserted(s, x)
<1>1. IsSequence(s) /\ Len(s) \in Nat
  BY SequenceHasALength DEF InTurn
<1>2. /\ IsSequence(t) /\ Len(t) = Len(s) + 1 /\ n \in 0..Len(s)
      /\ \A k \in 1..(Len(s) + 1) :
           t[k] = IF k <= n THEN s[k] ELSE IF k = n + 1 THEN x ELSE s[k - 1]
  BY <1>1, InsertedIs
<1>3. /\ \A k \in 1..n : s[k].at <= x.at
      /\ n < Len(s) => ~(s[n + 1].at <= x.at)
  BY <1>1, ReachedIs
<1> HIDE DEF n, t
<1>4. ASSUME NEW k \in 1..n
      PROVE  Before(s[k], x)
  BY <1>1, <1>2, <1>3 DEF Before, InTurn, Timed
<1>5. ASSUME NEW k \in (n + 1)..Len(s)
      PROVE  Before(x, s[k])
  <2>1. k \in 1..Len(s) /\ n + 1 \in 1..Len(s) /\ n < Len(s)
    BY <1>1, <1>2
  <2>2. s[n + 1].at > x.at
    BY <1>3, <2>1 DEF InTurn, Timed
  <2>3. k = n + 1 \/ s[n + 1].at <= s[k].at
    BY <1>2, <2>1 DEF InTurn, Before, Timed
  <2> QED BY <2>1, <2>2, <2>3 DEF Before, InTurn, Timed
<1>6. \A k \in 1..Len(t) : Timed(t[k])
  BY <1>1, <1>2 DEF InTurn
<1>7. ASSUME NEW j \in 1..Len(t), NEW k \in 1..Len(t), j < k
      PROVE  Before(t[j], t[k])
  <2>1. CASE k <= n
    BY <1>1, <1>2, <1>7, <2>1 DEF InTurn
  <2>2. CASE k = n + 1
    BY <1>1, <1>2, <1>4, <1>7, <2>2
  <2>3. CASE k > n + 1 /\ j <= n
    <3>1. t[j] = s[j] /\ t[k] = s[k - 1] /\ j \in 1..Len(s) /\ k - 1 \in 1..Len(s) /\ j < k - 1
      BY <1>1, <1>2, <2>3
    <3> QED BY <3>1 DEF InTurn
  <2>4. CASE k > n + 1 /\ j = n + 1
    <3>1. t[j] = x /\ t[k] = s[k - 1] /\ k - 1 \in (n + 1)..Len(s)
      BY <1>1, <1>2, <2>4
    <3> QED BY <1>5, <3>1
  <2>5. CASE k > n + 1 /\ j > n + 1
    <3>1. /\ t[j] = s[j - 1] /\ t[k] = s[k - 1] /\ j - 1 \in 1..Len(s) /\ k - 1 \in 1..Len(s)
          /\ j - 1 < k - 1
      BY <1>1, <1>2, <1>7, <2>5
    <3> QED BY <3>1 DEF InTurn
  <2> QED BY <1>2, <2>1, <2>2, <2>3, <2>4, <2>5
<1>8. Entries(t) = Entries(s) \cup {x}
  <2>1. ASSUME NEW k \in 1..Len(t) PROVE t[k] \in Entries(s) \cup {x}
    BY <1>1, <1>2 DEF Entries
  <2>2. x \in Entries(t)
    <3>1. n + 1 \in 1..Len(t) /\ t[n + 1] = x
      BY <1>1, <1>2
    <3> QED BY <3>1 DEF Entries
  <2>3. ASSUME NEW k \in 1..Len(s) PROVE s[k] \in Entries(t)
    <3>1. CASE k <= n
      <4>1. k \in 1..Len(t) /\ t[k] = s[k]
        BY <1>1, <1>2, <3>1
      <4> QED BY <4>1 DEF Entries
    <3>2. CASE k > n
      <4>1. k + 1 \in 1..Len(t) /\ t[k + 1] = s[k]
        BY <1>1, <1>2, <3>2
      <4> QED BY <4>1 DEF Entries
    <3> QED BY <1>2, <3>1, <3>2
  <2> QED BY <2>1, <2>2, <2>3 DEF Entries
<1> QED BY <1>2, <1>6, <1>7, <1>8 DEF InTurn, t

-----------------------------------------------------------------------------
(* The fold a sort consists of, place by place.                            *)
SortsUpTo(f, s, n) ==
  f = [k \in 0..n |-> IF k = 0 THEN <<>> ELSE Inserted(f[k - 1], s[k])]

LEMMA SortIsAFold ==
  ASSUME NEW s, IsSequence(s)
  PROVE  \E f : SortsUpTo(f, s, Len(s)) /\ InOrderOfTime(s) = f[Len(s)]
<1> DEFINE T == {m \in Nat : \E f : SortsUpTo(f, s, m)}
<1>1. 0 \in T
  <2>1. SortsUpTo([k \in 0..0 |-> <<>>], s, 0)
    BY DEF SortsUpTo
  <2> QED BY <2>1
<1>2. ASSUME NEW m \in T PROVE m + 1 \in T
  <2>1. PICK f : SortsUpTo(f, s, m)
    OBVIOUS
  <2> DEFINE g == [k \in 0..(m + 1) |-> IF k = m + 1 THEN Inserted(f[m], s[m + 1]) ELSE f[k]]
  <2>2. SortsUpTo(g, s, m + 1)
    BY <2>1 DEF SortsUpTo
  <2> QED BY <2>2
<1>3. Len(s) \in T
  BY <1>1, <1>2, SetInduction, SequenceHasALength
<1>4. SortsUpTo(CHOOSE f : SortsUpTo(f, s, Len(s)), s, Len(s))
  BY <1>3
<1> QED BY <1>4 DEF SortsUpTo, InOrderOfTime, Folded

(* A sort keeps the length, and what the sequence is made of.              *)
LEMMA SortKeepsLength ==
  ASSUME NEW S, NEW s \in Seq(S)
  PROVE  InOrderOfTime(s) \in Seq(S) /\ Len(InOrderOfTime(s)) = Len(s)
<1>1. PICK f : SortsUpTo(f, s, Len(s)) /\ InOrderOfTime(s) = f[Len(s)]
  BY SortIsAFold DEF IsSequence
<1>2. Len(s) \in Nat /\ \A k \in 1..Len(s) : s[k] \in S
  OBVIOUS
<1> DEFINE T == {m \in Nat : m <= Len(s) => f[m] \in Seq(S) /\ Len(f[m]) = m}
<1>3. 0 \in T
  <2>1. f[0] = <<>>
    BY <1>1, <1>2 DEF SortsUpTo
  <2>2. <<>> \in Seq(S) /\ Len(<<>>) = 0
    OBVIOUS
  <2> QED BY <2>1, <2>2
<1>4. ASSUME NEW m \in T PROVE m + 1 \in T
  <2> SUFFICES ASSUME m + 1 <= Len(s) PROVE f[m + 1] \in Seq(S) /\ Len(f[m + 1]) = m + 1
    OBVIOUS
  <2> DEFINE a == f[m]
             t == f[m + 1]
             x == s[m + 1]
             n == Reached(a, x.at)
  <2>1. t = Inserted(a, x)
    BY <1>1, <1>2 DEF SortsUpTo
  <2>2. a \in Seq(S) /\ Len(a) = m /\ IsSequence(a)
    BY <1>2 DEF IsSequence
  <2>3. x \in S
    BY <1>2
  <2>4. /\ IsSequence(t) /\ Len(t) = Len(a) + 1 /\ n \in 0..Len(a)
        /\ \A k \in 1..(Len(a) + 1) :
             t[k] = IF k <= n THEN a[k] ELSE IF k = n + 1 THEN x ELSE a[k - 1]
    <3> HIDE DEF a, x, t
    <3> QED BY <2>1, <2>2, InsertedIs
  <2> HIDE DEF a, t, x, n
  <2>5. \A k \in 1..(m + 1) : t[k] \in S
    BY <2>2, <2>3, <2>4
  <2>6. PICK A : t \in Seq(A)
    BY <2>4 DEF IsSequence
  <2>7. t \in Seq(S)
    BY <2>2, <2>4, <2>5, <2>6
  <2> QED BY <2>2, <2>4, <2>7 DEF t
<1>5. Len(s) \in T
  BY <1>2, <1>3, <1>4, SetInduction
<1> QED BY <1>1, <1>2, <1>5

(* What is sorted leaves in turn, provided that of two with one time the   *)
(* one that comes first has the smaller number.                            *)
LEMMA SortedInTurn ==
  ASSUME NEW s, IsSequence(s), \A k \in 1..Len(s) : Timed(s[k]),
         \A j, k \in 1..Len(s) : j < k /\ s[j].at = s[k].at => s[j].nr < s[k].nr
  PROVE  /\ InTurn(InOrderOfTime(s)) /\ Len(InOrderOfTime(s)) = Len(s)
         /\ Entries(InOrderOfTime(s)) = Entries(s)
<1>1. PICK f : SortsUpTo(f, s, Len(s)) /\ InOrderOfTime(s) = f[Len(s)]
  BY SortIsAFold
<1>2. Len(s) \in Nat
  BY SequenceHasALength
<1> DEFINE Done(m) == {s[k] : k \in 1..m}
           T == {m \in Nat : m <= Len(s) =>
                   InTurn(f[m]) /\ Len(f[m]) = m /\ Entries(f[m]) = Done(m)}
<1>3. 0 \in T
  <2>1. f[0] = <<>>
    BY <1>1, <1>2 DEF SortsUpTo
  <2>2. <<>> \in Seq({}) /\ Len(<<>>) = 0
    OBVIOUS
  <2>3. IsSequence(<<>>)
    BY <2>2 DEF IsSequence
  <2>4. InTurn(<<>>) /\ Entries(<<>>) = Done(0)
    BY <2>2, <2>3 DEF InTurn, Entries
  <2> QED BY <2>1, <2>2, <2>4
<1>4. ASSUME NEW m \in T PROVE m + 1 \in T
  <2> SUFFICES ASSUME m + 1 <= Len(s)
               PROVE  InTurn(f[m + 1]) /\ Len(f[m + 1]) = m + 1 /\ Entries(f[m + 1]) = Done(m + 1)
    OBVIOUS
  <2>1. f[m + 1] = Inserted(f[m], s[m + 1])
    BY <1>1, <1>2 DEF SortsUpTo
  <2>2. InTurn(f[m]) /\ Len(f[m]) = m /\ Entries(f[m]) = Done(m)
    BY <1>2
  <2>3. Timed(s[m + 1])
    BY <1>2
  <2>4. ASSUME NEW k \in 1..Len(f[m]), f[m][k].at = s[m + 1].at
        PROVE  f[m][k].nr < s[m + 1].nr
    <3>1. f[m][k] \in Done(m)
      BY <2>2 DEF Entries
    <3>2. PICK j \in 1..m : f[m][k] = s[j]
      BY <3>1
    <3> QED BY <1>2, <2>4, <3>2
  <2>5. /\ InTurn(f[m + 1]) /\ Len(f[m + 1]) = m + 1
        /\ Entries(f[m + 1]) = Entries(f[m]) \cup {s[m + 1]}
    BY <2>1, <2>2, <2>3, <2>4, InsertedInTurn
  <2>6. Done(m + 1) = Done(m) \cup {s[m + 1]}
    OBVIOUS
  <2> QED BY <2>2, <2>5, <2>6
<1>5. Len(s) \in T
  BY <1>2, <1>3, <1>4, SetInduction
<1> QED BY <1>1, <1>2, <1>5 DEF Entries

(* What is due is a first part of what is in turn.                         *)
FirstPart(s, n, t) ==
  /\ n \in 0..Len(s)
  /\ IsSequence(SubSeq(s, 1, n)) /\ Len(SubSeq(s, 1, n)) = n
  /\ \A k \in 1..n : SubSeq(s, 1, n)[k] = s[k] /\ s[k].at <= t
  /\ IsSequence(SubSeq(s, n + 1, Len(s))) /\ Len(SubSeq(s, n + 1, Len(s))) = Len(s) - n
  /\ \A k \in 1..(Len(s) - n) :
       SubSeq(s, n + 1, Len(s))[k] = s[n + k] /\ s[n + k].at > t

LEMMA DueIsAFirstPart ==
  ASSUME NEW s, InTurn(s), NEW t \in Int, NEW n, n = Reached(s, t)
  PROVE  FirstPart(s, n, t)
<1>1. PICK S : s \in Seq(S)
  BY DEF InTurn, IsSequence
<1>2. /\ Len(s) \in Nat /\ n \in 0..Len(s)
      /\ \A k \in 1..n : s[k].at <= t
      /\ n < Len(s) => ~(s[n + 1].at <= t)
  BY SequenceHasALength, ReachedIs DEF InTurn
<1>3. /\ SubSeq(s, 1, n) \in Seq(S) /\ Len(SubSeq(s, 1, n)) = n
      /\ \A k \in 1..n : SubSeq(s, 1, n)[k] = s[k]
  BY <1>1, <1>2, SubSeqProperties
<1>4. /\ SubSeq(s, n + 1, Len(s)) \in Seq(S) /\ Len(SubSeq(s, n + 1, Len(s))) = Len(s) - n
      /\ \A k \in 1..(Len(s) - n) : SubSeq(s, n + 1, Len(s))[k] = s[n + k]
  <2>1. n + 1 \in 1..(Len(s) + 1) /\ Len(s) \in n..Len(s)
    BY <1>2
  <2> QED BY <1>1, <1>2, <2>1, SubSeqProperties, SMTT(60)
<1>5. ASSUME NEW k \in 1..(Len(s) - n)
      PROVE  s[n + k].at > t
  <2>1. n + 1 \in 1..Len(s) /\ n + k \in 1..Len(s) /\ (k = 1 \/ n + 1 < n + k) /\ n < Len(s)
    BY <1>2
  <2>2. s[n + 1].at > t
    BY <1>2, <2>1 DEF InTurn, Timed
  <2>3. k = 1 \/ s[n + 1].at <= s[n + k].at
    BY <2>1 DEF InTurn, Before, Timed
  <2> QED BY <2>1, <2>2, <2>3 DEF InTurn, Timed
<1> QED BY <1>2, <1>3, <1>4, <1>5 DEF FirstPart, IsSequence

-----------------------------------------------------------------------------
(* What passes through the faults is late or lost, and counted if lost.    *)
FaultMembers == {"active", "frozen", "draws", "dropped", "delayed", "corrupted"}
FaultsOK(faults) ==
  DOMAIN faults = FaultMembers /\ faults.draws \in Nat /\ faults.dropped \in Nat

UnderWay(w, faults, now) ==
  /\ DOMAIN w = {"due", "frame", "gone", "faults"}
  /\ DOMAIN w.faults = FaultMembers
  /\ w.due \in Int /\ w.due >= now
  /\ w.gone \in BOOLEAN
  /\ w.faults.draws \in Nat
  /\ w.faults.dropped = faults.dropped + (IF w.gone THEN 1 ELSE 0)

LEMMA FaultByFault ==
  ASSUME NEW faults, FaultsOK(faults), NEW now \in Int, NEW node,
         NEW w, UnderWay(w, faults, now), NEW f \in DOMAIN FaultList
  PROVE  UnderWay(Apply(w, f, node), faults, now)
<1> DEFINE v == Apply(w, f, node)
           kind == FaultList[f].kind
<1>1. /\ kind \in {"StopNode", "DropFrames", "DelayMessage", "FreezeSignal",
                   "OutOfRange", "BitFlip"}
      /\ FaultList[f].delay \in Nat
  BY FaultsAreKnown DEF FaultsAreKnown
<1>2. UnderWay(Drawn(w), faults, now) /\ Drawn(w).gone = w.gone
  BY DEF UnderWay, Drawn, FaultMembers
<1>3. CASE w.gone \/ ~w.faults.active[f] \/ ~AppliesTo(f, node, w.frame.message)
  BY <1>3 DEF Apply
<1>4. CASE ~(w.gone \/ ~w.faults.active[f] \/ ~AppliesTo(f, node, w.frame.message))
  <2> HIDE DEF v
  <2>1. CASE kind = "StopNode"
    <3>1. v = w
      BY <1>4, <2>1 DEF Apply, v
    <3> QED BY <3>1 DEF v
  <2>2. CASE kind = "DropFrames"
    <3>1. v = DropFrame(w)
      BY <1>4, <2>2 DEF Apply, v
    <3>2. CASE Lucky(w)
      <4>1. v = [Drawn(w) EXCEPT !.gone = TRUE, !.faults.dropped = @ + 1]
        BY <3>1, <3>2 DEF DropFrame
      <4> DEFINE u == Drawn(w)
      <4>2. UnderWay(u, faults, now) /\ ~u.gone
        BY <1>2, <1>4
      <4> HIDE DEF u
      <4>3. UnderWay(v, faults, now)
        BY <4>1, <4>2 DEF UnderWay, FaultMembers, FaultsOK, u
      <4> QED BY <4>3 DEF v
    <3>3. CASE ~Lucky(w)
      <4>1. v = Drawn(w)
        BY <3>1, <3>3 DEF DropFrame
      <4> QED BY <1>2, <4>1 DEF v
    <3> QED BY <3>2, <3>3
  <2>3. CASE kind = "DelayMessage"
    <3>1. v = [w EXCEPT !.due = @ + FaultList[f].delay, !.faults.delayed = @ + 1]
      BY <1>4, <2>3 DEF Apply, v, DelayFrame
    <3>2. UnderWay(v, faults, now)
      BY <1>1, <3>1 DEF UnderWay, FaultMembers
    <3> QED BY <3>2 DEF v
  <2>4. CASE kind = "FreezeSignal"
    <3>1. v = FreezeSignal(w, f)
      BY <1>4, <2>4 DEF Apply, v
    <3>2. v = w \/ \E x, y : v = [w EXCEPT !.frame.data[FaultList[f].signal] = x, !.faults.frozen = y]
      BY <3>1, Zenon DEF FreezeSignal
    <3>3. ASSUME NEW x, NEW y,
                 v = [w EXCEPT !.frame.data[FaultList[f].signal] = x, !.faults.frozen = y]
          PROVE  UnderWay(v, faults, now)
      <4>1. /\ DOMAIN v = DOMAIN w /\ v.due = w.due /\ v.gone = w.gone
            /\ v.faults = [w.faults EXCEPT !.frozen = y]
        BY <3>3 DEF UnderWay
      <4> QED BY <4>1 DEF UnderWay, FaultMembers
    <3>4. UnderWay(v, faults, now)
      BY <3>2, <3>3
    <3> QED BY <3>4 DEF v
  <2>5. CASE kind = "OutOfRange"
    <3>1. v = OutOfRange(w, f)
      BY <1>4, <2>5 DEF Apply, v
    <3>2. v = w \/ \E x : v = [w EXCEPT !.frame.data[FaultList[f].signal] = x]
      BY <3>1, Zenon DEF OutOfRange
    <3>3. UnderWay(v, faults, now)
      BY <3>2 DEF UnderWay, FaultMembers
    <3> QED BY <3>3 DEF v
  <2>6. CASE kind = "BitFlip"
    <3>1. v = BitFlip(w)
      BY <1>4, <2>6 DEF Apply, v
    <3> DEFINE u == Drawn(w)
               struck == [Drawn(u) EXCEPT !.faults.corrupted = @ + 1]
               hit == BitHit(w.frame.message, w.faults.draws + 1)
    <3>2. UnderWay(u, faults, now)
      BY <1>2
    <3>3. \/ v = u \/ v = struck
          \/ v = [struck EXCEPT !.frame.data[hit.signal] = Flipped(@, hit.weight)]
      BY <3>1, Zenon DEF BitFlip
    <3>4. UnderWay(struck, faults, now)
      <4> HIDE DEF u
      <4>1. /\ DOMAIN struck = DOMAIN u /\ struck.due = u.due /\ struck.gone = u.gone
            /\ DOMAIN struck.faults = DOMAIN u.faults /\ struck.faults.dropped = u.faults.dropped
            /\ struck.faults.draws = u.faults.draws + 1
        BY <3>2 DEF UnderWay, FaultMembers, Drawn
      <4> HIDE DEF struck
      <4> QED BY <3>2, <4>1 DEF UnderWay
    <3> HIDE DEF u, struck, hit
    <3>5. \A x, y : UnderWay([struck EXCEPT !.frame.data[x] = y], faults, now)
      BY <3>4 DEF UnderWay
    <3>6. \/ v = u \/ v = struck \/ \E x, y : v = [struck EXCEPT !.frame.data[x] = y]
      BY <3>3, Zenon
    <3> QED BY <3>2, <3>4, <3>5, <3>6 DEF v
  <2> QED BY <1>1, <2>1, <2>2, <2>3, <2>4, <2>5, <2>6
<1> QED BY <1>3, <1>4

(* The faults in the order they were added.                                *)
FaultOrder == [f \in DOMAIN FaultList |-> f]
Entering(faults, frame, now) == [due |-> now, frame |-> frame, gone |-> FALSE, faults |-> faults]
PassesUpTo(g, w, node, n) ==
  g = [k \in 0..n |-> IF k = 0 THEN w ELSE Apply(g[k - 1], FaultOrder[k], node)]

LEMMA FaultOrderIs ==
  /\ Len(FaultList) \in Nat /\ Len(FaultOrder) = Len(FaultList)
  /\ \A k \in 1..Len(FaultList) : FaultOrder[k] \in DOMAIN FaultList
<1>1. Len(FaultList) \in Nat /\ DOMAIN FaultList = 1..Len(FaultList)
  BY FaultsAreKnown DEF FaultsAreKnown
<1>2. FaultOrder = [k \in 1..Len(FaultList) |-> k]
  BY <1>1 DEF FaultOrder
<1>3. FaultOrder \in Seq(Nat) /\ Len(FaultOrder) = Len(FaultList)
  <2> DEFINE n == Len(FaultList)
  <2> HIDE DEF n
  <2>1. FaultOrder = [k \in 1..n |-> k] /\ n \in Nat
    BY <1>1, <1>2 DEF n
  <2>2. FaultOrder \in Seq(Nat)
    BY <2>1
  <2>3. Len(FaultOrder) = n
    BY <2>1, <2>2, LenProperties
  <2> QED BY <2>2, <2>3 DEF n
<1> QED BY <1>1, <1>2, <1>3

(* How a frame passes them, fault by fault.                                *)
LEMMA PassesAre ==
  ASSUME NEW faults, NEW now, NEW node, NEW frame, ~NodeStopped(faults, node)
  PROVE  \E g : /\ PassesUpTo(g, Entering(faults, frame, now), node, Len(FaultList))
               /\ Process(faults, node, frame, now) = g[Len(FaultList)]
<1> DEFINE w == Entering(faults, frame, now)
           N == Len(FaultList)
           E == {m \in Nat : \E g : PassesUpTo(g, w, node, m)}
           G == CHOOSE g : PassesUpTo(g, w, node, N)
<1>1. Process(faults, node, frame, now) = G[N]
  BY FaultOrderIs DEF Process, Folded, PassesUpTo, FaultOrder, Entering
<1> HIDE DEF w
<1>2. 0 \in E
  <2>1. PassesUpTo([k \in 0..0 |-> w], w, node, 0)
    BY DEF PassesUpTo
  <2> QED BY <2>1
<1>3. ASSUME NEW m \in E PROVE m + 1 \in E
  <2>1. PICK g : PassesUpTo(g, w, node, m)
    OBVIOUS
  <2> DEFINE h == [k \in 0..(m + 1) |-> IF k = m + 1 THEN Apply(g[m], FaultOrder[m + 1], node)
                                       ELSE g[k]]
  <2>2. PassesUpTo(h, w, node, m + 1)
    BY <2>1 DEF PassesUpTo
  <2> QED BY <2>2
<1>4. N \in E
  BY <1>2, <1>3, SetInduction, FaultOrderIs
<1>5. PassesUpTo(G, w, node, N)
  BY <1>4
<1> HIDE DEF G, N
<1> QED BY <1>1, <1>5 DEF N, w

LEMMA PassesBy ==
  ASSUME NEW g, NEW w, NEW node, PassesUpTo(g, w, node, Len(FaultList))
  PROVE  /\ g[0] = w
         /\ \A m \in Nat : m < Len(FaultList) =>
              FaultOrder[m + 1] \in DOMAIN FaultList /\ g[m + 1] = Apply(g[m], FaultOrder[m + 1], node)
<1> DEFINE N == Len(FaultList)
<1>1. N \in Nat /\ \A k \in 1..N : FaultOrder[k] \in DOMAIN FaultList
  BY FaultOrderIs
<1>2. g = [k \in 0..N |-> IF k = 0 THEN w ELSE Apply(g[k - 1], FaultOrder[k], node)]
  BY DEF PassesUpTo
<1> HIDE DEF N
<1>3. g[0] = w
  BY <1>1, <1>2
<1>4. ASSUME NEW m \in Nat, m < N
      PROVE  FaultOrder[m + 1] \in DOMAIN FaultList /\ g[m + 1] = Apply(g[m], FaultOrder[m + 1], node)
  <2>1. m + 1 \in 1..N /\ m + 1 \in 0..N /\ m + 1 # 0 /\ (m + 1) - 1 = m
    BY <1>1, <1>4
  <2> QED BY <1>1, <1>2, <2>1
<1> QED BY <1>3, <1>4 DEF N

LEMMA ProcessedIs ==
  ASSUME NEW faults, FaultsOK(faults), NEW now \in Int, NEW node, NEW frame
  PROVE  UnderWay(Process(faults, node, frame, now), faults, now)
<1> DEFINE w == Entering(faults, frame, now)
           N == Len(FaultList)
<1>1. UnderWay(w, faults, now) /\ w.gone = FALSE /\ w.faults = faults
  BY DEF UnderWay, FaultMembers, FaultsOK, Entering
<1>2. CASE NodeStopped(faults, node)
  <2>1. Process(faults, node, frame, now) = [w EXCEPT !.gone = TRUE, !.faults.dropped = @ + 1]
    BY <1>2 DEF Process, Entering
  <2> HIDE DEF w
  <2> QED BY <1>1, <2>1 DEF UnderWay, FaultMembers, FaultsOK
<1>3. CASE ~NodeStopped(faults, node)
  <2> HIDE DEF w
  <2>1. PICK g : PassesUpTo(g, w, node, N) /\ Process(faults, node, frame, now) = g[N]
    BY <1>3, PassesAre DEF w
  <2> DEFINE T == {m \in Nat : m <= N => UnderWay(g[m], faults, now)}
  <2>2. 0 \in T
    BY <1>1, <2>1, PassesBy
  <2>3. ASSUME NEW m \in T PROVE m + 1 \in T
    <3> SUFFICES ASSUME m + 1 <= N PROVE UnderWay(g[m + 1], faults, now)
      OBVIOUS
    <3>1. m < N /\ m <= N /\ m \in Nat
      BY FaultOrderIs
    <3>2. FaultOrder[m + 1] \in DOMAIN FaultList /\ g[m + 1] = Apply(g[m], FaultOrder[m + 1], node)
      BY <2>1, <3>1, PassesBy
    <3>3. UnderWay(g[m], faults, now)
      BY <3>1
    <3> QED BY <3>2, <3>3, FaultByFault
  <2>4. N \in T
    <3> HIDE DEF T, N
    <3>1. T \in SUBSET Nat /\ N \in Nat
      BY FaultOrderIs DEF T, N
    <3> QED BY <2>2, <2>3, <3>1, SetInduction
  <2> QED BY <2>1, <2>4, FaultOrderIs
<1> QED BY <1>2, <1>3

-----------------------------------------------------------------------------
(* What a frozen signal holds: the first value that was seen.  Frames show *)
(* it unless one of the two faults that write into payloads is on.         *)
Undisturbed(active) ==
  \A g \in DOMAIN FaultList : FaultList[g].kind \in {"OutOfRange", "BitFlip"} => ~active[g]
KeepsIce(old, new) ==
  /\ new.active = old.active
  /\ \A s \in DOMAIN old.frozen : s \in DOMAIN new.frozen /\ new.frozen[s] = old.frozen[s]
Holds(message, data, frozen, signal) ==
  /\ <<message, signal>> \in DOMAIN frozen
  /\ data[signal] = Encoded(signal, frozen[<<message, signal>>])
Shaped(w, message, S) ==
  /\ DOMAIN w.frame = {"message", "data"} /\ w.frame.message = message
  /\ DOMAIN w.frame.data = S
Freezing(f, node, message) == FaultList[f].kind = "FreezeSignal" /\ AppliesTo(f, node, message)

(* What one fault does to a frame that is under way.                       *)
Thawless(w, v, f, node, message, S) ==
  /\ KeepsIce(w.faults, v.faults) /\ Shaped(v, message, S) /\ (~v.gone => ~w.gone)
  /\ Undisturbed(w.faults.active) =>
       /\ \A x \in S : Holds(message, w.frame.data, w.faults.frozen, x) =>
                        Holds(message, v.frame.data, v.faults.frozen, x)
       /\ ~v.gone /\ Freezing(f, node, message) /\ w.faults.active[f] /\ FaultList[f].signal \in S =>
            Holds(message, v.frame.data, v.faults.frozen, FaultList[f].signal)

LEMMA FreezesFirst ==
  ASSUME NEW message, NEW S, NEW w, DOMAIN w = {"due", "frame", "gone", "faults"},
         DOMAIN w.faults = FaultMembers, Shaped(w, message, S),
         NEW f \in DOMAIN FaultList, NEW node
  PROVE  Thawless(w, FreezeSignal(w, f), f, node, message, S)
<1> DEFINE signal == FaultList[f].signal
           slot == <<message, signal>>
           old == w.faults.frozen
           value == IF slot \in DOMAIN old THEN old[slot] ELSE w.frame.data[signal]
           new == [s \in DOMAIN old \cup {slot} |-> IF s = slot THEN value ELSE old[s]]
           shown == Encoded(signal, value)
           v == FreezeSignal(w, f)
<1>1. CASE signal \notin S
  <2>1. v = w
    BY <1>1 DEF FreezeSignal, Shaped
  <2> HIDE DEF v
  <2> QED BY <1>1, <2>1 DEF Thawless, KeepsIce, v
<1>2. CASE signal \in S
  <2>1. v = [w EXCEPT !.frame.data[signal] = shown, !.faults.frozen = new]
    BY <1>2 DEF FreezeSignal, Shaped
  <2>2. /\ DOMAIN new = DOMAIN old \cup {slot} /\ new[slot] = value
        /\ \A s \in DOMAIN old : new[s] = old[s]
    OBVIOUS
  <2> HIDE DEF v, new, shown, value
  <2>3. /\ v.faults.active = w.faults.active /\ v.faults.frozen = new /\ v.gone = w.gone
        /\ DOMAIN v.frame = DOMAIN w.frame /\ v.frame.message = w.frame.message
        /\ v.frame.data = [w.frame.data EXCEPT ![signal] = shown]
    BY <2>1 DEF Shaped, FaultMembers
  <2>4. KeepsIce(w.faults, v.faults) /\ Shaped(v, message, S)
    BY <2>2, <2>3 DEF KeepsIce, Shaped
  <2>5. Holds(message, v.frame.data, v.faults.frozen, signal)
    <3>1. v.frame.data[signal] = shown
      BY <1>2, <2>3 DEF Shaped
    <3> QED BY <2>2, <2>3, <3>1 DEF Holds, shown
  <2>6. ASSUME NEW x \in S, Holds(message, w.frame.data, old, x)
        PROVE  Holds(message, v.frame.data, v.faults.frozen, x)
    <3>1. CASE x = signal
      BY <2>5, <3>1
    <3>2. CASE x # signal
      <4>1. v.frame.data[x] = w.frame.data[x]
        BY <2>3, <3>2 DEF Shaped
      <4>2. <<message, x>> \in DOMAIN new /\ new[<<message, x>>] = old[<<message, x>>]
        BY <2>2, <2>6 DEF Holds
      <4> QED BY <2>3, <2>6, <4>1, <4>2 DEF Holds
    <3> QED BY <3>1, <3>2
  <2> QED BY <2>3, <2>4, <2>5, <2>6 DEF Thawless, v
<1> QED BY <1>1, <1>2

LEMMA FreezesOn ==
  ASSUME NEW message, NEW S, NEW w, DOMAIN w = {"due", "frame", "gone", "faults"},
         DOMAIN w.faults = FaultMembers, Shaped(w, message, S),
         NEW f \in DOMAIN FaultList, NEW node
  PROVE  Thawless(w, Apply(w, f, node), f, node, message, S)
<1> DEFINE v == Apply(w, f, node)
           kind == FaultList[f].kind
<1>1. kind \in {"StopNode", "DropFrames", "DelayMessage", "FreezeSignal", "OutOfRange", "BitFlip"}
  BY FaultsAreKnown DEF FaultsAreKnown
<1>2. ASSUME NEW u, u.frame = w.frame, u.faults.active = w.faults.active,
             u.faults.frozen = w.faults.frozen, ~u.gone => ~w.gone,
             ~u.gone /\ Freezing(f, node, message) /\ w.faults.active[f] => FALSE
      PROVE  Thawless(w, u, f, node, message, S)
  BY <1>2 DEF Thawless, KeepsIce, Shaped
<1>3. CASE w.gone \/ ~w.faults.active[f] \/ ~AppliesTo(f, node, w.frame.message)
  <2>1. v = w
    BY <1>3 DEF Apply
  <2>2. ~w.gone /\ Freezing(f, node, message) /\ w.faults.active[f] => FALSE
    BY <1>3 DEF Freezing, Shaped
  <2> HIDE DEF v
  <2> QED BY <1>2, <2>1, <2>2 DEF v
<1>4. CASE ~(w.gone \/ ~w.faults.active[f] \/ ~AppliesTo(f, node, w.frame.message))
  <2> HIDE DEF v
  <2>1. CASE kind = "StopNode"
    <3>1. v = w
      BY <1>4, <2>1 DEF Apply, v
    <3> QED BY <1>2, <2>1, <3>1 DEF v, Freezing
  <2>2. CASE kind = "DropFrames"
    <3>1. v = DropFrame(w)
      BY <1>4, <2>2 DEF Apply, v
    <3>2. /\ v.frame = w.frame /\ v.faults.active = w.faults.active
          /\ v.faults.frozen = w.faults.frozen
      BY <3>1 DEF DropFrame, Drawn, FaultMembers
    <3> QED BY <1>2, <1>4, <2>2, <3>2 DEF v, Freezing
  <2>3. CASE kind = "DelayMessage"
    <3>1. v = DelayFrame(w, f)
      BY <1>4, <2>3 DEF Apply, v
    <3>2. /\ v.frame = w.frame /\ v.faults.active = w.faults.active
          /\ v.faults.frozen = w.faults.frozen
      BY <3>1 DEF DelayFrame, FaultMembers
    <3> QED BY <1>2, <1>4, <2>3, <3>2 DEF v, Freezing
  <2>4. CASE kind = "FreezeSignal"
    <3>1. v = FreezeSignal(w, f)
      BY <1>4, <2>4 DEF Apply, v
    <3> QED BY <3>1, FreezesFirst DEF v
  <2>5. CASE kind \in {"OutOfRange", "BitFlip"}
    <3>1. ~Undisturbed(w.faults.active)
      BY <1>4, <2>5 DEF Undisturbed
    <3>2. ASSUME NEW u, NEW x, NEW y, DOMAIN u = DOMAIN w, u.frame = w.frame, u.gone = w.gone,
                 KeepsIce(w.faults, u.faults),
                 v = u \/ v = [u EXCEPT !.frame.data[x] = y]
          PROVE  Thawless(w, v, f, node, message, S)
      <4>1. /\ v.faults = u.faults /\ v.gone = w.gone /\ DOMAIN v.frame = DOMAIN w.frame
            /\ v.frame.message = w.frame.message /\ DOMAIN v.frame.data = DOMAIN w.frame.data
        BY <3>2 DEF Shaped
      <4> QED BY <3>1, <3>2, <4>1 DEF Thawless, Shaped
    <3>3. CASE kind = "OutOfRange"
      <4>1. v = OutOfRange(w, f)
        BY <1>4, <3>3 DEF Apply, v
      <4>2. v = w \/ \E x, y : v = [w EXCEPT !.frame.data[x] = y]
        BY <4>1, Zenon DEF OutOfRange
      <4>3. KeepsIce(w.faults, w.faults)
        BY DEF KeepsIce
      <4> QED BY <3>2, <4>2, <4>3 DEF v
    <3>4. CASE kind = "BitFlip"
      <4>1. v = BitFlip(w)
        BY <1>4, <3>4 DEF Apply, v
      <4> DEFINE struck == [Drawn(Drawn(w)) EXCEPT !.faults.corrupted = @ + 1]
                 hit == BitHit(w.frame.message, w.faults.draws + 1)
      <4>2. \/ v = Drawn(w) \/ v = struck
            \/ v = [struck EXCEPT !.frame.data[hit.signal] = Flipped(@, hit.weight)]
        BY <4>1, Zenon DEF BitFlip
      <4>3. ASSUME NEW u, u \in {Drawn(w), struck}
            PROVE  /\ DOMAIN u = DOMAIN w /\ u.frame = w.frame /\ u.gone = w.gone
                   /\ KeepsIce(w.faults, u.faults)
        <5> DEFINE d == Drawn(w)
                   e == Drawn(d)
        <5>1. ASSUME NEW x, NEW m, DOMAIN x = DOMAIN w, DOMAIN x.faults = FaultMembers,
                     x.frame = w.frame, x.gone = w.gone, KeepsIce(w.faults, x.faults),
                     m \in {"draws", "corrupted"}, NEW c,
                     NEW z, z = [x EXCEPT !.faults[m] = c]
              PROVE  /\ DOMAIN z = DOMAIN w /\ DOMAIN z.faults = FaultMembers
                     /\ z.frame = w.frame /\ z.gone = w.gone /\ KeepsIce(w.faults, z.faults)
          BY <5>1 DEF KeepsIce, FaultMembers
        <5>2. /\ DOMAIN d = DOMAIN w /\ DOMAIN d.faults = FaultMembers
              /\ d.frame = w.frame /\ d.gone = w.gone /\ KeepsIce(w.faults, d.faults)
          BY DEF KeepsIce, FaultMembers, Drawn
        <5> HIDE DEF d
        <5>3. /\ DOMAIN e = DOMAIN w /\ DOMAIN e.faults = FaultMembers
              /\ e.frame = w.frame /\ e.gone = w.gone /\ KeepsIce(w.faults, e.faults)
          BY <5>1, <5>2 DEF Drawn
        <5> HIDE DEF e
        <5>4. struck = [e EXCEPT !.faults["corrupted"] = e.faults["corrupted"] + 1]
          BY DEF e, d
        <5> HIDE DEF struck
        <5>5. struck.frame = w.frame /\ struck.gone = w.gone /\ DOMAIN struck = DOMAIN w
              /\ KeepsIce(w.faults, struck.faults)
          BY <5>1, <5>3, <5>4
        <5> QED BY <4>3, <5>2, <5>5 DEF d
      <4> HIDE DEF struck, hit
      <4>4. \E u \in {Drawn(w), struck} : \E x, y : v = u \/ v = [u EXCEPT !.frame.data[x] = y]
        BY <4>2, Zenon
      <4> QED BY <3>2, <4>3, <4>4 DEF v
    <3> QED BY <2>5, <3>3, <3>4
  <2> QED BY <1>1, <2>1, <2>2, <2>3, <2>4, <2>5
<1> QED BY <1>3, <1>4

(* So a frame that gets through all of them shows what each freeze holds.  *)
Frozen(old, w, node, message, S) ==
  /\ KeepsIce(old, w.faults)
  /\ Undisturbed(old.active) /\ ~w.gone => \A f \in DOMAIN FaultList :
       Freezing(f, node, message) /\ old.active[f] /\ FaultList[f].signal \in S =>
         Holds(message, w.frame.data, w.faults.frozen, FaultList[f].signal)

LEMMA FrozenThrough ==
  ASSUME NEW faults, FaultsOK(faults), NEW now \in Int, NEW node,
         NEW frame, DOMAIN frame = {"message", "data"}
  PROVE  Frozen(faults, Process(faults, node, frame, now), node, frame.message, DOMAIN frame.data)
<1> DEFINE w == Entering(faults, frame, now)
           N == Len(FaultList)
           S == DOMAIN frame.data
           message == frame.message
<1>1. /\ w.faults = faults /\ w.frame = frame /\ UnderWay(w, faults, now)
      /\ DOMAIN w = {"due", "frame", "gone", "faults"}
  BY DEF Entering, UnderWay, FaultsOK, FaultMembers
<1>2. CASE NodeStopped(faults, node)
  <2> DEFINE v == Process(faults, node, frame, now)
  <2>1. v = [w EXCEPT !.gone = TRUE, !.faults.dropped = @ + 1]
    BY <1>2 DEF Process, Entering
  <2> HIDE DEF w, v
  <2>2. v.gone /\ v.faults.active = faults.active /\ v.faults.frozen = faults.frozen
    BY <1>1, <2>1 DEF FaultsOK, FaultMembers
  <2> QED BY <2>2 DEF Frozen, KeepsIce, v
<1>3. CASE ~NodeStopped(faults, node)
  <2> HIDE DEF w
  <2>1. PICK g : PassesUpTo(g, w, node, N) /\ Process(faults, node, frame, now) = g[N]
    BY <1>3, PassesAre DEF w
  <2> DEFINE Thru(m) ==
               /\ UnderWay(g[m], faults, now) /\ KeepsIce(faults, g[m].faults)
               /\ Shaped(g[m], message, S)
               /\ Undisturbed(faults.active) /\ ~g[m].gone => \A k \in 1..m :
                    Freezing(k, node, message) /\ faults.active[k] /\ FaultList[k].signal \in S =>
                      Holds(message, g[m].frame.data, g[m].faults.frozen, FaultList[k].signal)
             T == {m \in Nat : m <= N => Thru(m)}
  <2>2. Thru(0)
    <3>1. g[0] = w
      BY <2>1, PassesBy
    <3> QED BY <1>1, <3>1 DEF KeepsIce, Shaped
  <2>3. ASSUME NEW m \in Nat, m < N, Thru(m) PROVE Thru(m + 1)
    <3> DEFINE u == g[m]
               v == g[m + 1]
               f == m + 1
    <3>1. f \in DOMAIN FaultList /\ v = Apply(u, f, node)
      <4>1. FaultOrder[m + 1] \in DOMAIN FaultList /\ v = Apply(u, FaultOrder[m + 1], node)
        BY <2>1, <2>3, PassesBy
      <4>2. FaultOrder[m + 1] = m + 1
        <5>1. m + 1 \in DOMAIN FaultList
          BY <2>3, FaultsAreKnown DEF FaultsAreKnown
        <5> QED BY <5>1 DEF FaultOrder
      <4> QED BY <4>1, <4>2
    <3>2. UnderWay(u, faults, now) /\ KeepsIce(faults, u.faults) /\ Shaped(u, message, S)
      BY <2>3
    <3>3. UnderWay(v, faults, now)
      BY <3>1, <3>2, FaultByFault
    <3>4. Thawless(u, v, f, node, message, S)
      <4> HIDE DEF u, f
      <4> QED BY <3>1, <3>2, FreezesOn DEF UnderWay
    <3>5. \A k \in 1..m : Undisturbed(faults.active) /\ ~u.gone /\ Freezing(k, node, message) /\ faults.active[k]
                            /\ FaultList[k].signal \in S =>
                 Holds(message, u.frame.data, u.faults.frozen, FaultList[k].signal)
      BY <2>3
    <3> HIDE DEF u, v
    <3>6. ASSUME NEW k \in 1..(m + 1), Undisturbed(faults.active), ~v.gone,
                 Freezing(k, node, message), faults.active[k], FaultList[k].signal \in S
          PROVE  Holds(message, v.frame.data, v.faults.frozen, FaultList[k].signal)
      <4>0. Undisturbed(u.faults.active)
        BY <3>2, <3>6 DEF KeepsIce
      <4>1. CASE k = f
        BY <3>2, <3>4, <3>6, <4>0, <4>1 DEF Thawless, KeepsIce
      <4>2. CASE k # f
        <5>1. k \in 1..m
          BY <4>2
        <5>2. Holds(message, u.frame.data, u.faults.frozen, FaultList[k].signal)
          BY <3>4, <3>5, <3>6, <5>1 DEF Thawless
        <5> QED BY <3>4, <3>6, <4>0, <5>2 DEF Thawless
      <4> QED BY <4>1, <4>2
    <3>7. KeepsIce(faults, v.faults) /\ Shaped(v, message, S)
      BY <3>2, <3>4 DEF Thawless, KeepsIce
    <3> QED BY <3>3, <3>6, <3>7 DEF v
  <2> HIDE DEF Thru
  <2>4. 0 \in T /\ \A m \in T : m + 1 \in T
    <3>1. ASSUME NEW m \in T, m + 1 <= N PROVE Thru(m + 1)
      <4>1. m \in Nat /\ m < N /\ Thru(m)
        BY <3>1, FaultOrderIs
      <4> QED BY <2>3, <4>1
    <3> QED BY <2>2, <3>1
  <2>5. N \in T
    <3> HIDE DEF T, N
    <3>1. T \in SUBSET Nat /\ N \in Nat
      BY FaultOrderIs DEF T, N
    <3> QED BY <2>4, <3>1, SetInduction
  <2>6. N \in Nat /\ Thru(N)
    BY <2>5, FaultOrderIs
  <2>7. DOMAIN FaultList = 1..N
    BY FaultsAreKnown DEF FaultsAreKnown
  <2> HIDE DEF N
  <2>8. Frozen(faults, g[N], node, message, S)
    BY <2>6, <2>7 DEF Thru, Frozen
  <2> QED BY <2>1, <2>8
<1> QED BY <1>2, <1>3

-----------------------------------------------------------------------------
(* The vehicle keeps its types, however often it is integrated.            *)
PlantMembers == {"throttle", "brake", "gear", "left", "steps", "rpm", "torque", "speed",
                 "accel", "distance", "coolant", "fuel"}
PlantOK(p) ==
  /\ DOMAIN p = PlantMembers
  /\ {p.throttle, p.brake, p.gear, p.torque, p.accel, p.distance, p.coolant, p.fuel} \subseteq Int
  /\ p.left \in 0..(StepTime - 1) /\ p.steps \in Nat /\ p.speed \in Nat
  /\ p.rpm \in 0..Greatest(IdleRpm, MaxRpm)

LEMMA FreshPlantOK == PlantOK(FreshPlant)
BY VehicleIsBuilt DEF PlantOK, FreshPlant, PlantMembers, VehicleIsBuilt, Greatest

LEMMA ClampIs ==
  ASSUME NEW v \in Int, NEW low \in Int, NEW high \in Int
  PROVE  /\ Clamp(v, low, high) \in Int /\ Clamp(v, low, high) >= low
         /\ low <= high => Clamp(v, low, high) <= high
BY DEF Clamp, Greatest, Least

(* The driver does not move the time of the vehicle.                       *)
SameTime(q, p) == q.steps = p.steps /\ q.left = p.left

LEMMA DrivenOK ==
  ASSUME NEW p, PlantOK(p),
         NEW e \in [at : Nat, pedal : {"throttle", "brake", "gear"}, value : Int]
  PROVE  PlantOK(Driven(p, e)) /\ SameTime(Driven(p, e), p)
<1>1. e.value \in Int /\ e.pedal \in {"throttle", "brake", "gear"} /\ Len(GearRatios) \in Int
  BY VehicleIsBuilt DEF VehicleIsBuilt
<1>2. \A x \in Int : /\ PlantOK([p EXCEPT !.throttle = x]) /\ SameTime([p EXCEPT !.throttle = x], p)
                     /\ PlantOK([p EXCEPT !.brake = x]) /\ SameTime([p EXCEPT !.brake = x], p)
                     /\ PlantOK([p EXCEPT !.gear = x]) /\ SameTime([p EXCEPT !.gear = x], p)
  BY DEF PlantOK, PlantMembers, SameTime
<1>3. CASE e.pedal = "throttle"
  <2>1. Driven(p, e) = [p EXCEPT !.throttle = Clamp(e.value, 0, 100)]
    BY <1>3 DEF Driven, SetThrottle
  <2>2. Clamp(e.value, 0, 100) \in Int
    BY <1>1, ClampIs
  <2> QED BY <1>2, <2>1, <2>2
<1>4. CASE e.pedal = "brake"
  <2>1. Driven(p, e) = [p EXCEPT !.brake = Clamp(e.value, 0, 150)]
    BY <1>4 DEF Driven, SetBrake
  <2>2. Clamp(e.value, 0, 150) \in Int
    BY <1>1, ClampIs
  <2> QED BY <1>2, <2>1, <2>2
<1>5. CASE e.pedal = "gear"
  <2>1. Driven(p, e) = [p EXCEPT !.gear = Clamp(e.value, 0, Len(GearRatios))]
    BY <1>5 DEF Driven, SetGear
  <2>2. Clamp(e.value, 0, Len(GearRatios)) \in Int
    BY <1>1, ClampIs
  <2> QED BY <1>2, <2>1, <2>2
<1> QED BY <1>1, <1>3, <1>4, <1>5

LEMMA TorqueIs ==
  ASSUME NEW p, PlantOK(p)
  PROVE  Torque(p) \in Int
<1> DEFINE low == (6 * IdleRpm) \div 10
           peak == (55 * MaxRpm) \div 100
           shape == TorqueShape(p.rpm)
<1>1. IdleRpm \in Nat /\ MaxRpm \in Nat /\ p.rpm \in Nat /\ p.throttle \in Int /\ PeakTorque \in Int
  BY VehicleIsBuilt DEF VehicleIsBuilt, PlantOK, Greatest
<1>2. low \in Int /\ peak \in Int
  BY <1>1
<1> HIDE DEF low, peak
<1>3. Greatest(1, MaxRpm - peak) \in Nat \ {0}
  BY <1>1, <1>2 DEF Greatest
<1>4. (60 * (p.rpm - peak)) \div Greatest(1, MaxRpm - peak) \in Int
  BY <1>1, <1>2, <1>3
<1>5. shape \in Int
  BY <1>1, <1>2, <1>4 DEF TorqueShape, low, peak, Greatest
<1> HIDE DEF shape
<1>6. PeakTorque * p.throttle * shape \in Int
  BY <1>1, <1>5
<1>7. p.rpm < IdleRpm => (PeakTorque * (IdleRpm - p.rpm)) \div (4 * IdleRpm) \in Int
  <2> SUFFICES ASSUME p.rpm < IdleRpm
               PROVE  (PeakTorque * (IdleRpm - p.rpm)) \div (4 * IdleRpm) \in Int
    OBVIOUS
  <2>1. PeakTorque * (IdleRpm - p.rpm) \in Int /\ 4 * IdleRpm \in Nat \ {0}
    BY <1>1
  <2> QED BY <2>1
<1>8. (PeakTorque * p.throttle * shape) \div (100 * 100) \in Int /\ p.rpm \div 250 \in Int
  BY <1>1, <1>6
<1> QED BY <1>1, <1>7, <1>8 DEF Torque, shape

LEMMA IntegrateOK ==
  ASSUME NEW p, PlantOK(p)
  PROVE  PlantOK(Integrate(p)) /\ Integrate(p).steps = p.steps + 1
<1> DEFINE inGear == p.gear \in 1..Len(GearRatios)
           ratio == IF inGear THEN GearRatios[p.gear] ELSE 0
           torque == Torque(p)
           net == torque * ratio - p.speed * p.speed
                    - (IF p.speed > 0 THEN Rolling + BrakeForce * p.brake ELSE 0)
           accel == Accel(p, torque, ratio)
           speed == Greatest(0, p.speed + accel)
           rpm == IF inGear THEN p.rpm + ((Greatest(speed * ratio, IdleRpm) - p.rpm) \div 2)
                  ELSE p.rpm + torque
           target == Ambient + 70 + (p.throttle \div 5)
           held == Clamp(rpm, 0, MaxRpm)
           coolant == p.coolant + ((target - p.coolant) \div 8)
           fuel == 6 + Greatest(0, torque) * (held \div 100)
<1>1. /\ p.gear \in Int /\ p.speed \in Nat /\ p.brake \in Int /\ p.rpm \in Nat /\ p.throttle \in Int
      /\ p.coolant \in Int /\ p.distance \in Int /\ p.steps \in Nat
      /\ Rolling \in Int /\ BrakeForce \in Int /\ Ambient \in Int /\ Mass \in Nat \ {0}
      /\ IdleRpm \in Nat /\ MaxRpm \in Nat /\ GearRatios \in Seq(Int)
  BY VehicleIsBuilt DEF VehicleIsBuilt, PlantOK, Greatest
<1>2. torque \in Int
  BY TorqueIs
<1>3. ratio \in Int
  BY <1>1
<1> HIDE DEF ratio, torque
<1>4. torque * ratio \in Int /\ p.speed * p.speed \in Int /\ BrakeForce * p.brake \in Int
  BY <1>1, <1>2, <1>3
<1>5. net \in Int
  <2> DEFINE pull == torque * ratio
             drag == p.speed * p.speed
             brake == BrakeForce * p.brake
             hold == IF p.speed > 0 THEN Rolling + brake ELSE 0
  <2>1. pull \in Int /\ drag \in Int /\ brake \in Int
    BY <1>4
  <2> HIDE DEF pull, drag, brake
  <2>2. hold \in Int
    BY <1>1, <2>1
  <2> HIDE DEF hold
  <2>3. pull - drag - hold \in Int
    BY <2>1, <2>2
  <2> QED BY <2>3 DEF pull, drag, hold, brake
<1> HIDE DEF net
<1>6. net \div Mass \in Int
  BY <1>1, <1>5
<1>7. accel \in Int
  BY <1>6 DEF Accel, net
<1> HIDE DEF accel
<1>8. speed \in Nat
  BY <1>1, <1>7 DEF Greatest
<1> HIDE DEF speed
<1>9. rpm \in Int
  <2>1. speed * ratio \in Int
    BY <1>3, <1>8
  <2>2. Greatest(speed * ratio, IdleRpm) \in Int
    BY <1>1, <2>1 DEF Greatest
  <2> QED BY <1>1, <1>2, <2>2
<1> HIDE DEF rpm
<1>10. held \in 0..MaxRpm
  <2>1. MaxRpm \in Int /\ 0 <= MaxRpm /\ 0 \in Int
    BY <1>1
  <2>2. held \in Int /\ held >= 0 /\ held <= MaxRpm
    BY <1>9, <2>1, ClampIs
  <2> QED BY <1>1, <2>2
<1> HIDE DEF held
<1>11. coolant \in Int /\ fuel \in Int
  <2>1. target \in Int
    BY <1>1
  <2>2. held \div 100 \in Int /\ Greatest(0, torque) \in Int
    BY <1>1, <1>2, <1>10 DEF Greatest
  <2> HIDE DEF target
  <2> QED BY <1>1, <2>1, <2>2, SMTT(60)
<1> HIDE DEF coolant, fuel
<1>12. Integrate(p) = [p EXCEPT !.torque = torque, !.accel = accel, !.speed = speed,
                !.distance = @ + speed, !.rpm = held,
                !.coolant = coolant, !.fuel = fuel, !.steps = @ + 1]
  BY DEF Integrate, torque, accel, speed, held, coolant, fuel, rpm, ratio
<1>13. held \in 0..Greatest(IdleRpm, MaxRpm)
  BY <1>1, <1>10 DEF Greatest
<1> DEFINE q == Integrate(p)
<1>14. /\ DOMAIN q = DOMAIN p /\ q.throttle = p.throttle /\ q.brake = p.brake /\ q.gear = p.gear
       /\ q.left = p.left /\ q.steps = p.steps + 1 /\ q.rpm = held /\ q.torque = torque
       /\ q.speed = speed /\ q.accel = accel /\ q.distance = p.distance + speed
       /\ q.coolant = coolant /\ q.fuel = fuel
  BY <1>12 DEF PlantOK, PlantMembers
<1> HIDE DEF q
<1>15. p.steps + 1 \in Nat /\ p.distance + speed \in Int
  BY <1>1, <1>8
<1>16. PlantOK(q)
  BY <1>1, <1>2, <1>7, <1>8, <1>11, <1>13, <1>14, <1>15 DEF PlantOK
<1> QED BY <1>14, <1>16 DEF q

(* The time that is left over when the whole steps are taken.              *)
RunsUpTo(f, p, n) == f = [k \in 0..n |-> IF k = 0 THEN p ELSE Integrate(f[k - 1])]

Gone(p) == p.steps * StepTime + p.left

LEMMA GoneIs ==
  ASSUME NEW p, PlantOK(p)
  PROVE  Gone(p) \in Nat
<1>1. p.steps \in Nat /\ StepTime \in Nat /\ p.left \in Nat
  BY VehicleIsBuilt DEF VehicleIsBuilt, PlantOK
<1> QED BY <1>1 DEF Gone

LEMMA FreshPlantTime == Gone(FreshPlant) = 0
<1>1. StepTime \in Nat
  BY VehicleIsBuilt DEF VehicleIsBuilt
<1> QED BY <1>1 DEF Gone, FreshPlant

LEMMA StepPlantOK ==
  ASSUME NEW p, PlantOK(p), NEW dt \in Nat
  PROVE  PlantOK(StepPlant(p, dt)) /\ Gone(StepPlant(p, dt)) = Gone(p) + dt
<1> DEFINE time == p.left + dt
           N == time \div StepTime
           E == {m \in Nat : \E f : RunsUpTo(f, p, m)}
           F == CHOOSE f : RunsUpTo(f, p, N)
           T == {m \in Nat : m <= N => PlantOK(F[m]) /\ F[m].steps = p.steps + m}
<1>1. /\ N \in Nat /\ time % StepTime \in 0..(StepTime - 1)
      /\ time = StepTime * N + (time % StepTime)
  <2>1. StepTime \in Nat \ {0}
    BY VehicleIsBuilt DEF VehicleIsBuilt
  <2>2. p.left \in 0..(StepTime - 1)
    BY DEF PlantOK
  <2>3. time \in Nat
    BY <2>1, <2>2
  <2> HIDE DEF time
  <2> QED BY <2>1, <2>3 DEF N
<1> HIDE DEF N
<1>2. 0 \in E
  <2>1. RunsUpTo([k \in 0..0 |-> p], p, 0)
    BY DEF RunsUpTo
  <2> QED BY <2>1
<1>3. ASSUME NEW m \in E PROVE m + 1 \in E
  <2>1. PICK f : RunsUpTo(f, p, m)
    OBVIOUS
  <2> DEFINE g == [k \in 0..(m + 1) |-> IF k = m + 1 THEN Integrate(f[m]) ELSE f[k]]
  <2>2. RunsUpTo(g, p, m + 1)
    BY <2>1 DEF RunsUpTo
  <2> QED BY <2>2
<1>4. N \in E
  BY <1>1, <1>2, <1>3, SetInduction
<1>5. RunsUpTo(F, p, N)
  BY <1>4
<1>6. StepPlant(p, dt) = [F[N] EXCEPT !.left = time % StepTime]
  BY DEF StepPlant, RunsUpTo, N
<1> HIDE DEF F
<1>7. 0 \in T
  <2>1. F[0] = p
    BY <1>1, <1>5 DEF RunsUpTo
  <2>2. F[0].steps = p.steps + 0
    BY <2>1 DEF PlantOK
  <2> QED BY <2>1, <2>2
<1>8. ASSUME NEW m \in T PROVE m + 1 \in T
  <2> SUFFICES ASSUME m + 1 <= N PROVE PlantOK(F[m + 1]) /\ F[m + 1].steps = p.steps + (m + 1)
    OBVIOUS
  <2>1. F[m + 1] = Integrate(F[m]) /\ PlantOK(F[m]) /\ F[m].steps = p.steps + m
    BY <1>1, <1>5 DEF RunsUpTo
  <2>2. PlantOK(F[m + 1]) /\ F[m + 1].steps = F[m].steps + 1
    BY <2>1, IntegrateOK
  <2>3. p.steps \in Nat
    BY DEF PlantOK
  <2> QED BY <2>1, <2>2, <2>3
<1>9. PlantOK(F[N]) /\ F[N].steps = p.steps + N
  <2>1. N \in T
    <3> HIDE DEF T
    <3>1. T \in SUBSET Nat
      BY DEF T
    <3> QED BY <1>1, <1>7, <1>8, <3>1, SetInduction
  <2> QED BY <1>1, <2>1
<1> DEFINE q == StepPlant(p, dt)
           rest == time % StepTime
<1>10. PlantOK(q) /\ q.steps = p.steps + N /\ q.left = rest
  <2> HIDE DEF time, q
  <2>1. q = [F[N] EXCEPT !.left = rest]
    BY <1>6 DEF q
  <2> QED BY <1>1, <1>9, <2>1 DEF PlantOK, PlantMembers
<1>11. p.steps * StepTime + (p.left + dt) = (p.steps + N) * StepTime + rest
  <2>1. p.steps \in Nat /\ p.left \in Nat /\ StepTime \in Nat /\ rest \in Nat
    BY <1>1, VehicleIsBuilt DEF VehicleIsBuilt, PlantOK
  <2> DEFINE k == p.steps
  <2>2. p.left + dt = StepTime * N + rest
    BY <1>1
  <2> HIDE DEF rest, k, time
  <2>3. (k + N) * StepTime = k * StepTime + StepTime * N
    BY <1>1, <2>1 DEF k
  <2> DEFINE x == k * StepTime
             y == StepTime * N
  <2>4. x \in Nat /\ y \in Nat
    BY <1>1, <2>1 DEF k
  <2>5. x + (p.left + dt) = (x + y) + rest
    <3> HIDE DEF x
    <3> QED BY <2>1, <2>2, <2>4
  <2> QED BY <2>3, <2>5 DEF k
<1>12. Gone(q) = Gone(p) + dt
  <2>1. p.steps * StepTime \in Nat /\ p.left \in Nat
    <3>1. p.steps \in Nat /\ StepTime \in Nat /\ p.left \in Nat
      BY VehicleIsBuilt DEF VehicleIsBuilt, PlantOK
    <3> QED BY <3>1
  <2> DEFINE x == p.steps * StepTime
  <2> HIDE DEF q, rest, time
  <2>2. Gone(q) = x + (p.left + dt)
    BY <1>10, <1>11 DEF Gone
  <2>3. Gone(p) = x + p.left /\ x \in Nat
    BY <2>1 DEF Gone
  <2> HIDE DEF x
  <2> QED BY <2>1, <2>2, <2>3
<1> QED BY <1>10, <1>12 DEF q

(* An integration step does not look at the time that is left over, so     *)
(* that it makes no difference whether a time is taken in one go or in two.*)
LEMMA IntegrateForgets ==
  ASSUME NEW p, PlantOK(p), NEW r
  PROVE  Integrate([p EXCEPT !.left = r]) = [Integrate(p) EXCEPT !.left = r]
<1> DEFINE q == [p EXCEPT !.left = r]
           inGear(x) == x.gear \in 1..Len(GearRatios)
           ratio(x) == IF inGear(x) THEN GearRatios[x.gear] ELSE 0
           torque(x) == Torque(x)
           accel(x) == Accel(x, torque(x), ratio(x))
           speed(x) == Greatest(0, x.speed + accel(x))
           rpm(x) == IF inGear(x)
                     THEN x.rpm + ((Greatest(speed(x) * ratio(x), IdleRpm) - x.rpm) \div 2)
                     ELSE x.rpm + torque(x)
           target(x) == Ambient + 70 + (x.throttle \div 5)
           coolant(x) == x.coolant + ((target(x) - x.coolant) \div 8)
           fuel(x) == 6 + Greatest(0, torque(x)) * (Clamp(rpm(x), 0, MaxRpm) \div 100)
           held(x) == Clamp(rpm(x), 0, MaxRpm)
           After(x, t, a, v, d, m, c, f, n) ==
             [x EXCEPT !.torque = t, !.accel = a, !.speed = v, !.distance = d, !.rpm = m,
                       !.coolant = c, !.fuel = f, !.steps = n]
<1>1. \A x : Integrate(x) = After(x, torque(x), accel(x), speed(x), x.distance + speed(x), held(x),
                                 coolant(x), fuel(x), x.steps + 1)
  BY Zenon DEF Integrate
<1>2. /\ q.throttle = p.throttle /\ q.brake = p.brake /\ q.gear = p.gear /\ q.rpm = p.rpm
      /\ q.speed = p.speed /\ q.distance = p.distance /\ q.coolant = p.coolant
      /\ q.fuel = p.fuel /\ q.steps = p.steps
  BY DEF PlantOK, PlantMembers
<1> HIDE DEF q
<1>3. ratio(q) = ratio(p)
  BY <1>2, Zenon
<1>4. torque(q) = torque(p)
  <2> DEFINE pull(x) == PeakTorque * x.throttle * TorqueShape(x.rpm)
             idle(x) == IF x.rpm < IdleRpm
                        THEN (PeakTorque * (IdleRpm - x.rpm)) \div (4 * IdleRpm) ELSE 0
             drag(x) == 8 + (x.rpm \div 250)
  <2>1. \A x : Torque(x) = (pull(x) \div 10000) + idle(x) - drag(x)
    BY SMT DEF Torque
  <2>2. pull(q) = pull(p)
    BY <1>2, Zenon
  <2>3. idle(q) = idle(p)
    BY <1>2, Zenon
  <2>4. drag(q) = drag(p)
    BY <1>2, Zenon
  <2> HIDE DEF pull, idle, drag
  <2> QED BY <2>1, <2>2, <2>3, <2>4
<1> HIDE DEF ratio, torque
<1>5. accel(q) = accel(p)
  BY <1>2, <1>3, <1>4, Zenon DEF Accel
<1> HIDE DEF accel
<1>6. speed(q) = speed(p)
  BY <1>2, <1>5, Zenon
<1> HIDE DEF speed
<1>7. held(q) = held(p)
  BY <1>2, <1>3, <1>4, <1>6, Zenon
<1>8. coolant(q) = coolant(p)
  BY <1>2, Zenon
<1>9. fuel(q) = fuel(p)
  BY <1>2, <1>3, <1>4, <1>6, Zenon
<1> HIDE DEF held, coolant, fuel, After
<1>10. Integrate(q) = After(q, torque(p), accel(p), speed(p), p.distance + speed(p), held(p),
                            coolant(p), fuel(p), p.steps + 1)
  <2>1. q.distance + speed(q) = p.distance + speed(p) /\ q.steps + 1 = p.steps + 1
    BY <1>2, <1>6, Zenon
  <2> QED BY <1>1, <1>4, <1>5, <1>6, <1>7, <1>8, <1>9, <2>1
<1>11. \A t, a, v, d, m, c, f, n :
         After(q, t, a, v, d, m, c, f, n) = [After(p, t, a, v, d, m, c, f, n) EXCEPT !.left = r]
  <2> SUFFICES ASSUME NEW t, NEW a, NEW v, NEW d, NEW m, NEW c, NEW f, NEW n
               PROVE  After(q, t, a, v, d, m, c, f, n)
                        = [After(p, t, a, v, d, m, c, f, n) EXCEPT !.left = r]
    OBVIOUS
  <2> QED BY DEF After, q, PlantOK, PlantMembers
<1> QED BY <1>1, <1>10, <1>11 DEF q

RunTo(p, n) == CHOOSE f : RunsUpTo(f, p, n)

LEMMA RunIs ==
  ASSUME NEW p, PlantOK(p), NEW N \in Nat
  PROVE  /\ RunsUpTo(RunTo(p, N), p, N) /\ PlantOK(RunTo(p, N)[N])
         /\ RunTo(p, N + 1)[N + 1] = Integrate(RunTo(p, N)[N])
<1> DEFINE E == {m \in Nat : \E f : RunsUpTo(f, p, m)}
           F == RunTo(p, N)
           G == RunTo(p, N + 1)
           T == {m \in Nat : m <= N => PlantOK(F[m]) /\ F[m] = G[m]}
<1>1. 0 \in E
  <2>1. RunsUpTo([k \in 0..0 |-> p], p, 0)
    BY DEF RunsUpTo
  <2> QED BY <2>1
<1>2. ASSUME NEW m \in E PROVE m + 1 \in E
  <2>1. PICK f : RunsUpTo(f, p, m)
    OBVIOUS
  <2> DEFINE g == [k \in 0..(m + 1) |-> IF k = m + 1 THEN Integrate(f[m]) ELSE f[k]]
  <2>2. RunsUpTo(g, p, m + 1)
    BY <2>1 DEF RunsUpTo
  <2> QED BY <2>2
<1>3. N \in E /\ N + 1 \in E
  BY <1>1, <1>2, SetInduction
<1>4. RunsUpTo(F, p, N) /\ RunsUpTo(G, p, N + 1)
  BY <1>3 DEF RunTo
<1> HIDE DEF F, G
<1>5. 0 \in T
  BY <1>4 DEF RunsUpTo
<1>6. ASSUME NEW m \in T PROVE m + 1 \in T
  <2> SUFFICES ASSUME m + 1 <= N PROVE PlantOK(F[m + 1]) /\ F[m + 1] = G[m + 1]
    OBVIOUS
  <2>1. F[m + 1] = Integrate(F[m]) /\ G[m + 1] = Integrate(G[m])
    BY <1>4 DEF RunsUpTo
  <2> QED BY <2>1, IntegrateOK
<1>7. N \in T
  <2> HIDE DEF T
  <2>1. T \in SUBSET Nat
    BY DEF T
  <2> QED BY <1>5, <1>6, <2>1, SetInduction
<1>8. G[N + 1] = Integrate(G[N])
  BY <1>4 DEF RunsUpTo
<1> QED BY <1>4, <1>7, <1>8 DEF F, G

LEMMA StepPlantIs ==
  ASSUME NEW p, NEW dt
  PROVE  LET time == p.left + dt
         IN  StepPlant(p, dt)
               = [RunTo(p, time \div StepTime)[time \div StepTime] EXCEPT !.left = time % StepTime]
BY DEF StepPlant, RunTo, RunsUpTo

(* Division, one step on.                                                  *)
LEMMA NextDivided ==
  ASSUME NEW x \in Nat, NEW g \in Nat \ {0}
  PROVE  \/ /\ (x % g) + 1 < g
            /\ (x + 1) \div g = x \div g /\ (x + 1) % g = (x % g) + 1
         \/ /\ (x % g) + 1 = g
            /\ (x + 1) \div g = x \div g + 1 /\ (x + 1) % g = 0
<1> DEFINE q == x \div g
           r == x % g
           y == x + 1
           s == y \div g
           t == y % g
<1>1. q \in Nat /\ r \in 0..(g - 1) /\ x = g * q + r
  OBVIOUS
<1>2. s \in Nat /\ t \in 0..(g - 1) /\ y = g * s + t
  OBVIOUS
<1>3. y = x + 1
  OBVIOUS
<1> HIDE DEF q, r, s, t, y
<1> DEFINE a == g * q
           b == g * s
<1>4. g * (q + 1) = a + g
  BY <1>1
<1>5. a \in Int /\ b \in Int
  BY <1>1, <1>2
<1>6. CASE s < q
  <2>1. a = b + g * (q - s) /\ g * (q - s) >= g
    BY <1>1, <1>2, <1>6
  <2> DEFINE c == g * (q - s)
  <2>2. c \in Int
    BY <1>1, <1>2
  <2> HIDE DEF a, b, c
  <2> QED BY <1>1, <1>2, <1>3, <1>5, <2>1, <2>2 DEF a, b, c
<1>7. CASE s > q + 1
  <2>1. b = (a + g) + g * (s - (q + 1)) /\ g * (s - (q + 1)) >= g
    BY <1>1, <1>2, <1>7
  <2> DEFINE c == g * (s - (q + 1))
  <2>2. c \in Int
    BY <1>1, <1>2
  <2>3. x = a + r /\ y = b + t /\ b = (a + g) + c /\ c >= g
    BY <1>1, <1>2, <2>1
  <2> HIDE DEF a, b, c
  <2> QED BY <1>1, <1>2, <1>3, <1>5, <2>2, <2>3
<1>8. CASE s = q
  <2>1. x = a + r /\ y = a + t
    BY <1>1, <1>2, <1>8
  <2> HIDE DEF a, b
  <2>2. t = r + 1 /\ r + 1 < g
    BY <1>1, <1>2, <1>3, <1>5, <2>1
  <2> QED BY <1>8, <2>2 DEF q, r, s, t, y
<1>9. CASE s = q + 1
  <2>1. x = a + r /\ y = (a + g) + t
    BY <1>1, <1>2, <1>4, <1>9
  <2> HIDE DEF a, b
  <2>2. t = 0 /\ r + 1 = g
    BY <1>1, <1>2, <1>3, <1>5, <2>1
  <2> QED BY <1>9, <2>2 DEF q, r, s, t, y
<1> QED BY <1>1, <1>2, <1>6, <1>7, <1>8, <1>9

LEMMA OneMomentOn ==
  ASSUME NEW p, PlantOK(p), NEW dt \in Nat
  PROVE  StepPlant(StepPlant(p, dt), 1) = StepPlant(p, dt + 1)
<1> DEFINE x == p.left + dt
           N == x \div StepTime
           r == x % StepTime
           y == RunTo(p, N)[N]
           q == StepPlant(p, dt)
<1>1. StepTime \in Nat \ {0} /\ p.left \in Nat
  BY VehicleIsBuilt DEF VehicleIsBuilt, PlantOK
<1>2. x \in Nat
  BY <1>1
<1>3. p.left + (dt + 1) = x + 1
  BY <1>1
<1>14. \/ /\ r + 1 < StepTime
          /\ (x + 1) \div StepTime = N /\ (x + 1) % StepTime = r + 1
       \/ /\ r + 1 = StepTime
          /\ (x + 1) \div StepTime = N + 1 /\ (x + 1) % StepTime = 0
  <2> HIDE DEF x
  <2> QED BY <1>1, <1>2, NextDivided
<1>4. q = [y EXCEPT !.left = r]
  BY StepPlantIs
<1> HIDE DEF x
<1>5. N \in Nat /\ r \in 0..(StepTime - 1)
  BY <1>1, <1>2
<1>6. PlantOK(y) /\ RunTo(p, N + 1)[N + 1] = Integrate(y)
  <2> HIDE DEF N
  <2> QED BY <1>5, RunIs
<1>7. PlantOK(q)
  BY StepPlantOK
<1> HIDE DEF y, q, r
<1>8. q.left = r
  BY <1>4, <1>6 DEF PlantOK, PlantMembers
<1>9. StepPlant(p, dt + 1)
        = [RunTo(p, (x + 1) \div StepTime)[(x + 1) \div StepTime] EXCEPT !.left = (x + 1) % StepTime]
  BY <1>3, StepPlantIs
<1>10. StepPlant(q, 1)
        = [RunTo(q, (r + 1) \div StepTime)[(r + 1) \div StepTime] EXCEPT !.left = (r + 1) % StepTime]
  BY <1>8, StepPlantIs
<1>11. RunTo(q, 0)[0] = q /\ RunTo(q, 1)[1] = Integrate(q)
  <2>1. RunsUpTo(RunTo(q, 0), q, 0) /\ RunTo(q, 0 + 1)[0 + 1] = Integrate(RunTo(q, 0)[0])
    BY <1>7, RunIs
  <2>2. RunTo(q, 0)[0] = q
    BY <2>1 DEF RunsUpTo
  <2> QED BY <2>1, <2>2
<1>12. CASE r + 1 < StepTime
  <2>1. (x + 1) \div StepTime = N /\ (x + 1) % StepTime = r + 1
    BY <1>1, <1>5, <1>12, <1>14
  <2>2. (r + 1) \div StepTime = 0 /\ (r + 1) % StepTime = r + 1
    BY <1>1, <1>5, <1>12
  <2>3. StepPlant(p, dt + 1) = [y EXCEPT !.left = r + 1]
    BY <1>9, <2>1 DEF y
  <2>4. StepPlant(q, 1) = [q EXCEPT !.left = r + 1]
    BY <1>10, <1>11, <2>2
  <2> QED BY <1>4, <2>3, <2>4 DEF q
<1>13. CASE r + 1 = StepTime
  <2>1. (x + 1) \div StepTime = N + 1 /\ (x + 1) % StepTime = 0
    BY <1>1, <1>5, <1>13, <1>14
  <2>2. (r + 1) \div StepTime = 1 /\ (r + 1) % StepTime = 0
    BY <1>1, <1>13
  <2>3. StepPlant(p, dt + 1) = [Integrate(y) EXCEPT !.left = 0]
    BY <1>6, <1>9, <2>1
  <2>4. StepPlant(q, 1) = [Integrate(q) EXCEPT !.left = 0]
    BY <1>10, <1>11, <2>2
  <2>5. Integrate(q) = [Integrate(y) EXCEPT !.left = r]
    BY <1>4, <1>6, IntegrateForgets
  <2> QED BY <2>3, <2>4, <2>5 DEF q
<1> QED BY <1>1, <1>5, <1>12, <1>13

(* However long a step is, it takes the vehicle where its moments do.      *)
LEMMA StepIsItsMoments ==
  ASSUME NEW p, PlantOK(p), NEW n \in Nat
  PROVE  MomentByMoment(p, n) = IF n = 0 THEN p ELSE StepPlant(p, n)
<1> DEFINE s == [k \in 1..n |-> k]
           Moments(f, m) == f = [k \in 0..m |-> IF k = 0 THEN p ELSE Moment(f[k - 1], s[k])]
           E == {m \in Nat : \E f : Moments(f, m)}
           F == CHOOSE f : Moments(f, n)
           T == {m \in Nat : m <= n => F[m] = IF m = 0 THEN p ELSE StepPlant(p, m)}
<1>1. Len(s) = n
  <2>1. s \in Seq(Nat)
    OBVIOUS
  <2> QED BY <2>1, LenProperties
<1> HIDE DEF s
<1>2. 0 \in E
  <2>1. Moments([k \in 0..0 |-> p], 0)
    OBVIOUS
  <2> QED BY <2>1
<1>3. ASSUME NEW m \in E PROVE m + 1 \in E
  <2>1. PICK f : Moments(f, m)
    OBVIOUS
  <2> DEFINE g == [k \in 0..(m + 1) |-> IF k = m + 1 THEN Moment(f[m], s[m + 1]) ELSE f[k]]
  <2>2. Moments(g, m + 1)
    BY <2>1
  <2> HIDE DEF Moments, g
  <2> QED BY <2>2
<1>4. n \in E
  <2> HIDE DEF E
  <2>1. E \in SUBSET Nat
    BY DEF E
  <2> QED BY <1>2, <1>3, <2>1, SetInduction
<1>5. Moments(F, n)
  BY <1>4
<1>6. MomentByMoment(p, n) = F[n]
  BY <1>1 DEF MomentByMoment, Folded, s
<1> HIDE DEF F
<1>7. 0 \in T
  BY <1>5
<1>8. ASSUME NEW m \in T PROVE m + 1 \in T
  <2> SUFFICES ASSUME m + 1 <= n PROVE F[m + 1] = StepPlant(p, m + 1)
    OBVIOUS
  <2>1. F[m + 1] = StepPlant(F[m], 1)
    BY <1>5 DEF Moment
  <2>2. F[m] = IF m = 0 THEN p ELSE StepPlant(p, m)
    OBVIOUS
  <2> QED BY <2>1, <2>2, OneMomentOn
<1>9. n \in T
  <2> HIDE DEF T
  <2>1. T \in SUBSET Nat
    BY DEF T
  <2> QED BY <1>7, <1>8, <2>1, SetInduction
<1> QED BY <1>6, <1>9

-----------------------------------------------------------------------------
(* The driver's events that are due leave the vehicle one.                 *)
DriveEvent == [at : Nat, pedal : {"throttle", "brake", "gear"}, value : Int]
DrivenUpTo(f, p, s, n) == f = [k \in 0..n |-> IF k = 0 THEN p ELSE Driven(f[k - 1], s[k])]

LEMMA DriveFoldOK ==
  ASSUME NEW p, PlantOK(p), NEW s \in Seq(DriveEvent)
  PROVE  PlantOK(Folded(Driven, p, s)) /\ SameTime(Folded(Driven, p, s), p)
<1> DEFINE N == Len(s)
           E == {m \in Nat : \E f : DrivenUpTo(f, p, s, m)}
           F == CHOOSE f : DrivenUpTo(f, p, s, N)
           T == {m \in Nat : m <= N => PlantOK(F[m]) /\ SameTime(F[m], p)}
<1>1. N \in Nat /\ \A k \in 1..N : s[k] \in DriveEvent
  OBVIOUS
<1>2. 0 \in E
  <2>1. DrivenUpTo([k \in 0..0 |-> p], p, s, 0)
    BY DEF DrivenUpTo
  <2> QED BY <2>1
<1>3. ASSUME NEW m \in E PROVE m + 1 \in E
  <2>1. PICK f : DrivenUpTo(f, p, s, m)
    OBVIOUS
  <2> DEFINE g == [k \in 0..(m + 1) |-> IF k = m + 1 THEN Driven(f[m], s[m + 1]) ELSE f[k]]
  <2>2. DrivenUpTo(g, p, s, m + 1)
    BY <2>1 DEF DrivenUpTo
  <2> QED BY <2>2
<1>4. N \in E
  <2> HIDE DEF E
  <2>1. E \in SUBSET Nat
    BY DEF E
  <2> QED BY <1>1, <1>2, <1>3, <2>1, SetInduction
<1>5. DrivenUpTo(F, p, s, N)
  BY <1>4
<1>6. Folded(Driven, p, s) = F[N]
  BY DEF Folded, DrivenUpTo
<1> HIDE DEF F, N
<1>7. 0 \in T
  BY <1>1, <1>5 DEF DrivenUpTo, SameTime
<1>8. ASSUME NEW m \in T PROVE m + 1 \in T
  <2> SUFFICES ASSUME m + 1 <= N PROVE PlantOK(F[m + 1]) /\ SameTime(F[m + 1], p)
    OBVIOUS
  <2>1. PlantOK(F[m]) /\ SameTime(F[m], p)
    BY <1>1
  <2>2. s[m + 1] \in DriveEvent
    BY <1>1
  <2>3. F[m + 1] = Driven(F[m], s[m + 1])
    <3>1. m + 1 \in 0..N /\ m + 1 # 0 /\ (m + 1) - 1 = m
      BY <1>1
    <3> HIDE DEF T
    <3> QED BY <1>5, <3>1 DEF DrivenUpTo
  <2> QED BY <2>1, <2>2, <2>3, DrivenOK DEF DriveEvent, SameTime
<1>9. N \in T
  <2> HIDE DEF T
  <2>1. T \in SUBSET Nat
    BY DEF T
  <2> QED BY <1>1, <1>7, <1>8, <2>1, SetInduction
<1> QED BY <1>1, <1>6, <1>9

LEMMA ApplyDriveOK ==
  ASSUME PlantOK(sim.plant), sim.drive \in 0..Len(Drive), NEW now \in Int
  PROVE  /\ PlantOK(ApplyDrive(now).plant) /\ SameTime(ApplyDrive(now).plant, sim.plant)
         /\ ApplyDrive(now).next \in 0..Len(Drive)
<1> DEFINE s == SortedDrive
           n == Reached(s, now)
           events == SubSeq(s, sim.drive + 1, n)
<1>1. Drive \in Seq(DriveEvent) /\ Len(Drive) \in Nat
  BY SimulationIsBuilt DEF SimulationIsBuilt, DriveEvent
<1>2. s \in Seq(DriveEvent) /\ Len(s) = Len(Drive)
  BY <1>1, SortKeepsLength DEF SortedDrive
<1> HIDE DEF s
<1>3. n \in 0..Len(Drive)
  BY <1>2, ReachedIs DEF IsSequence
<1> HIDE DEF n
<1>4. events \in Seq(DriveEvent)
  BY <1>1, <1>2, <1>3
<1>5. PlantOK(Folded(Driven, sim.plant, events)) /\ SameTime(Folded(Driven, sim.plant, events), sim.plant)
  <2> HIDE DEF events
  <2> QED BY <1>4, DriveFoldOK
<1> QED BY <1>1, <1>3, <1>5 DEF ApplyDrive, Greatest, s, n

(* An event is passed once, when the simulation comes to its time.         *)
LEMMA SortedDriveIs ==
  /\ IsSequence(SortedDrive) /\ Len(SortedDrive) = Len(Drive)
  /\ \A k \in 1..Len(SortedDrive) : SortedDrive[k].at \in Nat
<1>1. Drive \in Seq(DriveEvent)
  BY SimulationIsBuilt DEF SimulationIsBuilt, DriveEvent
<1>2. SortedDrive \in Seq(DriveEvent) /\ Len(SortedDrive) = Len(Drive)
  BY <1>1, SortKeepsLength DEF SortedDrive
<1>3. \A k \in 1..Len(SortedDrive) : SortedDrive[k] \in DriveEvent
  BY <1>2
<1> QED BY <1>2, <1>3 DEF IsSequence, DriveEvent

LEMMA DriveIsReached ==
  /\ Reached(SortedDrive, -1) = 0
  /\ \A a, c \in Int : a <= c => /\ Reached(SortedDrive, a) \in Nat
                                 /\ Reached(SortedDrive, a) <= Reached(SortedDrive, c)
<1> DEFINE s == SortedDrive
           R(t) == Reached(s, t)
<1>1. IsSequence(s) /\ Len(s) \in Nat /\ \A k \in 1..Len(s) : s[k].at \in Nat
  BY SortedDriveIs, SequenceHasALength
<1> HIDE DEF s
<1>2. \A t : /\ R(t) \in 0..Len(s) /\ \A k \in 1..R(t) : s[k].at <= t
             /\ R(t) < Len(s) => ~(s[R(t) + 1].at <= t)
  BY <1>1, ReachedIs
<1> HIDE DEF R
<1>3. R(-1) = 0
  <2> SUFFICES ASSUME R(-1) # 0 PROVE FALSE
    OBVIOUS
  <2>1. 1 \in 1..R(-1) /\ 1 \in 1..Len(s)
    BY <1>1, <1>2
  <2>2. s[1].at \in Nat /\ s[1].at <= -1
    BY <1>1, <1>2, <2>1
  <2> QED BY <2>2
<1>4. ASSUME NEW a \in Int, NEW c \in Int, a <= c, ~(R(a) <= R(c)) PROVE FALSE
  <2> DEFINE k == R(c) + 1
  <2>1. k \in 1..R(a) /\ k \in 1..Len(s) /\ R(c) < Len(s)
    BY <1>1, <1>2, <1>4
  <2>2. s[k].at <= a /\ ~(s[k].at <= c) /\ s[k].at \in Nat
    BY <1>1, <1>2, <2>1
  <2> HIDE DEF k
  <2> QED BY <1>4, <2>2
<1> QED BY <1>1, <1>2, <1>3, <1>4 DEF R, s

-----------------------------------------------------------------------------
(* Where a walk is after n draws, and that every way there leads to it.    *)
Interval(w) == Greatest(Sources[w].interval, 1)
WalkStep(w, v, k) == Clamp(v + Sources[w].draws[k], Sources[w].low, Sources[w].high)
WalksUpTo(f, w, base, m, n) ==
  f = [k \in 0..n |-> IF k = 0 THEN base ELSE WalkStep(w, f[k - 1], m + k)]
WalkTo(w, n) == CHOOSE f : WalksUpTo(f, w, Sources[w].start, 0, n)
WalkValue(w, n) == WalkTo(w, n)[n]

LEMMA WalkExists ==
  ASSUME NEW w, NEW base, NEW m, NEW n \in Nat
  PROVE  \E f : WalksUpTo(f, w, base, m, n)
<1> DEFINE E == {l \in Nat : \E f : WalksUpTo(f, w, base, m, l)}
<1>1. 0 \in E
  <2>1. WalksUpTo([k \in 0..0 |-> base], w, base, m, 0)
    BY DEF WalksUpTo
  <2> QED BY <2>1
<1>2. ASSUME NEW l \in E PROVE l + 1 \in E
  <2>1. PICK f : WalksUpTo(f, w, base, m, l)
    OBVIOUS
  <2> DEFINE g == [k \in 0..(l + 1) |-> IF k = l + 1 THEN WalkStep(w, f[l], m + (l + 1)) ELSE f[k]]
  <2>2. WalksUpTo(g, w, base, m, l + 1)
    BY <2>1 DEF WalksUpTo
  <2> QED BY <2>2
<1>3. n \in E
  <2> HIDE DEF E
  <2>1. E \in SUBSET Nat
    BY DEF E
  <2> QED BY <1>1, <1>2, <2>1, SetInduction
<1> QED BY <1>3

LEMMA WalkValueIs ==
  ASSUME NEW w, NEW n \in Nat, NEW f, NEW l \in Nat, n <= l,
         WalksUpTo(f, w, Sources[w].start, 0, l)
  PROVE  f[n] = WalkValue(w, n)
<1> DEFINE g == WalkTo(w, n)
           T == {k \in Nat : k <= n => f[k] = g[k]}
<1>1. WalksUpTo(g, w, Sources[w].start, 0, n)
  BY WalkExists DEF WalkTo
<1> HIDE DEF g
<1>2. 0 \in T
  BY <1>1 DEF WalksUpTo
<1>3. ASSUME NEW k \in T PROVE k + 1 \in T
  <2> SUFFICES ASSUME k + 1 <= n PROVE f[k + 1] = g[k + 1]
    OBVIOUS
  <2>1. f[k + 1] = WalkStep(w, f[k], 0 + (k + 1)) /\ g[k + 1] = WalkStep(w, g[k], 0 + (k + 1))
    <3>1. k + 1 \in 0..n /\ k + 1 \in 0..l /\ k + 1 # 0 /\ (k + 1) - 1 = k
      OBVIOUS
    <3> HIDE DEF T
    <3> QED BY <1>1, <3>1 DEF WalksUpTo
  <2>2. f[k] = g[k]
    OBVIOUS
  <2> QED BY <2>1, <2>2
<1>4. n \in T
  <2> HIDE DEF T
  <2>1. T \in SUBSET Nat
    BY DEF T
  <2> QED BY <1>2, <1>3, <2>1, SetInduction
<1> QED BY <1>4 DEF WalkValue, g

LEMMA WalkGoesOn ==
  ASSUME NEW w, NEW n \in Nat
  PROVE  /\ WalkValue(w, 0) = Sources[w].start
         /\ WalkValue(w, n + 1) = WalkStep(w, WalkValue(w, n), n + 1)
<1>1. PICK f : WalksUpTo(f, w, Sources[w].start, 0, n + 1)
  BY WalkExists
<1>2. f[0] = WalkValue(w, 0) /\ f[n] = WalkValue(w, n) /\ f[n + 1] = WalkValue(w, n + 1)
  BY <1>1, WalkValueIs
<1> QED BY <1>1, <1>2 DEF WalksUpTo

(* A walk is where its index says.                                         *)
WalkOK(w, x) == x.index \in Nat /\ x = [index |-> x.index, value |-> WalkValue(w, x.index)]

LEMMA WalkedIs ==
  ASSUME NEW w \in Walks, NEW x, WalkOK(w, x), NEW t \in Nat
  PROVE  Walked(w, x, t) = [index |-> t \div Interval(w), value |-> WalkValue(w, t \div Interval(w))]
<1> DEFINE want == t \div Interval(w)
           from == IF want < x.index THEN FreshWalk(w) ELSE x
           m == from.index
           N == want - m
           s == [k \in 1..N |-> m + k]
           Draws(f, q) == f = [k \in 0..Len(q) |-> IF k = 0 THEN from.value
                                                  ELSE WalkStep(w, f[k - 1], q[k])]
           F == CHOOSE f : Draws(f, s)
           T == {k \in Nat : k <= N => F[k] = WalkValue(w, m + k)}
<1>1. Interval(w) \in Nat \ {0}
  BY WalksAreKnown DEF WalksAreKnown, Interval, Greatest
<1>2. want \in Nat
  BY <1>1
<1> HIDE DEF want
<1>3. m \in Nat /\ from.value = WalkValue(w, m) /\ m <= want
  <2>1. CASE want < x.index
    <3>1. from = [index |-> 0, value |-> Sources[w].start]
      BY <2>1 DEF FreshWalk
    <3> HIDE DEF from
    <3> QED BY <1>2, <3>1, WalkGoesOn
  <2>2. CASE ~(want < x.index)
    <3>1. from = x
      BY <2>2
    <3> HIDE DEF from
    <3> QED BY <1>2, <2>2, <3>1 DEF WalkOK
  <2> QED BY <2>1, <2>2
<1> HIDE DEF from, m
<1>4. N \in Nat /\ Len(s) = N /\ \A k \in 1..N : s[k] = m + k
  <2>1. N \in Nat
    BY <1>2, <1>3
  <2> HIDE DEF N
  <2>2. \A k \in 1..N : m + k \in Nat
    BY <1>3
  <2>3. s \in Seq(Nat) /\ DOMAIN s = 1..N
    BY <2>1, <2>2
  <2>4. Len(s) = N
    <3> HIDE DEF s
    <3> QED BY <2>1, <2>3, LenProperties
  <2> QED BY <2>1, <2>4
<1>5. Walked(w, x, t) = [index |-> want, value |-> F[Len(s)]]
  BY Zenon DEF Walked, Folded, WalkStep, want, from, m, Interval
<1>6. WalksUpTo(F, w, from.value, m, N)
  <2>1. ASSUME NEW f PROVE Draws(f, s) <=> WalksUpTo(f, w, from.value, m, N)
    <3> HIDE DEF s, N
    <3>1. [k \in 0..Len(s) |-> IF k = 0 THEN from.value ELSE WalkStep(w, f[k - 1], s[k])]
            = [k \in 0..N |-> IF k = 0 THEN from.value ELSE WalkStep(w, f[k - 1], m + k)]
      BY <1>4
    <3> QED BY <3>1 DEF WalksUpTo
  <2>2. \E f : Draws(f, s)
    <3> HIDE DEF Draws, s
    <3> QED BY <1>4, <2>1, WalkExists
  <2>3. Draws(F, s)
    <3> HIDE DEF Draws, s
    <3> QED BY <2>2 DEF F
  <2> HIDE DEF Draws, F
  <2> QED BY <2>1, <2>3
<1> HIDE DEF F, s
<1>7. 0 \in T
  BY <1>3, <1>4, <1>6 DEF WalksUpTo, m
<1>8. ASSUME NEW k \in T PROVE k + 1 \in T
  <2> SUFFICES ASSUME k + 1 <= N PROVE F[k + 1] = WalkValue(w, m + (k + 1))
    OBVIOUS
  <2>1. k + 1 \in 0..N /\ k + 1 # 0 /\ (k + 1) - 1 = k /\ m + k \in Nat /\ m + (k + 1) = (m + k) + 1
    BY <1>3, <1>4
  <2>2. F[k] = WalkValue(w, m + k)
    BY <1>4
  <2> HIDE DEF T, N
  <2>3. F[k + 1] = WalkStep(w, F[k], m + (k + 1))
    BY <1>6, <2>1 DEF WalksUpTo
  <2> QED BY <2>1, <2>2, <2>3, WalkGoesOn
<1>9. F[N] = WalkValue(w, want)
  <2>1. N \in T
    <3> HIDE DEF T, N
    <3>1. T \in SUBSET Nat
      BY DEF T
    <3> QED BY <1>4, <1>7, <1>8, <3>1, SetInduction
  <2>2. m + N = want
    BY <1>2, <1>3
  <2> QED BY <1>4, <2>1, <2>2
<1> QED BY <1>4, <1>5, <1>9 DEF want

(* Walks that no message samples stay where they began.                    *)
Sampled == UNION {WalksOf[x] : x \in UNION {SourcesOf(i) : i \in DOMAIN TxList}}
WalksOK(walks) ==
  /\ DOMAIN walks = Walks
  /\ \A w \in Walks : WalkOK(w, walks[w]) /\ (w \notin Sampled => walks[w] = FreshWalk(w))

LEMMA FreshWalkOK ==
  ASSUME NEW w \in Walks
  PROVE  WalkOK(w, FreshWalk(w))
BY WalkGoesOn DEF WalkOK, FreshWalk

LEMMA FreshWalksOK == WalksOK(FreshWalks)
BY FreshWalkOK DEF WalksOK, FreshWalks

LEMMA AfterSampleOK ==
  ASSUME NEW walks, WalksOK(walks), NEW i \in DOMAIN TxList, NEW source \in SourcesOf(i),
         NEW t \in Nat
  PROVE  WalksOK(AfterSample(source, walks, t))
<1> DEFINE v == AfterSample(source, walks, t)
<1>1. v = [w \in Walks |-> IF w \in WalksOf[source] THEN Walked(w, walks[w], t) ELSE walks[w]]
  BY DEF AfterSample
<1> HIDE DEF v
<1>2. ASSUME NEW w \in Walks
      PROVE  WalkOK(w, v[w]) /\ (w \notin Sampled => v[w] = FreshWalk(w))
  <2>1. CASE w \in WalksOf[source]
    <3>1. WalkOK(w, Walked(w, walks[w], t))
      <4> DEFINE n == t \div Interval(w)
      <4>1. Interval(w) \in Nat \ {0}
        BY WalksAreKnown DEF WalksAreKnown, Interval, Greatest
      <4>2. n \in Nat
        BY <4>1
      <4>3. Walked(w, walks[w], t) = [index |-> n, value |-> WalkValue(w, n)]
        BY WalkedIs DEF WalksOK
      <4> HIDE DEF n
      <4> QED BY <4>2, <4>3 DEF WalkOK
    <3>2. w \in Sampled
      BY <2>1 DEF Sampled
    <3> QED BY <1>1, <2>1, <3>1, <3>2
  <2>2. CASE w \notin WalksOf[source]
    BY <1>1, <2>2 DEF WalksOK
  <2> QED BY <2>1, <2>2
<1>3. WalksOK(v)
  BY <1>1, <1>2 DEF WalksOK
<1> QED BY <1>3 DEF v

(* The counter and the checksum of a message are signals of their own: no  *)
(* binding drives the checksum, so that it is still 0, as the frame began, *)
(* when the sum is taken over it.                                          *)
StampsAreSeparate ==
  \A i \in DOMAIN TxList :
    TxList[i].checksum # None =>
      /\ TxList[i].counter # TxList[i].checksum
      /\ \A k \in DOMAIN TxList[i].bindings : TxList[i].bindings[k].signal # TxList[i].checksum

(* A payload is gathered binding by binding.                               *)
Payload(i, data) ==
  /\ data = [x \in SignalsOf[TxList[i].message] |-> data[x]]
  /\ StampsAreSeparate /\ TxList[i].checksum # None => data[TxList[i].checksum] = 0
IsBound(i, b) == DOMAIN b = {"data", "walks"} /\ WalksOK(b.walks) /\ Payload(i, b.data)

LEMMA BindOK ==
  ASSUME NEW i \in DOMAIN TxList, NEW b, IsBound(i, b), NEW k \in DOMAIN TxList[i].bindings,
         NEW plant, NEW now \in Nat
  PROVE  IsBound(i, Bind(b, TxList[i].bindings[k], plant, now))
<1> DEFINE x == TxList[i].bindings[k]
           set(v) == [b EXCEPT !.data[x.signal] = v]
<1>1. ASSUME NEW v PROVE IsBound(i, set(v)) /\ set(v).walks = b.walks
  <2> DEFINE c == set(v)
             data == [b.data EXCEPT ![x.signal] = v]
  <2>1. DOMAIN c = {"data", "walks"} /\ c.walks = b.walks /\ c.data = data
    BY DEF IsBound
  <2> HIDE DEF c
  <2>2. data = [y \in SignalsOf[TxList[i].message] |-> data[y]]
    BY DEF IsBound, Payload
  <2>3. ASSUME StampsAreSeparate, TxList[i].checksum # None
        PROVE  data[TxList[i].checksum] = 0
    <3> DEFINE z == TxList[i].checksum
    <3>1. x.signal # z /\ b.data[z] = 0
      BY <2>3 DEF IsBound, Payload, StampsAreSeparate
    <3>2. z \in SignalsOf[TxList[i].message]
      BY <2>3, SimulationIsBuilt DEF SimulationIsBuilt
    <3>3. z \in DOMAIN b.data
      BY <3>2 DEF IsBound, Payload
    <3> HIDE DEF x, z
    <3>4. data[z] = 0
      BY <3>1, <3>3
    <3> QED BY <3>4 DEF z
  <2> HIDE DEF data
  <2> QED BY <2>1, <2>2, <2>3 DEF IsBound, Payload, c
<1>2. ASSUME NEW c, IsBound(i, c), NEW walks, WalksOK(walks)
      PROVE  IsBound(i, [c EXCEPT !.walks = walks])
  <2> DEFINE d == [c EXCEPT !.walks = walks]
  <2>1. DOMAIN d = {"data", "walks"} /\ d.walks = walks /\ d.data = c.data
    BY <1>2 DEF IsBound
  <2> HIDE DEF d
  <2> QED BY <1>2, <2>1 DEF IsBound, d
<1>3. x.source # 0 => x.source \in SourcesOf(i)
  BY DEF SourcesOf
<1> HIDE DEF x
<1>4. \/ Bind(b, x, plant, now) = b
      \/ \E v : Bind(b, x, plant, now) = set(v)
      \/ x.source # 0 /\ \E v : Bind(b, x, plant, now)
                                  = [set(v) EXCEPT !.walks = AfterSample(x.source, @, now)]
  <2> DEFINE e(v) == Encoded(x.signal, v)
  <2>1. \/ Bind(b, x, plant, now) = b
        \/ Bind(b, x, plant, now) = set(e(0))
        \/ Bind(b, x, plant, now) = set(e(plant[x.field]))
        \/ x.source # 0 /\ Bind(b, x, plant, now)
             = [set(e(Sample(x.source, b.walks, now))) EXCEPT !.walks = AfterSample(x.source, @, now)]
    BY Zenon DEF Bind
  <2> HIDE DEF e
  <2> QED BY <2>1, Zenon
<1>5. ASSUME NEW v, x.source # 0
      PROVE  IsBound(i, [set(v) EXCEPT !.walks = AfterSample(x.source, @, now)])
  <2> DEFINE c == set(v)
  <2>1. IsBound(i, c) /\ WalksOK(c.walks)
    BY <1>1 DEF IsBound
  <2> HIDE DEF c
  <2>2. WalksOK(AfterSample(x.source, c.walks, now))
    BY <1>3, <1>5, <2>1, AfterSampleOK
  <2>3. IsBound(i, [c EXCEPT !.walks = AfterSample(x.source, c.walks, now)])
    BY <1>2, <2>1, <2>2
  <2> QED BY <2>3 DEF c
<1> HIDE DEF set
<1> QED BY <1>1, <1>4, <1>5 DEF x

(* A payload that is complete, of a frame before which c were built.       *)
Stamps(i, data, c) ==
  /\ TxList[i].counter # None => data[TxList[i].counter] = c % RawModulus
  /\ TxList[i].checksum # None =>
       data[TxList[i].checksum] = ChecksumOf([data EXCEPT ![TxList[i].checksum] = 0]) % RawModulus

LEMMA CompletedStamps ==
  ASSUME StampsAreSeparate, NEW i \in DOMAIN TxList, NEW ecus, NEW bound, Payload(i, bound.data)
  PROVE  Stamps(i, Completed(i, ecus, bound).data, ecus.tx[i].counter)
<1> DEFINE tx == TxList[i]
           S == SignalsOf[tx.message]
           a == tx.counter
           z == tx.checksum
           c == ecus.tx[i].counter
           old == bound.data
           mid == Stamped(old, a, c)
           sum == ChecksumOf(mid)
           new == Stamped(mid, z, sum)
<1>1. Completed(i, ecus, bound).data = new
  BY DEF Completed
<1>2. {a, z} \subseteq S \cup {None}
  BY SimulationIsBuilt DEF SimulationIsBuilt
<1>3. old = [x \in S |-> old[x]] /\ (z # None => old[z] = 0 /\ a # z)
  BY DEF Payload, StampsAreSeparate
<1> HIDE DEF a, z, old, S, c
<1>4. /\ mid = [x \in S |-> mid[x]]
      /\ \A x \in S : x # a => mid[x] = old[x]
      /\ a \in S => mid[a] = c % RawModulus
  <2>1. CASE a \in S
    <3>1. mid = [old EXCEPT ![a] = c % RawModulus]
      BY <1>3, <2>1 DEF Stamped
    <3> DEFINE m == c % RawModulus
    <3> HIDE DEF mid, m
    <3>2. mid = [old EXCEPT ![a] = m]
      BY <3>1 DEF m
    <3> QED BY <1>3, <2>1, <3>2 DEF m
  <2>2. CASE a \notin S
    <3>1. mid = old
      BY <1>3, <2>2 DEF Stamped
    <3> QED BY <1>3, <2>2, <3>1
  <2> QED BY <2>1, <2>2
<1> HIDE DEF mid, sum
<1>5. /\ z \notin S => new = mid
      /\ z \in S => new = [mid EXCEPT ![z] = sum % RawModulus]
  BY <1>4 DEF Stamped
<1> HIDE DEF new
<1>6. ASSUME a # None PROVE new[a] = c % RawModulus
  <2>1. a \in S /\ mid[a] = c % RawModulus
    BY <1>2, <1>4, <1>6
  <2>2. CASE z \in S /\ z # None
    BY <1>3, <1>4, <1>5, <2>1, <2>2
  <2>3. CASE z \notin S
    BY <1>5, <2>1, <2>3
  <2>4. CASE z = None
    BY <1>4, <1>5, <1>6, <2>1, <2>3, <2>4
  <2> QED BY <2>2, <2>3, <2>4
<1>7. ASSUME z # None PROVE new[z] = ChecksumOf([new EXCEPT ![z] = 0]) % RawModulus
  <2>1. z \in S /\ mid[z] = 0
    BY <1>2, <1>3, <1>4, <1>7
  <2> DEFINE m == sum % RawModulus
  <2>2. new = [mid EXCEPT ![z] = m]
    BY <1>5, <2>1
  <2> HIDE DEF m
  <2>3. [new EXCEPT ![z] = 0] = mid
    <3>1. DOMAIN new = S /\ \A x \in S : x # z => new[x] = mid[x]
      BY <1>4, <2>1, <2>2
    <3> DEFINE back == [new EXCEPT ![z] = 0]
    <3>2. back = [x \in S |-> IF x = z THEN 0 ELSE new[x]]
      BY <3>1
    <3>3. \A x \in S : (IF x = z THEN 0 ELSE new[x]) = mid[x]
      BY <2>1, <3>1
    <3> HIDE DEF back
    <3>4. back = [x \in S |-> mid[x]]
      BY <3>2, <3>3
    <3> QED BY <1>4, <3>4 DEF back
  <2>4. new[z] = m
    BY <1>4, <2>1, <2>2
  <2> QED BY <2>3, <2>4 DEF m, sum
<1> QED BY <1>1, <1>6, <1>7 DEF Stamps, a, z, c

LEMMA CompletedShape ==
  ASSUME NEW i, NEW ecus, NEW bound
  PROVE  DOMAIN Completed(i, ecus, bound).data = DOMAIN bound.data
<1>1. ASSUME NEW data, NEW signal, NEW value
      PROVE  DOMAIN Stamped(data, signal, value) = DOMAIN data
  BY DEF Stamped
<1> DEFINE counted == Stamped(bound.data, TxList[i].counter, ecus.tx[i].counter)
           summed == Stamped(counted, TxList[i].checksum, ChecksumOf(counted))
<1>2. DOMAIN summed = DOMAIN counted /\ DOMAIN counted = DOMAIN bound.data
  BY <1>1
<1>3. Completed(i, ecus, bound).data = summed
  BY DEF Completed
<1> HIDE DEF summed, counted
<1> QED BY <1>2, <1>3

BindsUpTo(f, b, s, plant, now, n) ==
  f = [k \in 0..n |-> IF k = 0 THEN b ELSE Bind(f[k - 1], s[k], plant, now)]

LEMMA BuildOK ==
  ASSUME NEW i \in DOMAIN TxList, NEW ecus, WalksOK(ecus.walks), NEW plant, NEW now \in Nat
  PROVE  /\ WalksOK(Build(i, ecus, plant, now).walks)
         /\ DOMAIN Build(i, ecus, plant, now).data = SignalsOf[TxList[i].message]
         /\ StampsAreSeparate => Stamps(i, Build(i, ecus, plant, now).data, ecus.tx[i].counter)
<1> DEFINE s == TxList[i].bindings
           N == Len(s)
           empty == [data |-> [x \in SignalsOf[TxList[i].message] |-> 0], walks |-> ecus.walks]
           E == {m \in Nat : \E f : BindsUpTo(f, empty, s, plant, now, m)}
           F == CHOOSE f : BindsUpTo(f, empty, s, plant, now, N)
           T == {m \in Nat : m <= N => IsBound(i, F[m])}
<1>1. N \in Nat /\ DOMAIN s = 1..N
  BY TransmissionsAreKnown DEF TransmissionsAreKnown
<1>2. IsBound(i, empty)
  <2>1. TxList[i].checksum # None => TxList[i].checksum \in SignalsOf[TxList[i].message]
    BY SimulationIsBuilt DEF SimulationIsBuilt
  <2> QED BY <2>1 DEF IsBound, Payload
<1>3. Build(i, ecus, plant, now) = Completed(i, ecus, F[N])
  BY DEF Build, Folded, BindsUpTo
<1> HIDE DEF N, empty
<1>4. 0 \in E
  <2>1. BindsUpTo([k \in 0..0 |-> empty], empty, s, plant, now, 0)
    BY DEF BindsUpTo
  <2> QED BY <2>1
<1>5. ASSUME NEW m \in E PROVE m + 1 \in E
  <2>1. PICK f : BindsUpTo(f, empty, s, plant, now, m)
    OBVIOUS
  <2> DEFINE g == [k \in 0..(m + 1) |-> IF k = m + 1 THEN Bind(f[m], s[m + 1], plant, now) ELSE f[k]]
  <2>2. BindsUpTo(g, empty, s, plant, now, m + 1)
    BY <2>1 DEF BindsUpTo
  <2> QED BY <2>2
<1>6. N \in E
  <2> HIDE DEF E
  <2>1. E \in SUBSET Nat
    BY DEF E
  <2> QED BY <1>1, <1>4, <1>5, <2>1, SetInduction
<1>7. BindsUpTo(F, empty, s, plant, now, N)
  BY <1>6
<1> HIDE DEF F
<1>8. 0 \in T
  BY <1>1, <1>2, <1>7 DEF BindsUpTo
<1>9. ASSUME NEW m \in T PROVE m + 1 \in T
  <2> SUFFICES ASSUME m + 1 <= N PROVE IsBound(i, F[m + 1])
    OBVIOUS
  <2>1. IsBound(i, F[m]) /\ m + 1 \in DOMAIN s
    BY <1>1
  <2>2. F[m + 1] = Bind(F[m], s[m + 1], plant, now)
    BY <1>1, <1>7 DEF BindsUpTo
  <2> QED BY <2>1, <2>2, BindOK
<1>10. N \in T
  <2> HIDE DEF T
  <2>1. T \in SUBSET Nat
    BY DEF T
  <2> QED BY <1>1, <1>8, <1>9, <2>1, SetInduction
<1> DEFINE bound == F[N]
<1>11. IsBound(i, bound)
  BY <1>1, <1>10
<1> HIDE DEF bound
<1>12. Completed(i, ecus, bound).walks = bound.walks
  BY DEF Completed
<1>13. StampsAreSeparate => Stamps(i, Completed(i, ecus, bound).data, ecus.tx[i].counter)
  BY <1>11, CompletedStamps DEF IsBound
<1>14. DOMAIN Completed(i, ecus, bound).data = SignalsOf[TxList[i].message]
  BY <1>11, CompletedShape DEF IsBound, Payload
<1> QED BY <1>3, <1>11, <1>12, <1>13, <1>14 DEF IsBound, bound

-----------------------------------------------------------------------------
(* What a step has gathered, message by message: b is what it began with.  *)
SimMembers == {"pending", "drive", "produced", "last", "started", "plant", "ecus", "faults",
               "made"}
Runtime(r) ==
  DOMAIN r = {"due", "counter", "last", "triggered"} /\ r.due \in Nat /\ r.counter \in Nat
EcusOK(ecus) ==
  /\ DOMAIN ecus = {"tx", "running", "jitter", "walks"}
  /\ DOMAIN ecus.tx = DOMAIN TxList /\ \A i \in DOMAIN TxList : Runtime(ecus.tx[i])
  /\ DOMAIN ecus.running = Nodes
  /\ DOMAIN ecus.jitter = Nodes /\ \A n \in Nodes : ecus.jitter[n] \in Nat
  /\ WalksOK(ecus.walks)

Whole(s) ==
  /\ DOMAIN s = SimMembers
  /\ FaultsOK(s.faults) /\ EcusOK(s.ecus)
  /\ IsSequence(s.pending)
  /\ IsSequence(s.made) /\ s.produced \in Nat /\ Len(s.made) = s.produced

(* The frames it has added are numbered on, and due now or later: nr is    *)
(* the last number, n how many wait, and a how many waited before.         *)
AddedUpTo(s, b, now, nr, n, a) ==
  /\ n >= a /\ nr >= b.produced
  /\ \A k \in 1..b.produced : s.made[k] = b.made[k]
  /\ \A k \in (b.produced + 1)..nr : s.made[k].at = now
  /\ \A k \in 1..a : s.pending[k] = b.pending[k]
  /\ \A k \in (a + 1)..n : /\ Timed(s.pending[k]) /\ s.pending[k].at >= now
                           /\ s.pending[k].nr > b.produced /\ s.pending[k].nr <= nr
                           /\ s.pending[k].of = s.made[s.pending[k].nr].of
  /\ \A j, k \in (a + 1)..n : j < k => s.pending[j].nr < s.pending[k].nr
  /\ s.faults.dropped - b.faults.dropped = (nr - b.produced) - (n - a)
Added(s, b, now) == AddedUpTo(s, b, now, s.produced, Len(s.pending), Len(b.pending))

Gathered(s, b, now) ==
  /\ Whole(s) /\ Added(s, b, now)
  /\ s.drive = b.drive /\ s.last = b.last /\ s.started = b.started /\ s.plant = b.plant

(* What a message's turn does to the time it is due at: sent tells whether *)
(* it gave a frame.                                                        *)
Steady(i) == TxList[i].mode = "Cyclic" /\ TxList[i].jitter = 0 /\ TxList[i].cycle > 0
Slack(i) == Greatest(TxList[i].phase, TxList[i].cycle + TxList[i].jitter)
Turn(i, before, after, sent, now) ==
  /\ TxList[i].mode # "Event" => after = before \/ after <= now + Slack(i)
  /\ Steady(i) => IF sent THEN before <= now /\ after > now /\ after >= before + TxList[i].cycle
                  ELSE after = before

(* And to its counter: a message that goes out when it changes remembers   *)
(* the frame before, whose counter was another one.                        *)
Remembers(i, r) ==
  TxList[i].counter # None =>
    \/ r.last = NoFrame
    \/ \E c \in Nat : r.counter = c + 1 /\ r.last.data[TxList[i].counter] = c % RawModulus
Counts(i, before, after, frames) ==
  /\ frames # <<>> => Stamps(i, frames[1].data, before.counter)
  /\ TxList[i].counter # None =>
       /\ after.counter = before.counter + (IF frames # <<>> THEN 1 ELSE 0)
       /\ Remembers(i, after)

LEMMA CountersDiffer ==
  ASSUME NEW c \in Nat
  PROVE  (c + 1) % RawModulus # c % RawModulus
<1>1. RawModulus \in Nat \ {0, 1}
  BY FaultsAreKnown DEF FaultsAreKnown
<1> DEFINE M == RawModulus
           p == c % M
           q == (c + 1) % M
           j == c \div M
           k == (c + 1) \div M
<1>2. /\ p \in 0..(M - 1) /\ j \in Nat /\ c = M * j + p
      /\ q \in 0..(M - 1) /\ k \in Nat /\ c + 1 = M * k + q
  <2> HIDE DEF M
  <2> QED BY <1>1 DEF M
<1> SUFFICES ASSUME p = q PROVE FALSE
  OBVIOUS
<1> HIDE DEF M, p, q, j, k
<1>3. M \in Nat /\ M > 1
  BY <1>1 DEF M
<1>4. M * (k - j) = 1
  BY <1>2, <1>3
<1>5. k - j \in Int
  BY <1>2
<1>6. k - j >= 1 \/ k - j <= 0
  BY <1>5
<1>7. k - j >= 1 => M * (k - j) >= M
  BY <1>3, <1>5
<1>8. k - j <= 0 => M * (k - j) <= 0
  BY <1>3, <1>5
<1> QED BY <1>3, <1>4, <1>6, <1>7, <1>8

(* A frame is one of its message, with all its signals.                    *)
IsFrameOf(i, frame) ==
  /\ DOMAIN frame = {"message", "data"} /\ frame.message = TxList[i].message
  /\ DOMAIN frame.data = SignalsOf[TxList[i].message]

LEMMA CountedOnce ==
  ASSUME StampsAreSeparate, NEW i \in DOMAIN TxList, NEW ecus, EcusOK(ecus),
         Remembers(i, ecus.tx[i]), NEW built, Stamps(i, built.data, ecus.tx[i].counter),
         NEW now
  PROVE  LET did == Sent(i, ecus, built, now)
         IN  Counts(i, ecus.tx[i], did.ecus.tx[i], did.frames)
<1> DEFINE tx == TxList[i]
           rt == ecus.tx[i]
           did == Sent(i, ecus, built, now)
           frame == [message |-> tx.message, data |-> built.data]
           sent == tx.mode # "OnChange" \/ frame # rt.last
           r == did.ecus.tx[i]
<1>1. /\ did.frames = IF sent THEN <<frame>> ELSE <<>>
      /\ r.counter = rt.counter + 1
      /\ r.last = IF sent THEN frame ELSE rt.last
  BY DEF Sent, EcusOK
<1>2. rt.counter \in Nat
  BY DEF EcusOK, Runtime
<1>3. frame.data = built.data /\ frame # NoFrame
  BY DEF NoFrame
<1> HIDE DEF did, r, frame
<1>4. ASSUME tx.counter # None
      PROVE  sent
  <2> SUFFICES ASSUME frame = rt.last PROVE FALSE
    OBVIOUS
  <2>1. PICK c \in Nat : rt.counter = c + 1 /\ rt.last.data[tx.counter] = c % RawModulus
    BY <1>3, <1>4 DEF Remembers
  <2>2. frame.data[tx.counter] = (c + 1) % RawModulus
    BY <1>3, <1>4, <2>1 DEF Stamps
  <2> QED BY <2>1, <2>2, CountersDiffer
<1>5. <<frame>> # <<>> /\ <<frame>>[1] = frame
  OBVIOUS
<1> HIDE DEF sent
<1>6. did.frames # <<>> => Stamps(i, did.frames[1].data, rt.counter)
  BY <1>1, <1>3, <1>5
<1>7. ASSUME tx.counter # None
      PROVE  did.frames # <<>> /\ r.counter = rt.counter + 1 /\ Remembers(i, r)
  <2>1. did.frames = <<frame>> /\ r.last = frame
    BY <1>1, <1>4, <1>7
  <2>2. r.last.data[tx.counter] = rt.counter % RawModulus
    BY <1>3, <1>7, <2>1 DEF Stamps
  <2> QED BY <1>1, <1>2, <1>5, <2>1, <2>2 DEF Remembers
<1> QED BY <1>6, <1>7 DEF Counts, r, did

LEMMA NextDueIs ==
  ASSUME NEW i \in DOMAIN TxList, NEW draws \in Nat, NEW due \in Nat, NEW now \in Nat, due <= now
  PROVE  LET next == NextDue(i, draws, [due |-> due, time |-> now])
         IN  /\ next \in Nat /\ next <= now + Slack(i)
             /\ Steady(i) => next > now /\ next >= due + TxList[i].cycle
<1> DEFINE tx == TxList[i]
           d == JitterDraws[1 + (draws % Len(JitterDraws))]
           delta == IF tx.jitter = 0 THEN 0 ELSE tx.jitter * d
           next == Greatest(0, (due + tx.cycle) + delta)
           after == IF next <= now THEN now + tx.cycle ELSE next
<1>1. tx.cycle \in Nat /\ tx.jitter \in Nat /\ tx.phase \in Nat
  BY TransmissionsAreKnown DEF TransmissionsAreKnown
<1>2. d \in {-1, 0, 1}
  <2> DEFINE l == Len(JitterDraws)
  <2>1. JitterDraws \in Seq({-1, 0, 1}) /\ JitterDraws # <<>>
    BY TransmissionsAreKnown DEF TransmissionsAreKnown
  <2>2. l \in Nat \ {0}
    BY <2>1, EmptySeq
  <2>3. draws % l \in 0..(l - 1)
    <3> HIDE DEF l
    <3> QED BY <2>2
  <2>4. 1 + (draws % l) \in 1..l
    <3> HIDE DEF l
    <3> QED BY <2>2, <2>3
  <2> QED BY <2>1, <2>4
<1> HIDE DEF d
<1>3. delta \in Int /\ delta <= tx.jitter /\ (tx.jitter = 0 => delta = 0)
  <2>1. CASE d = -1
    BY <1>1, <2>1
  <2>2. CASE d = 0
    BY <1>1, <2>2
  <2>3. CASE d = 1
    BY <1>1, <2>3
  <2> QED BY <1>2, <2>1, <2>2, <2>3
<1>4. NextDue(i, draws, [due |-> due, time |-> now]) = after
  BY DEF NextDue, d
<1> HIDE DEF delta
<1>5. after \in Nat /\ after <= now + Greatest(tx.phase, tx.cycle + tx.jitter)
  BY <1>1, <1>3 DEF Greatest
<1>6. tx.jitter = 0 /\ tx.cycle > 0 => after > now /\ after >= due + tx.cycle
  BY <1>1, <1>3 DEF Greatest
<1> HIDE DEF after
<1> QED BY <1>4, <1>5, <1>6 DEF Slack, Steady

LEMMA SentIs ==
  ASSUME NEW i \in DOMAIN TxList, NEW ecus, EcusOK(ecus), NEW plant, NEW now \in Nat
  PROVE  LET did == StepMessage(i, ecus, plant, now)
         IN  /\ EcusOK(did.ecus)
             /\ \A j \in DOMAIN TxList : j # i => did.ecus.tx[j] = ecus.tx[j]
             /\ Turn(i, ecus.tx[i].due, did.ecus.tx[i].due, did.frames # <<>>, now)
             /\ StampsAreSeparate /\ Remembers(i, ecus.tx[i]) =>
                  Counts(i, ecus.tx[i], did.ecus.tx[i], did.frames)
             /\ did.frames # <<>> => IsFrameOf(i, did.frames[1])
<1> DEFINE built == Build(i, ecus, plant, now)
           did == StepMessage(i, ecus, plant, now)
           tx == TxList[i]
           rt == ecus.tx[i]
<1>0. /\ tx.cycle \in Nat /\ tx.jitter \in Nat /\ tx.phase \in Nat /\ tx.node \in Nodes
      /\ tx.mode \in {"Cyclic", "Event", "OnChange"} /\ rt.due \in Nat
      /\ ecus.jitter[tx.node] \in Nat /\ rt.counter \in Nat
  BY TransmissionsAreKnown, SimulationIsBuilt
     DEF TransmissionsAreKnown, SimulationIsBuilt, EcusOK, Runtime
<1>1. CASE ~ecus.running[tx.node] \/ ~Due(i, ecus, now)
  <2>1. did.ecus = ecus /\ did.frames = <<>>
    BY <1>1 DEF StepMessage
  <2>2. rt.counter + 0 = rt.counter
    BY <1>0
  <2> HIDE DEF did
  <2> QED BY <2>1, <2>2 DEF Turn, Counts, did
<1>2. CASE ~(~ecus.running[tx.node] \/ ~Due(i, ecus, now))
  <2> DEFINE frame == [message |-> tx.message, data |-> built.data]
             sent == tx.mode # "OnChange" \/ frame # rt.last
             jittered == sent /\ tx.mode # "Event" /\ tx.jitter # 0
             due == IF tx.mode = "Event" THEN rt.due
                    ELSE IF sent THEN NextDue(i, ecus.jitter[tx.node], [due |-> rt.due, time |-> now])
                    ELSE rt.due + tx.cycle
             j1 == IF jittered THEN ecus.jitter[tx.node] + 1 ELSE ecus.jitter[tx.node]
             r == [due |-> due, counter |-> rt.counter + 1,
                   triggered |-> rt.triggered /\ tx.mode # "Event",
                   last |-> IF sent THEN frame ELSE rt.last]
  <2>1. did = Sent(i, ecus, built, now)
    BY <1>2 DEF StepMessage
  <2>2. /\ did.ecus = [ecus EXCEPT !.walks = built.walks, !.jitter[tx.node] = j1, !.tx[i] = r]
        /\ did.frames # <<>> <=> sent
    <3> HIDE DEF built
    <3>1. did.frames = IF sent THEN <<frame>> ELSE <<>>
      BY <2>1 DEF Sent
    <3>2. did.ecus = [ecus EXCEPT !.walks = built.walks,
                        !.jitter[tx.node] = IF jittered THEN @ + 1 ELSE @, !.tx[i] = r]
      BY <2>1 DEF Sent
    <3>3. did.ecus = [ecus EXCEPT !.walks = built.walks, !.jitter[tx.node] = j1, !.tx[i] = r]
      <4> HIDE DEF r, did, jittered
      <4> QED BY <3>2
    <3>4. <<frame>> # <<>>
      OBVIOUS
    <3> HIDE DEF did, sent, frame
    <3> QED BY <3>1, <3>3, <3>4
  <2>3. j1 \in Nat
    BY <1>0
  <2>4. tx.mode # "Event" => rt.due <= now
    BY <1>0, <1>2 DEF Due
  <2>5. due \in Nat /\ Turn(i, rt.due, due, sent, now)
    <3> HIDE DEF sent, tx, rt
    <3>1. CASE tx.mode = "Event"
      BY <1>0, <3>1 DEF Turn, Steady, tx
    <3>2. CASE tx.mode # "Event" /\ sent
      <4> DEFINE next == NextDue(i, ecus.jitter[tx.node], [due |-> rt.due, time |-> now])
      <4>1. due = next
        BY <3>2
      <4>2. /\ next \in Nat /\ next <= now + Slack(i)
            /\ Steady(i) => next > now /\ next >= rt.due + TxList[i].cycle
        BY <1>0, <2>4, <3>2, NextDueIs
      <4> HIDE DEF next, due
      <4> QED BY <2>4, <3>2, <4>1, <4>2 DEF Turn
    <3>3. CASE tx.mode # "Event" /\ ~sent
      <4>1. tx.mode = "OnChange"
        BY <3>3 DEF sent
      <4>2. due = rt.due + tx.cycle
        BY <3>3
      <4> HIDE DEF due
      <4>3. due \in Nat /\ due <= now + Slack(i)
        BY <1>0, <2>4, <3>3, <4>2 DEF Slack, Greatest, tx
      <4> QED BY <4>1, <4>3 DEF Turn, Steady, tx
    <3> QED BY <3>1, <3>2, <3>3
  <2>6. WalksOK(built.walks) /\ (StampsAreSeparate => Stamps(i, built.data, rt.counter))
    BY BuildOK DEF EcusOK
  <2>7. Runtime(r) /\ r.due = due
    BY <1>0, <2>5 DEF Runtime
  <2>11. ASSUME StampsAreSeparate, Remembers(i, rt)
         PROVE  Counts(i, rt, did.ecus.tx[i], did.frames)
    <3> HIDE DEF built, did
    <3> QED BY <2>1, <2>6, <2>11, CountedOnce
  <2>12. did.frames # <<>> => IsFrameOf(i, did.frames[1])
    <3> DEFINE frames == IF sent THEN <<frame>> ELSE <<>>
    <3>1. did.frames = frames
      BY <2>1 DEF Sent
    <3>2. IsFrameOf(i, frame)
      <4>1. DOMAIN built.data = SignalsOf[tx.message]
        BY BuildOK DEF EcusOK
      <4> HIDE DEF built
      <4> QED BY <4>1 DEF IsFrameOf
    <3>3. <<frame>>[1] = frame
      OBVIOUS
    <3> HIDE DEF did, sent, frame
    <3> QED BY <3>1, <3>2, <3>3
  <2> HIDE DEF built, j1, r, did, due, sent
  <2> DEFINE e == did.ecus
  <2>8. /\ DOMAIN e = DOMAIN ecus /\ e.walks = built.walks /\ e.running = ecus.running
        /\ e.jitter = [ecus.jitter EXCEPT ![tx.node] = j1]
        /\ e.tx = [ecus.tx EXCEPT ![i] = r]
    <3> HIDE DEF tx
    <3> QED BY <2>2 DEF EcusOK
  <2> HIDE DEF e
  <2>9. EcusOK(e)
    <3>1. \A n \in Nodes : e.jitter[n] \in Nat
      BY <2>3, <2>8 DEF EcusOK
    <3>2. \A k \in DOMAIN TxList : Runtime(e.tx[k])
      BY <2>7, <2>8 DEF EcusOK
    <3> QED BY <2>6, <2>8, <3>1, <3>2 DEF EcusOK
  <2>10. /\ \A j \in DOMAIN TxList : j # i => e.tx[j] = ecus.tx[j]
         /\ e.tx[i] = r
    BY <2>8 DEF EcusOK
  <2> QED BY <2>2, <2>5, <2>7, <2>9, <2>10, <2>11, <2>12 DEF e, did
<1> QED BY <1>1, <1>2

LEMMA CollectedIs ==
  ASSUME NEW b, b.produced \in Nat, b.faults.dropped \in Nat, IsSequence(b.pending),
         NEW now \in Int, NEW i \in DOMAIN TxList,
         NEW s, Gathered(s, b, now), NEW did, EcusOK(did.ecus)
  PROVE  Gathered(Collected(s, i, did, now), b, now)
<1> DEFINE t == Collected(s, i, did, now)
           w == Process(s.faults, TxList[i].node, did.frames[1], now)
           nr == s.produced + 1
           m == [of |-> i, at |-> now, data |-> did.frames[1].data]
           f == [at |-> w.due, nr |-> nr, of |-> i, data |-> w.frame.data]
           a == Len(b.pending)
           n == Len(s.pending)
<1>1. /\ Whole(s) /\ Added(s, b, now) /\ s.produced \in Nat /\ b.produced \in Nat
      /\ a \in Nat /\ n \in Nat /\ Len(s.made) = s.produced
  BY SequenceHasALength DEF Gathered, Whole
<1>2. CASE did.frames = <<>>
  <2>1. t = [s EXCEPT !.ecus = did.ecus]
    BY <1>2 DEF Collected
  <2> HIDE DEF t
  <2>2. /\ DOMAIN t = DOMAIN s /\ t.ecus = did.ecus /\ t.pending = s.pending /\ t.faults = s.faults
        /\ t.drive = s.drive /\ t.produced = s.produced /\ t.last = s.last /\ t.started = s.started
        /\ t.plant = s.plant /\ t.made = s.made
    BY <1>1, <2>1 DEF Whole, SimMembers
  <2>3. Whole(t)
    BY <1>1, <2>2 DEF Whole
  <2>4. Added(t, b, now)
    BY <1>1, <2>2 DEF Added, AddedUpTo
  <2> QED BY <2>2, <2>3, <2>4 DEF Gathered, t
<1>3. CASE did.frames # <<>>
  <2>1. UnderWay(w, s.faults, now)
    BY <1>1, ProcessedIs DEF Whole
  <2> HIDE DEF w
  <2>2. t = [s EXCEPT !.ecus = did.ecus, !.produced = nr, !.faults = w.faults,
                      !.made = Append(@, m),
                      !.pending = IF w.gone THEN @ ELSE Append(@, f)]
    BY <1>3 DEF Collected, w
  <2> HIDE DEF t
  <2>3. /\ DOMAIN t = DOMAIN s /\ t.ecus = did.ecus /\ t.faults = w.faults
        /\ t.drive = s.drive /\ t.produced = nr /\ t.last = s.last /\ t.started = s.started
        /\ t.plant = s.plant /\ t.made = Append(s.made, m)
        /\ t.pending = IF w.gone THEN s.pending ELSE Append(s.pending, f)
    <3> HIDE DEF nr, m, f
    <3> QED BY <1>1, <2>2 DEF Whole, SimMembers
  <2>4. /\ IsSequence(t.made) /\ Len(t.made) = nr /\ t.made[nr] = m
        /\ \A k \in 1..s.produced : t.made[k] = s.made[k]
    <3>1. PICK A : s.made \in Seq(A)
      BY <1>1 DEF Whole, IsSequence
    <3> HIDE DEF m
    <3>2. s.made \in Seq(A \cup {m}) /\ m \in A \cup {m}
      BY <3>1, SeqMonotonic
    <3> DEFINE S == A \cup {m}
    <3> HIDE DEF S
    <3>3. s.made \in Seq(S) /\ m \in S
      BY <3>2 DEF S
    <3> QED BY <1>1, <2>3, <3>3, AppendProperties DEF IsSequence
  <2>5. m.at = now /\ m.of = i /\ f.at = w.due /\ f.nr = nr /\ f.of = i
    OBVIOUS
  <2> HIDE DEF m, f
  <2>6. FaultsOK(t.faults) /\ t.faults.dropped = s.faults.dropped + (IF w.gone THEN 1 ELSE 0)
    <3>1. s.faults.dropped \in Nat
      BY <1>1 DEF Whole, FaultsOK
    <3> QED BY <2>1, <2>3, <3>1 DEF UnderWay, FaultsOK
  <2>9. /\ \A k \in (b.produced + 1)..nr : t.made[k].at = now
        /\ \A k \in 1..b.produced : t.made[k] = b.made[k]
        /\ nr >= b.produced /\ b.produced <= s.produced
    <3>1. /\ \A k \in 1..b.produced : s.made[k] = b.made[k]
          /\ \A k \in (b.produced + 1)..s.produced : s.made[k].at = now
          /\ b.produced <= s.produced
      BY <1>1 DEF Added, AddedUpTo
    <3>2. ASSUME NEW k \in (b.produced + 1)..nr PROVE t.made[k].at = now
      <4>1. CASE k = nr
        BY <2>4, <2>5, <4>1
      <4>2. CASE k # nr
        <5>1. k \in (b.produced + 1)..s.produced /\ k \in 1..s.produced
          BY <1>1, <4>2
        <5> QED BY <2>4, <3>1, <5>1
      <4> QED BY <4>1, <4>2
    <3>3. ASSUME NEW k \in 1..b.produced PROVE t.made[k] = b.made[k]
      <4>1. k \in 1..s.produced
        BY <1>1, <3>1
      <4> QED BY <2>4, <3>1, <4>1
    <3> QED BY <1>1, <3>1, <3>2, <3>3
  <2>7. CASE w.gone
    <3>1. t.pending = s.pending
      BY <2>3, <2>7
    <3>2. Whole(t)
      BY <1>1, <2>3, <2>4, <2>6, <3>1 DEF Whole
    <3>3. t.faults.dropped - b.faults.dropped = (nr - b.produced) - (n - a)
      <4>1. s.faults.dropped \in Nat /\ t.faults.dropped = s.faults.dropped + 1
        BY <1>1, <2>6, <2>7 DEF Whole, FaultsOK
      <4>2. s.faults.dropped - b.faults.dropped = (s.produced - b.produced) - (n - a)
        BY <1>1 DEF Added, AddedUpTo
      <4>3. nr = s.produced + 1
        OBVIOUS
      <4> HIDE DEF n, a, nr
      <4>4. b.faults.dropped \in Nat /\ s.produced \in Nat
        BY <1>1
      <4>5. n \in Nat /\ a \in Nat /\ b.produced \in Nat
        BY <1>1
      <4> QED BY <4>1, <4>2, <4>3, <4>4, <4>5
    <3>4. AddedUpTo(t, b, now, nr, n, a)
      <4> HIDE DEF n, a
      <4>1. AddedUpTo(s, b, now, s.produced, n, a) /\ nr >= s.produced /\ nr \in Nat
        BY <1>1 DEF Added, n, a
      <4>2. ASSUME NEW k \in (a + 1)..n
            PROVE  /\ Timed(t.pending[k]) /\ t.pending[k].at >= now
                   /\ t.pending[k].nr > b.produced /\ t.pending[k].nr <= nr
                   /\ t.pending[k].of = t.made[t.pending[k].nr].of
        <5>1. /\ Timed(s.pending[k]) /\ s.pending[k].at >= now
              /\ s.pending[k].nr > b.produced /\ s.pending[k].nr <= s.produced
              /\ s.pending[k].of = s.made[s.pending[k].nr].of
          BY <1>1, <4>1 DEF AddedUpTo
        <5>2. s.pending[k].nr \in 1..s.produced
          BY <1>1, <5>1 DEF Timed
        <5>3. t.pending[k] = s.pending[k] /\ t.made[s.pending[k].nr] = s.made[s.pending[k].nr]
          BY <2>4, <3>1, <5>2
        <5>4. s.pending[k].nr <= nr
          BY <1>1, <4>1, <5>1 DEF Timed
        <5> QED BY <5>1, <5>3, <5>4
      <4> HIDE DEF nr
      <4> QED BY <1>1, <2>9, <3>1, <3>3, <4>1, <4>2 DEF AddedUpTo
    <3>5. Added(t, b, now)
      BY <2>3, <3>1, <3>4 DEF Added
    <3> QED BY <2>3, <3>2, <3>5 DEF Gathered, t
  <2>8. CASE ~w.gone
    <3>1. /\ IsSequence(t.pending) /\ Len(t.pending) = n + 1 /\ t.pending[n + 1] = f
          /\ \A k \in 1..n : t.pending[k] = s.pending[k]
      <4>1. PICK A : s.pending \in Seq(A)
        BY <1>1 DEF Whole, IsSequence
      <4>2. s.pending \in Seq(A \cup {f}) /\ f \in A \cup {f}
        BY <4>1, SeqMonotonic
      <4> DEFINE S == A \cup {f}
      <4> HIDE DEF S
      <4>3. s.pending \in Seq(S) /\ f \in S
        BY <4>2 DEF S
      <4>4. t.pending = Append(s.pending, f)
        BY <2>3, <2>8
      <4> QED BY <1>1, <4>3, <4>4, AppendProperties DEF IsSequence
    <3>2. Whole(t)
      BY <1>1, <2>3, <2>4, <2>6, <3>1 DEF Whole
    <3>3. Timed(f) /\ f.at >= now
      BY <1>1, <2>1, <2>5 DEF UnderWay, Timed
    <3>4. Added(t, b, now)
      <4> HIDE DEF n, a, nr
      <4>1. nr = s.produced + 1 /\ nr \in Nat /\ a <= n /\ b.produced <= s.produced
        BY <1>1 DEF nr, Added, AddedUpTo, a, n
      <4>4. \A k \in 1..a : t.pending[k] = b.pending[k]
        <5>1. \A k \in 1..a : s.pending[k] = b.pending[k]
          BY <1>1 DEF Added, AddedUpTo, a
        <5>2. \A k \in 1..a : k \in 1..n
          BY <1>1, <4>1
        <5> QED BY <3>1, <5>1, <5>2
      <4>5. ASSUME NEW k \in (a + 1)..(n + 1)
            PROVE  /\ Timed(t.pending[k]) /\ t.pending[k].at >= now
                   /\ t.pending[k].nr > b.produced /\ t.pending[k].nr <= nr
                   /\ t.pending[k].of = t.made[t.pending[k].nr].of
        <5>1. CASE k = n + 1
          <6>1. t.pending[k] = f /\ f.nr = nr /\ f.of = i /\ t.made[nr].of = i
            BY <2>4, <2>5, <3>1, <5>1
          <6>2. nr > b.produced /\ nr <= nr
            BY <1>1, <4>1
          <6> QED BY <3>3, <6>1, <6>2
        <5>2. CASE k <= n
          <6>1. /\ Timed(s.pending[k]) /\ s.pending[k].at >= now
                /\ s.pending[k].nr > b.produced /\ s.pending[k].nr <= s.produced
                /\ s.pending[k].of = s.made[s.pending[k].nr].of
            BY <1>1, <5>2 DEF Added, AddedUpTo, a, n
          <6>2. s.pending[k].nr \in 1..s.produced /\ t.pending[k] = s.pending[k]
            BY <1>1, <3>1, <4>1, <5>2, <6>1, SMTT(60) DEF Timed
          <6>3. t.made[s.pending[k].nr] = s.made[s.pending[k].nr]
            BY <2>4, <6>2
          <6>4. s.pending[k].nr <= nr
            BY <1>1, <4>1, <6>1 DEF Timed
          <6> QED BY <6>1, <6>2, <6>3, <6>4
        <5> QED BY <1>1, <5>1, <5>2
      <4>6. ASSUME NEW j \in (a + 1)..(n + 1), NEW k \in (a + 1)..(n + 1), j < k
            PROVE  t.pending[j].nr < t.pending[k].nr
        <5>1. /\ Timed(s.pending[j]) /\ s.pending[j].nr <= s.produced /\ j \in 1..n
              /\ t.pending[j] = s.pending[j]
          BY <1>1, <3>1, <4>1, <4>6, SMTT(60) DEF Added, AddedUpTo, a, n
        <5>2. CASE k = n + 1
          <6>1. t.pending[k].nr = nr
            BY <2>5, <3>1, <5>2
          <6> QED BY <1>1, <4>1, <5>1, <6>1 DEF Timed
        <5>3. CASE k <= n
          <6>1. s.pending[j].nr < s.pending[k].nr
            BY <1>1, <4>6, <5>1, <5>3 DEF Added, AddedUpTo, a, n
          <6> QED BY <1>1, <3>1, <5>1, <5>3, <6>1
        <5> QED BY <1>1, <5>2, <5>3
      <4>7. t.faults.dropped - b.faults.dropped = (nr - b.produced) - ((n + 1) - a)
        <5>1. s.faults.dropped - b.faults.dropped = (s.produced - b.produced) - (n - a)
          BY <1>1 DEF Added, AddedUpTo, a, n
        <5>2. s.faults.dropped \in Nat /\ t.faults.dropped = s.faults.dropped
          BY <1>1, <2>6, <2>8 DEF Whole, FaultsOK
        <5> QED BY <1>1, <4>1, <5>1, <5>2, SMTT(60)
      <4>8. n + 1 >= a /\ nr >= b.produced
        BY <1>1, <4>1
      <4>9. AddedUpTo(t, b, now, nr, n + 1, a)
        BY <2>9, <4>4, <4>5, <4>6, <4>7, <4>8 DEF AddedUpTo
      <4> QED BY <2>3, <3>1, <4>9 DEF Added, a
    <3> QED BY <2>3, <3>2, <3>4 DEF Gathered, t
  <2> QED BY <2>1, <2>7, <2>8 DEF UnderWay
<1> QED BY <1>2, <1>3

-----------------------------------------------------------------------------
LEMMA AsManyAs ==
  ASSUME NEW n \in Nat
  PROVE  IsFiniteSet(1..n) /\ Cardinality(1..n) = n
BY FS_Interval

(* The rhythm of the cyclic messages: each frame came earlier than the     *)
(* time its message is next due at, by more than a cycle for each frame of *)
(* the message since; n frames have been made.                             *)
Spaced(i, made, n, due) ==
  /\ \A j \in 1..n : made[j].of = i =>
       made[j].at \in Nat /\ made[j].at + Between(made, i, j, n + 1) * TxList[i].cycle < due
  /\ \A j, k \in 1..n : j < k /\ made[j].of = i /\ made[k].of = i =>
       Between(made, i, j, k) * TxList[i].cycle < made[k].at - made[j].at
Rhythm(s, now) ==
  \A i \in DOMAIN TxList :
    /\ TxList[i].mode # "Event" => s.ecus.tx[i].due <= now + Slack(i)
    /\ Steady(i) => Spaced(i, s.made, s.produced, s.ecus.tx[i].due)

GrowsBy(made, longer, n, i, j, c) ==
  /\ \A k \in 1..(n + 1) : /\ Between(made, i, j, k) \in Nat
                           /\ Between(longer, i, j, k) = Between(made, i, j, k)
  /\ j <= n => Between(longer, i, j, n + 2) = Between(made, i, j, n + 1) + c
  /\ Between(longer, i, n + 1, n + 2) = 0

LEMMA RhythmLasts ==
  ASSUME NEW s, Whole(s), NEW last \in Int, Rhythm(s, last), NEW now \in Int, last <= now,
         NEW t, t.made = s.made, t.produced = s.produced,
         \A i \in DOMAIN TxList : t.ecus.tx[i].due = s.ecus.tx[i].due
  PROVE  Rhythm(t, now)
<1> SUFFICES ASSUME NEW i \in DOMAIN TxList, TxList[i].mode # "Event"
             PROVE  s.ecus.tx[i].due <= now + Slack(i)
  BY DEF Rhythm
<1>1. s.ecus.tx[i].due \in Nat /\ s.ecus.tx[i].due <= last + Slack(i)
  BY DEF Rhythm, Whole, EcusOK, Runtime
<1>2. Slack(i) \in Nat
  BY TransmissionsAreKnown DEF TransmissionsAreKnown, Slack, Greatest
<1> QED BY <1>1, <1>2

LEMMA BetweenGrows ==
  ASSUME NEW made, NEW longer, NEW n \in Nat, \A k \in 1..n : longer[k] = made[k],
         NEW i, NEW j \in 0..(n + 1)
  PROVE  GrowsBy(made, longer, n, i, j, IF longer[n + 1].of = i THEN 1 ELSE 0)
<1> DEFINE B(k) == {nr \in (j + 1)..(k - 1) : made[nr].of = i}
           C(k) == {nr \in (j + 1)..(k - 1) : longer[nr].of = i}
<1>1. ASSUME NEW k \in 1..(n + 1)
      PROVE  IsFiniteSet(B(k)) /\ Cardinality(B(k)) \in Nat /\ C(k) = B(k)
  <2>1. B(k) \subseteq 1..n /\ C(k) = B(k)
    <3>1. (j + 1)..(k - 1) \subseteq 1..n
      OBVIOUS
    <3> QED BY <3>1
  <2>2. IsFiniteSet(1..n)
    BY AsManyAs
  <2> HIDE DEF B, C
  <2> QED BY <2>1, <2>2, FS_Subset, FS_CardinalityType
<1>2. ASSUME j <= n
      PROVE  Cardinality(C(n + 2)) = Cardinality(B(n + 1)) + (IF longer[n + 1].of = i THEN 1 ELSE 0)
  <2> DEFINE H == B(n + 1)
             x == n + 1
             V == C(n + 2)
             more == longer[n + 1].of = i
  <2>1. (n + 2) - 1 = n + 1 /\ (n + 1) - 1 = n /\ (j + 1)..(n + 1) = ((j + 1)..n) \cup {n + 1}
    BY <1>2
  <2>2. V = H \cup (IF more THEN {x} ELSE {})
    <3>1. \A nr \in (j + 1)..n : longer[nr] = made[nr]
      OBVIOUS
    <3> QED BY <2>1, <3>1
  <2>3. x \notin H
    OBVIOUS
  <2>4. IsFiniteSet(H) /\ Cardinality(H) \in Nat
    <3>1. n + 1 \in 1..(n + 1)
      OBVIOUS
    <3> HIDE DEF B, C
    <3> QED BY <1>1, <3>1
  <2>5. Cardinality(V) = Cardinality(H) + (IF more THEN 1 ELSE 0)
    <3> HIDE DEF V, H, x, more
    <3>1. CASE more
      <4>1. V = H \cup {x}
        BY <2>2, <3>1
      <4> QED BY <2>3, <2>4, <3>1, <4>1, FS_AddElement
    <3>2. CASE ~more
      <4>1. V = H
        BY <2>2, <3>2
      <4> QED BY <2>4, <3>2, <4>1
    <3> QED BY <3>1, <3>2
  <2> HIDE DEF B, C
  <2> QED BY <2>5
<1>3. Between(longer, i, n + 1, n + 2) = 0
  <2>1. {nr \in ((n + 1) + 1)..((n + 2) - 1) : longer[nr].of = i} = {}
    OBVIOUS
  <2> QED BY <2>1, FS_EmptySet DEF Between
<1> HIDE DEF B, C
<1>4. ASSUME NEW k PROVE Between(made, i, j, k) = Cardinality(B(k))
  BY DEF Between, B
<1>5. ASSUME NEW k PROVE Between(longer, i, j, k) = Cardinality(C(k))
  BY DEF Between, C
<1> QED BY <1>1, <1>2, <1>3, <1>4, <1>5 DEF GrowsBy

LEMMA GrowsByOne ==
  ASSUME NEW made, NEW longer, NEW n \in Nat, \A k \in 1..n : longer[k] = made[k],
         NEW i, NEW j \in Nat, j <= n + 1, longer[n + 1].of = i
  PROVE  GrowsBy(made, longer, n, i, j, 1)
<1>1. j \in 0..(n + 1)
  OBVIOUS
<1>2. GrowsBy(made, longer, n, i, j, IF longer[n + 1].of = i THEN 1 ELSE 0)
  BY <1>1, BetweenGrows
<1> QED BY <1>2

LEMMA GrowsByNone ==
  ASSUME NEW made, NEW longer, NEW n \in Nat, \A k \in 1..n : longer[k] = made[k],
         NEW i, NEW j \in Nat, j <= n + 1, longer[n + 1].of # i
  PROVE  GrowsBy(made, longer, n, i, j, 0)
<1>1. j \in 0..(n + 1)
  OBVIOUS
<1>2. GrowsBy(made, longer, n, i, j, IF longer[n + 1].of = i THEN 1 ELSE 0)
  BY <1>1, BetweenGrows
<1> QED BY <1>2

LEMMA SpacedByItself ==
  ASSUME NEW i \in DOMAIN TxList, Steady(i), NEW made, NEW n \in Nat,
         NEW before \in Nat, Spaced(i, made, n, before), NEW now \in Nat, before <= now,
         NEW after \in Nat, after > now, after >= before + TxList[i].cycle,
         NEW longer, \A k \in 1..n : longer[k] = made[k],
         longer[n + 1].of = i, longer[n + 1].at = now
  PROVE  Spaced(i, longer, n + 1, after)
<1> DEFINE cycle == TxList[i].cycle
<1>1. cycle \in Nat
  BY TransmissionsAreKnown DEF TransmissionsAreKnown
<1>2. ASSUME NEW j \in 1..n, longer[j].of = i
      PROVE  /\ longer[j].at \in Nat
             /\ longer[j].at + Between(longer, i, j, n + 2) * cycle < after
             /\ Between(longer, i, j, n + 1) * cycle < now - longer[j].at
  <2> DEFINE c == Between(made, i, j, n + 1)
             at == made[j].at
  <2>1. at \in Nat /\ at + c * cycle < before
    BY <1>2 DEF Spaced
  <2>2. j \in 1..(n + 1) /\ n + 1 \in 1..(n + 1) /\ j <= n
    OBVIOUS
  <2>3. /\ c \in Nat /\ Between(longer, i, j, n + 1) = c
        /\ Between(longer, i, j, n + 2) = c + 1
    <3>1. j \in Nat /\ j <= n + 1
      OBVIOUS
    <3>2. GrowsBy(made, longer, n, i, j, 1)
      BY <3>1, GrowsByOne
    <3> QED BY <2>2, <3>2 DEF GrowsBy
  <2>4. longer[j].at = at
    OBVIOUS
  <2> HIDE DEF c, at, cycle
  <2> DEFINE p == c * cycle
  <2>5. p \in Nat /\ (c + 1) * cycle = p + cycle
    BY <1>1, <2>3
  <2>6. at + p < before
    BY <2>1
  <2> HIDE DEF p
  <2>7. at + (p + cycle) < after /\ p < now - at
    BY <1>1, <2>1, <2>5, <2>6 DEF cycle
  <2> QED BY <2>1, <2>3, <2>4, <2>5, <2>7 DEF p
<1>3. Between(longer, i, n + 1, n + 2) * cycle = 0
  <2>1. n + 1 \in Nat /\ n + 1 <= n + 1
    OBVIOUS
  <2>2. Between(longer, i, n + 1, n + 2) = 0
    <3>1. GrowsBy(made, longer, n, i, n + 1, 1)
      BY <2>1, GrowsByOne
    <3> QED BY <3>1 DEF GrowsBy
  <2> QED BY <1>1, <2>2
<1>4. ASSUME NEW j \in 1..(n + 1), longer[j].of = i
      PROVE  longer[j].at \in Nat /\ longer[j].at + Between(longer, i, j, (n + 1) + 1) * cycle < after
  <2>1. (n + 1) + 1 = n + 2
    OBVIOUS
  <2>2. CASE j = n + 1
    BY <1>3, <2>1, <2>2
  <2>3. CASE j # n + 1
    <3>1. j \in 1..n
      BY <2>3
    <3> QED BY <1>2, <1>4, <2>1, <3>1
  <2> QED BY <2>2, <2>3
<1>5. ASSUME NEW j \in 1..(n + 1), NEW k \in 1..(n + 1), j < k, longer[j].of = i, longer[k].of = i
      PROVE  Between(longer, i, j, k) * cycle < longer[k].at - longer[j].at
  <2>1. j \in 1..n
    BY <1>5
  <2>2. CASE k = n + 1
    BY <1>2, <1>5, <2>1, <2>2
  <2>3. CASE k # n + 1
    <3>1. k \in 1..n /\ longer[j] = made[j] /\ longer[k] = made[k]
      BY <2>1, <2>3
    <3>2. Between(made, i, j, k) * cycle < made[k].at - made[j].at
      BY <1>5, <2>1, <3>1 DEF Spaced
    <3>3. Between(longer, i, j, k) = Between(made, i, j, k)
      <4>1. j \in Nat /\ j <= n + 1
        BY <2>1
      <4>2. GrowsBy(made, longer, n, i, j, 1)
        BY <4>1, GrowsByOne
      <4> QED BY <4>2 DEF GrowsBy
    <3> QED BY <3>1, <3>2, <3>3
  <2> QED BY <2>2, <2>3
<1> QED BY <1>4, <1>5 DEF Spaced

LEMMA SpacedByOthers ==
  ASSUME NEW i, NEW made, NEW n \in Nat, NEW due, Spaced(i, made, n, due),
         NEW longer, \A k \in 1..n : longer[k] = made[k], longer[n + 1].of # i
  PROVE  Spaced(i, longer, n + 1, due)
<1>1. ASSUME NEW j \in 1..(n + 1), longer[j].of = i
      PROVE  j \in 1..n /\ made[j] = longer[j]
  BY <1>1
<1>2. ASSUME NEW j \in 1..n
      PROVE  /\ Between(longer, i, j, (n + 1) + 1) = Between(made, i, j, n + 1)
             /\ \A k \in 1..n : Between(longer, i, j, k) = Between(made, i, j, k)
  <2>1. j \in Nat /\ j <= n + 1 /\ (n + 1) + 1 = n + 2 /\ j <= n /\ 1..n \subseteq 1..(n + 1)
    OBVIOUS
  <2>2. GrowsBy(made, longer, n, i, j, 0)
    BY <2>1, GrowsByNone
  <2>3. Between(made, i, j, n + 1) \in Nat
    BY <2>1, <2>2 DEF GrowsBy
  <2> QED BY <2>1, <2>2, <2>3 DEF GrowsBy
<1> QED BY <1>1, <1>2 DEF Spaced

LEMMA CollectedMakes ==
  ASSUME NEW s, Whole(s), NEW i \in DOMAIN TxList, NEW did, NEW now \in Nat
  PROVE  LET t == Collected(s, i, did, now)
         IN  /\ t.ecus = did.ecus
             /\ did.frames = <<>> => t.produced = s.produced /\ t.made = s.made
             /\ did.frames # <<>> => /\ t.produced = s.produced + 1
                                     /\ \A k \in 1..s.produced : t.made[k] = s.made[k]
                                     /\ t.made[s.produced + 1].of = i
                                     /\ t.made[s.produced + 1].at = now
                                     /\ t.made[s.produced + 1].data = did.frames[1].data
<1> DEFINE t == Collected(s, i, did, now)
           w == Process(s.faults, TxList[i].node, did.frames[1], now)
           nr == s.produced + 1
           m == [of |-> i, at |-> now, data |-> did.frames[1].data]
           f == [at |-> w.due, nr |-> nr, of |-> i, data |-> w.frame.data]
<1>1. CASE did.frames = <<>>
  <2>1. t = [s EXCEPT !.ecus = did.ecus]
    BY <1>1 DEF Collected
  <2> HIDE DEF t
  <2>2. t.ecus = did.ecus /\ t.produced = s.produced /\ t.made = s.made
    BY <2>1 DEF Whole, SimMembers
  <2> QED BY <1>1, <2>2 DEF t
<1>2. CASE did.frames # <<>>
  <2>1. t = [s EXCEPT !.ecus = did.ecus, !.produced = nr, !.faults = w.faults,
                      !.made = Append(@, m),
                      !.pending = IF w.gone THEN @ ELSE Append(@, f)]
    BY <1>2 DEF Collected
  <2> HIDE DEF t, w
  <2>2. t.ecus = did.ecus /\ t.produced = nr /\ t.made = Append(s.made, m)
    <3> HIDE DEF nr, m, f
    <3> QED BY <2>1 DEF Whole, SimMembers
  <2>3. t.made[nr] = m /\ \A k \in 1..s.produced : t.made[k] = s.made[k]
    <3>1. PICK A : s.made \in Seq(A)
      BY DEF Whole, IsSequence
    <3> HIDE DEF m
    <3>2. s.made \in Seq(A \cup {m}) /\ m \in A \cup {m}
      BY <3>1, SeqMonotonic
    <3> DEFINE S == A \cup {m}
    <3> HIDE DEF S
    <3>3. s.made \in Seq(S) /\ m \in S /\ Len(s.made) = s.produced
      BY <3>2 DEF S, Whole
    <3> QED BY <2>2, <3>3, AppendProperties
  <2>4. m.of = i /\ m.at = now /\ m.data = did.frames[1].data
    OBVIOUS
  <2> HIDE DEF m
  <2> QED BY <1>2, <2>2, <2>3, <2>4 DEF t
<1> QED BY <1>1, <1>2

(* What a message's turn does to the times that all are due at.            *)
TurnOf(i, s, did, now) ==
  /\ EcusOK(did.ecus)
  /\ \A j \in DOMAIN TxList : j # i => did.ecus.tx[j] = s.ecus.tx[j]
  /\ Turn(i, s.ecus.tx[i].due, did.ecus.tx[i].due, did.frames # <<>>, now)
  /\ StampsAreSeparate /\ Remembers(i, s.ecus.tx[i]) =>
       Counts(i, s.ecus.tx[i], did.ecus.tx[i], did.frames)
  /\ did.frames # <<>> => IsFrameOf(i, did.frames[1])

LEMMA RhythmKept ==
  ASSUME NEW s, Whole(s), NEW now \in Nat, Rhythm(s, now), NEW i \in DOMAIN TxList,
         NEW did, TurnOf(i, s, did, now)
  PROVE  Rhythm(Collected(s, i, did, now), now)
<1> DEFINE t == Collected(s, i, did, now)
           sent == did.frames # <<>>
           n == s.produced
<1>1. /\ t.ecus = did.ecus
      /\ ~sent => t.produced = n /\ t.made = s.made
      /\ sent => /\ t.produced = n + 1
                 /\ \A k \in 1..n : t.made[k] = s.made[k]
                 /\ t.made[n + 1].of = i /\ t.made[n + 1].at = now
  BY CollectedMakes
<1>2. n \in Nat /\ sent \in BOOLEAN
  BY DEF Whole
<1> HIDE DEF t, sent, n
<1> SUFFICES ASSUME NEW j \in DOMAIN TxList
             PROVE  /\ TxList[j].mode # "Event" => t.ecus.tx[j].due <= now + Slack(j)
                    /\ Steady(j) => Spaced(j, t.made, t.produced, t.ecus.tx[j].due)
  BY DEF Rhythm, t
<1> DEFINE before == s.ecus.tx[j].due
           after == t.ecus.tx[j].due
<1>3. /\ TxList[j].mode # "Event" => before <= now + Slack(j)
      /\ Steady(j) => Spaced(j, s.made, n, before)
  BY DEF Rhythm, n
<1>4. before \in Nat /\ after \in Nat
  BY <1>1 DEF TurnOf, Whole, EcusOK, Runtime
<1>5. j # i => after = before
  BY <1>1 DEF TurnOf
<1>6. j = i => Turn(i, before, after, sent, now)
  BY <1>1 DEF TurnOf, sent
<1> HIDE DEF before, after
<1>7. TxList[j].mode # "Event" => after <= now + Slack(j)
  <2>1. CASE j # i
    BY <1>3, <1>5, <2>1
  <2>2. CASE j = i
    BY <1>3, <1>6, <2>2 DEF Turn
  <2> QED BY <2>1, <2>2
<1>8. ASSUME Steady(j)
      PROVE  Spaced(j, t.made, t.produced, after)
  <2>1. Spaced(j, s.made, n, before)
    BY <1>3, <1>8
  <2>2. CASE ~sent
    <3>1. after = before
      BY <1>5, <1>6, <1>8, <2>2 DEF Turn
    <3> QED BY <1>1, <2>1, <2>2, <3>1
  <2>3. CASE sent /\ j # i
    <3>1. t.made[n + 1].of # j
      BY <1>1, <2>3
    <3>2. Spaced(j, t.made, n + 1, before)
      BY <1>1, <1>2, <2>1, <2>3, <3>1, SpacedByOthers
    <3> QED BY <1>1, <1>5, <2>3, <3>2
  <2>4. CASE sent /\ j = i
    <3>1. before <= now /\ after > now /\ after >= before + TxList[j].cycle
      BY <1>6, <1>8, <2>4 DEF Turn
    <3>2. t.made[n + 1].of = j /\ t.made[n + 1].at = now /\ t.produced = n + 1
          /\ \A k \in 1..n : t.made[k] = s.made[k]
      BY <1>1, <2>4
    <3>3. Spaced(j, t.made, n + 1, after)
      BY <1>2, <1>4, <1>8, <2>1, <3>1, <3>2, SpacedByItself
    <3> QED BY <3>2, <3>3
  <2> QED BY <1>2, <2>2, <2>3, <2>4
<1> QED BY <1>7, <1>8 DEF after

-----------------------------------------------------------------------------
(* The counter of a message is the number of its frames, and each frame    *)
(* was stamped with the number of those before it.                         *)
Numbered(i, made, n, r) ==
  /\ \A k \in 1..n : made[k].of = i => Stamps(i, made[k].data, Between(made, i, 0, k))
  /\ TxList[i].counter # None => r.counter = Between(made, i, 0, n + 1)
  /\ Remembers(i, r)
Sequence(s) ==
  StampsAreSeparate =>
    /\ \A k \in 1..s.produced : s.made[k].of \in DOMAIN TxList
    /\ \A i \in DOMAIN TxList : Numbered(i, s.made, s.produced, s.ecus.tx[i])

SameCount(r, q) == r.due = q.due /\ r.counter = q.counter /\ r.last = q.last

LEMMA SequenceLasts ==
  ASSUME NEW s, Sequence(s), NEW t, t.made = s.made, t.produced = s.produced,
         \A i \in DOMAIN TxList : SameCount(t.ecus.tx[i], s.ecus.tx[i])
  PROVE  Sequence(t)
BY DEF Sequence, Numbered, Remembers, SameCount

LEMMA NumberedByItself ==
  ASSUME NEW i, NEW made, NEW n \in Nat, NEW before, Numbered(i, made, n, before),
         before.counter \in Nat, NEW frames, frames # <<>>,
         NEW after, Counts(i, before, after, frames),
         NEW longer, \A k \in 1..n : longer[k] = made[k],
         longer[n + 1].of = i, longer[n + 1].data = frames[1].data
  PROVE  Numbered(i, longer, n + 1, after)
<1> DEFINE B(m, k) == Between(m, i, 0, k)
<1>1. /\ \A k \in 1..(n + 1) : B(made, k) \in Nat /\ B(longer, k) = B(made, k)
      /\ B(longer, n + 2) = B(made, n + 1) + 1
  <2>1. 0 \in Nat /\ 0 <= n + 1
    OBVIOUS
  <2>2. GrowsBy(made, longer, n, i, 0, 1)
    BY <2>1, GrowsByOne
  <2> QED BY <2>2 DEF GrowsBy
<1>2. /\ \A k \in 1..n : made[k].of = i => Stamps(i, made[k].data, B(made, k))
      /\ TxList[i].counter # None => before.counter = B(made, n + 1)
  BY DEF Numbered
<1> HIDE DEF B
<1>3. ASSUME NEW k \in 1..(n + 1), longer[k].of = i
      PROVE  Stamps(i, longer[k].data, B(longer, k))
  <2>1. CASE k = n + 1
    <3>1. Stamps(i, longer[k].data, before.counter)
      BY <2>1 DEF Counts
    <3>2. TxList[i].counter # None => before.counter = B(longer, k)
      BY <1>1, <1>2, <2>1
    <3> QED BY <3>1, <3>2 DEF Stamps
  <2>2. CASE k # n + 1
    <3>1. k \in 1..n /\ longer[k] = made[k] /\ B(longer, k) = B(made, k)
      BY <1>1, <2>2
    <3> QED BY <1>2, <1>3, <3>1
  <2> QED BY <2>1, <2>2
<1>4. ASSUME TxList[i].counter # None
      PROVE  after.counter = B(longer, (n + 1) + 1) /\ Remembers(i, after)
  <2>1. after.counter = before.counter + 1 /\ Remembers(i, after)
    BY <1>4 DEF Counts
  <2>2. (n + 1) + 1 = n + 2
    OBVIOUS
  <2> QED BY <1>1, <1>2, <1>4, <2>1, <2>2
<1> QED BY <1>3, <1>4 DEF Numbered, Remembers, B

LEMMA NumberedByOthers ==
  ASSUME NEW i, NEW made, NEW n \in Nat, NEW r, Numbered(i, made, n, r),
         NEW longer, \A k \in 1..n : longer[k] = made[k], longer[n + 1].of # i
  PROVE  Numbered(i, longer, n + 1, r)
<1> DEFINE B(m, k) == Between(m, i, 0, k)
<1>1. /\ \A k \in 1..(n + 1) : B(made, k) \in Nat /\ B(longer, k) = B(made, k)
      /\ B(longer, (n + 1) + 1) = B(made, n + 1)
  <2>1. GrowsBy(made, longer, n, i, 0, 0)
    BY GrowsByNone
  <2>2. (n + 1) + 1 = n + 2 /\ n + 1 \in 1..(n + 1)
    OBVIOUS
  <2> QED BY <2>1, <2>2 DEF GrowsBy
<1>2. /\ \A k \in 1..n : made[k].of = i => Stamps(i, made[k].data, B(made, k))
      /\ TxList[i].counter # None => r.counter = B(made, n + 1)
      /\ Remembers(i, r)
  BY DEF Numbered
<1> HIDE DEF B
<1>3. ASSUME NEW k \in 1..(n + 1), longer[k].of = i
      PROVE  Stamps(i, longer[k].data, B(longer, k))
  <2>1. k \in 1..n /\ longer[k] = made[k] /\ B(longer, k) = B(made, k)
    BY <1>1, <1>3
  <2> QED BY <1>2, <1>3, <2>1
<1>4. TxList[i].counter # None => r.counter = B(longer, (n + 1) + 1)
  BY <1>1, <1>2
<1> QED BY <1>2, <1>3, <1>4 DEF Numbered, B

LEMMA SequenceKept ==
  ASSUME NEW s, Whole(s), NEW now \in Nat, Sequence(s), NEW i \in DOMAIN TxList,
         NEW did, TurnOf(i, s, did, now)
  PROVE  Sequence(Collected(s, i, did, now))
<1> DEFINE t == Collected(s, i, did, now)
           sent == did.frames # <<>>
           n == s.produced
<1> SUFFICES ASSUME StampsAreSeparate
             PROVE  /\ \A k \in 1..t.produced : t.made[k].of \in DOMAIN TxList
                    /\ \A j \in DOMAIN TxList : Numbered(j, t.made, t.produced, t.ecus.tx[j])
  BY DEF Sequence
<1>1. /\ t.ecus = did.ecus
      /\ ~sent => t.produced = n /\ t.made = s.made
      /\ sent => /\ t.produced = n + 1
                 /\ \A k \in 1..n : t.made[k] = s.made[k]
                 /\ t.made[n + 1].of = i /\ t.made[n + 1].data = did.frames[1].data
  BY CollectedMakes
<1>2. n \in Nat /\ s.ecus.tx[i].counter \in Nat
  BY DEF Whole, EcusOK, Runtime
<1> HIDE DEF t, sent, n
<1>3. /\ \A k \in 1..n : s.made[k].of \in DOMAIN TxList
      /\ \A j \in DOMAIN TxList : Numbered(j, s.made, n, s.ecus.tx[j])
  BY DEF Sequence, n
<1>4. Counts(i, s.ecus.tx[i], t.ecus.tx[i], did.frames)
  BY <1>1, <1>3 DEF TurnOf, Numbered
<1>5. ASSUME NEW k \in 1..t.produced PROVE t.made[k].of \in DOMAIN TxList
  <2>1. CASE ~sent
    BY <1>1, <1>3, <2>1
  <2>2. CASE sent
    <3>1. k = n + 1 \/ k \in 1..n
      BY <1>1, <1>2, <2>2
    <3> QED BY <1>1, <1>3, <2>2, <3>1
  <2> QED BY <2>1, <2>2
<1>6. ASSUME NEW j \in DOMAIN TxList
      PROVE  Numbered(j, t.made, t.produced, t.ecus.tx[j])
  <2>1. Numbered(j, s.made, n, s.ecus.tx[j])
    BY <1>3
  <2>2. CASE j # i
    <3>1. t.ecus.tx[j] = s.ecus.tx[j]
      BY <1>1, <2>2 DEF TurnOf
    <3>2. CASE ~sent
      BY <1>1, <2>1, <3>1, <3>2
    <3>3. CASE sent
      <4>1. Numbered(j, t.made, n + 1, s.ecus.tx[j])
        BY <1>1, <1>2, <2>1, <2>2, <3>3, NumberedByOthers
      <4> QED BY <1>1, <3>1, <3>3, <4>1
    <3> QED BY <3>2, <3>3
  <2>3. CASE j = i /\ ~sent
    <3>1. TxList[i].counter # None =>
            t.ecus.tx[i].counter = s.ecus.tx[i].counter /\ Remembers(i, t.ecus.tx[i])
      <4>1. s.ecus.tx[i].counter + 0 = s.ecus.tx[i].counter
        BY <1>2
      <4> QED BY <1>4, <2>3, <4>1 DEF Counts, sent
    <3> QED BY <1>1, <2>1, <2>3, <3>1 DEF Numbered, Remembers
  <2>4. CASE j = i /\ sent
    <3>1. did.frames # <<>> /\ t.produced = n + 1
      BY <1>1, <2>4 DEF sent
    <3>2. Numbered(i, t.made, n + 1, t.ecus.tx[i])
      BY <1>1, <1>2, <1>4, <2>1, <2>4, <3>1, NumberedByItself
    <3> QED BY <2>4, <3>1, <3>2
  <2> QED BY <2>2, <2>3, <2>4
<1> QED BY <1>5, <1>6

-----------------------------------------------------------------------------
(* The frames that a step has added, b being what it began with, show what *)
(* the freezes hold.                                                       *)
Shows(x, old, frozen) ==
  \A f \in DOMAIN FaultList :
    /\ Undisturbed(old.active) /\ old.active[f]
    /\ Freezing(f, TxList[x.of].node, TxList[x.of].message)
    /\ FaultList[f].signal \in SignalsOf[TxList[x.of].message]
    => Holds(TxList[x.of].message, x.data, frozen, FaultList[f].signal)
IceUpTo(s, b, a, n) ==
  /\ KeepsIce(b.faults, s.faults)
  /\ \A k \in (a + 1)..n : Shows(s.pending[k], b.faults, s.faults.frozen)
Ice(s, b) == IceUpTo(s, b, Len(b.pending), Len(s.pending))

LEMMA ShowsStill ==
  ASSUME NEW x, NEW old, NEW now, NEW later, Shows(x, old, now.frozen), KeepsIce(now, later)
  PROVE  Shows(x, old, later.frozen)
BY DEF Shows, Holds, KeepsIce

LEMMA IceKept ==
  ASSUME NEW b, IsSequence(b.pending),
         NEW now \in Int, NEW s, Whole(s), Ice(s, b), NEW i \in DOMAIN TxList,
         NEW did, did.frames # <<>> => IsFrameOf(i, did.frames[1])
  PROVE  Ice(Collected(s, i, did, now), b)
<1> DEFINE t == Collected(s, i, did, now)
           message == TxList[i].message
           node == TxList[i].node
           w == Process(s.faults, node, did.frames[1], now)
           nr == s.produced + 1
           m == [of |-> i, at |-> now, data |-> did.frames[1].data]
           x == [at |-> w.due, nr |-> nr, of |-> i, data |-> w.frame.data]
           a == Len(b.pending)
           n == Len(s.pending)
<1>1. a \in Nat /\ n \in Nat /\ IsSequence(s.pending) /\ IceUpTo(s, b, a, n)
  BY SequenceHasALength DEF Whole, Ice
<1>2. CASE did.frames = <<>>
  <2>1. t = [s EXCEPT !.ecus = did.ecus]
    BY <1>2 DEF Collected
  <2> HIDE DEF t
  <2>2. t.pending = s.pending /\ t.faults = s.faults
    BY <2>1 DEF Whole, SimMembers
  <2> QED BY <1>1, <2>2 DEF Ice, IceUpTo, t
<1>3. CASE did.frames # <<>>
  <2>1. t = [s EXCEPT !.ecus = did.ecus, !.produced = nr, !.faults = w.faults,
                      !.made = Append(@, m),
                      !.pending = IF w.gone THEN @ ELSE Append(@, x)]
    BY <1>3 DEF Collected
  <2>2. Frozen(s.faults, w, node, message, SignalsOf[message])
    <3>2. FaultsOK(s.faults)
      BY DEF Whole
    <3> DEFINE frame == did.frames[1]
    <3>3. IsFrameOf(i, frame)
      BY <1>3
    <3> HIDE DEF frame
    <3>4. Frozen(s.faults, Process(s.faults, node, frame, now), node, frame.message, DOMAIN frame.data)
      BY <3>2, <3>3, FrozenThrough DEF IsFrameOf
    <3> QED BY <3>3, <3>4 DEF IsFrameOf, frame
  <2>3. x.of = i /\ x.data = w.frame.data
    OBVIOUS
  <2> HIDE DEF t, w, m, x, nr
  <2>4. /\ t.faults = w.faults
        /\ t.pending = IF w.gone THEN s.pending ELSE Append(s.pending, x)
    BY <2>1 DEF Whole, SimMembers
  <2>5. KeepsIce(s.faults, t.faults) /\ KeepsIce(b.faults, s.faults)
    BY <1>1, <2>2, <2>4 DEF Frozen, IceUpTo
  <2>6. KeepsIce(b.faults, t.faults)
    BY <2>5 DEF KeepsIce
  <2>7. ASSUME NEW k \in (a + 1)..n
        PROVE  Shows(s.pending[k], b.faults, t.faults.frozen)
    <3>1. Shows(s.pending[k], b.faults, s.faults.frozen)
      BY <1>1 DEF IceUpTo
    <3> QED BY <2>5, <3>1, ShowsStill
  <2>8. CASE w.gone
    <3>1. t.pending = s.pending
      BY <2>4, <2>8
    <3> QED BY <2>6, <2>7, <3>1 DEF Ice, IceUpTo, t
  <2>9. CASE ~w.gone
    <3>1. /\ Len(t.pending) = n + 1 /\ t.pending[n + 1] = x
          /\ \A k \in 1..n : t.pending[k] = s.pending[k]
      <4>1. PICK A : s.pending \in Seq(A)
        BY <1>1 DEF IsSequence
      <4>2. s.pending \in Seq(A \cup {x}) /\ x \in A \cup {x}
        BY <4>1, SeqMonotonic
      <4> DEFINE S == A \cup {x}
      <4> HIDE DEF S
      <4>3. s.pending \in Seq(S) /\ x \in S
        BY <4>2 DEF S
      <4>4. t.pending = Append(s.pending, x)
        BY <2>4, <2>9
      <4> QED BY <4>3, <4>4, AppendProperties
    <3>2. Shows(x, b.faults, t.faults.frozen)
      BY <2>2, <2>3, <2>4, <2>5, <2>9 DEF Shows, Frozen, KeepsIce
    <3> HIDE DEF a, n
    <3>3. ASSUME NEW k \in (a + 1)..(n + 1)
          PROVE  Shows(t.pending[k], b.faults, t.faults.frozen)
      <4>1. CASE k = n + 1
        BY <3>1, <3>2, <4>1
      <4>2. CASE k # n + 1
        <5>1. k \in (a + 1)..n /\ k \in 1..n
          BY <1>1, <4>2
        <5> QED BY <2>7, <3>1, <5>1
      <4> QED BY <4>1, <4>2
    <3>4. IceUpTo(t, b, a, n + 1)
      BY <2>6, <3>3 DEF IceUpTo
    <3> QED BY <3>1, <3>4 DEF Ice, a, t
  <2> QED BY <2>8, <2>9
<1> QED BY <1>2, <1>3

LEMMA BeginsIcy ==
  ASSUME NEW b, IsSequence(b.pending)
  PROVE  Ice(b, b)
<1>1. Len(b.pending) \in Nat
  BY SequenceHasALength
<1> QED BY <1>1 DEF Ice, IceUpTo, KeepsIce

-----------------------------------------------------------------------------
(* All the messages, in their order.                                       *)
TxOrder == [i \in DOMAIN TxList |-> i]
ProducesUpTo(f, b, plant, now, n) ==
  f = [k \in 0..n |-> IF k = 0 THEN b ELSE Produce(f[k - 1], TxOrder[k], plant, now)]

LEMMA TxOrderIs ==
  /\ Len(TxList) \in Nat /\ Len(TxOrder) = Len(TxList)
  /\ \A k \in 1..Len(TxList) : TxOrder[k] \in DOMAIN TxList
<1>1. Len(TxList) \in Nat /\ DOMAIN TxList = 1..Len(TxList)
  BY SimulationIsBuilt DEF SimulationIsBuilt
<1>2. TxOrder = [k \in 1..Len(TxList) |-> k]
  BY <1>1 DEF TxOrder
<1>3. TxOrder \in Seq(Nat) /\ Len(TxOrder) = Len(TxList)
  <2> DEFINE n == Len(TxList)
  <2> HIDE DEF n
  <2>1. TxOrder = [k \in 1..n |-> k] /\ n \in Nat
    BY <1>1, <1>2 DEF n
  <2>2. TxOrder \in Seq(Nat)
    BY <2>1
  <2>3. Len(TxOrder) = n
    BY <2>1, <2>2, LenProperties
  <2> QED BY <2>2, <2>3 DEF n
<1> QED BY <1>1, <1>2, <1>3

LEMMA BeginsGathered ==
  ASSUME NEW b, Whole(b), NEW now
  PROVE  Gathered(b, b, now)
<1>1. b.produced \in Nat /\ Len(b.pending) \in Nat /\ b.faults.dropped \in Nat
  BY SequenceHasALength DEF Whole, FaultsOK
<1>2. Added(b, b, now)
  BY <1>1 DEF Added, AddedUpTo
<1> QED BY <1>2 DEF Gathered

LEMMA ProducedIs ==
  ASSUME NEW b, Whole(b), NEW now \in Nat, Rhythm(b, now), Sequence(b), NEW plant
  PROVE  /\ Gathered(AllProduced(b, plant, now), b, now)
         /\ Rhythm(AllProduced(b, plant, now), now) /\ Sequence(AllProduced(b, plant, now))
         /\ Ice(AllProduced(b, plant, now), b)
<1> DEFINE N == Len(TxList)
           E == {m \in Nat : \E f : ProducesUpTo(f, b, plant, now, m)}
           F == CHOOSE f : ProducesUpTo(f, b, plant, now, N)
           T == {m \in Nat : m <= N => /\ Gathered(F[m], b, now) /\ Rhythm(F[m], now)
                                        /\ Sequence(F[m]) /\ Ice(F[m], b)}
<1>1. N \in Nat /\ \A k \in 1..N : TxOrder[k] \in DOMAIN TxList
  BY TxOrderIs
<1>2. 0 \in E
  <2>1. ProducesUpTo([k \in 0..0 |-> b], b, plant, now, 0)
    BY DEF ProducesUpTo
  <2> QED BY <2>1
<1>3. ASSUME NEW m \in E PROVE m + 1 \in E
  <2>1. PICK f : ProducesUpTo(f, b, plant, now, m)
    OBVIOUS
  <2> DEFINE g == [k \in 0..(m + 1) |-> IF k = m + 1 THEN Produce(f[m], TxOrder[m + 1], plant, now)
                                       ELSE f[k]]
  <2>2. ProducesUpTo(g, b, plant, now, m + 1)
    BY <2>1 DEF ProducesUpTo
  <2> QED BY <2>2
<1>4. N \in E
  <2> HIDE DEF E
  <2>1. E \in SUBSET Nat
    BY DEF E
  <2> QED BY <1>1, <1>2, <1>3, <2>1, SetInduction
<1>5. ProducesUpTo(F, b, plant, now, N)
  BY <1>4
<1>6. AllProduced(b, plant, now) = F[N]
  BY TxOrderIs DEF AllProduced, Folded, ProducesUpTo, TxOrder
<1> HIDE DEF F, N
<1>7. 0 \in T
  <2>1. F[0] = b
    BY <1>1, <1>5 DEF ProducesUpTo
  <2>2. Gathered(b, b, now) /\ Ice(b, b)
    BY BeginsGathered, BeginsIcy DEF Whole
  <2> QED BY <2>1, <2>2
<1>8. ASSUME NEW m \in T PROVE m + 1 \in T
  <2> SUFFICES ASSUME m + 1 <= N
               PROVE  /\ Gathered(F[m + 1], b, now) /\ Rhythm(F[m + 1], now)
                      /\ Sequence(F[m + 1]) /\ Ice(F[m + 1], b)
    OBVIOUS
  <2> DEFINE s == F[m]
             i == TxOrder[m + 1]
             did == StepMessage(i, s.ecus, plant, now)
  <2>1. F[m + 1] = Collected(s, i, did, now)
    <3>1. F[m + 1] = Produce(F[m], TxOrder[m + 1], plant, now)
      <4> HIDE DEF s, i, did
      <4> QED BY <1>1, <1>5 DEF ProducesUpTo
    <3> QED BY <3>1 DEF Produce
  <2>2. Gathered(s, b, now) /\ Rhythm(s, now) /\ Sequence(s) /\ i \in DOMAIN TxList
        /\ Ice(s, b)
    BY <1>1
  <2> HIDE DEF s, i
  <2>3. TurnOf(i, s, did, now)
    BY <2>2, SentIs DEF Gathered, Whole, TurnOf
  <2> HIDE DEF did
  <2>4. b.produced \in Nat /\ b.faults.dropped \in Nat /\ IsSequence(b.pending)
    BY DEF Whole, FaultsOK
  <2>5. EcusOK(did.ecus) /\ Whole(s)
    BY <2>2, <2>3 DEF TurnOf, Gathered
  <2>6. Gathered(Collected(s, i, did, now), b, now)
    BY <2>2, <2>4, <2>5, CollectedIs
  <2>7. Rhythm(Collected(s, i, did, now), now)
    BY <2>2, <2>3, <2>5, RhythmKept
  <2>8. Sequence(Collected(s, i, did, now))
    BY <2>2, <2>3, <2>5, SequenceKept
  <2>9. Ice(Collected(s, i, did, now), b)
    BY <2>2, <2>3, <2>4, <2>5, IceKept DEF TurnOf
  <2> QED BY <2>1, <2>6, <2>7, <2>8, <2>9
<1>9. N \in T
  <2> HIDE DEF T
  <2>1. T \in SUBSET Nat
    BY DEF T
  <2> QED BY <1>1, <1>7, <1>8, <2>1, SetInduction
<1> QED BY <1>1, <1>6, <1>9

-----------------------------------------------------------------------------
(* What waits: in turn, in the future of time last, and each frame once.   *)
Queue(q, last, produced, made) ==
  /\ InTurn(q)
  /\ \A k \in 1..Len(q) : /\ q[k].at > last /\ q[k].nr \in 1..produced
                           /\ q[k].of = made[q[k].nr].of
  /\ \A j, k \in 1..Len(q) : q[j].nr = q[k].nr => j = k

(* What has left by time last: in turn, each at its time and once.         *)
LeftWell(r, made) ==
  /\ r.frame.at <= r.time /\ (r.before < r.frame.at \/ made[r.frame.nr].at = r.time)
  /\ r.frame.of = made[r.frame.nr].of
Left(rel, last, produced, made) ==
  /\ IsSequence(rel)
  /\ \A k \in 1..Len(rel) : /\ Timed(rel[k].frame) /\ rel[k].frame.nr \in 1..produced
                            /\ rel[k].frame.at <= last /\ LeftWell(rel[k], made)
  /\ \A j, k \in 1..Len(rel) : j < k => Before(rel[j].frame, rel[k].frame)
  /\ \A j, k \in 1..Len(rel) : rel[j].frame.nr = rel[k].frame.nr => j = k

Apart(rel, q) ==
  \A j \in 1..Len(rel) : \A k \in 1..Len(q) : rel[j].frame.nr # q[k].nr

(* Where an entry of the sorted queue comes from.                          *)
AreOf(s, q) == \A k \in 1..Len(s) : \E j \in 1..Len(q) : s[k] = q[j]
Old(f, b) == \E j \in 1..Len(b.pending) : f = b.pending[j]
New(f, b, t, now) ==
  /\ f.nr > b.produced /\ f.nr <= t.produced /\ f.at >= now
  /\ t.made[f.nr].at = now /\ t.made[f.nr].of = f.of
SortedOf(s, b, t, now) ==
  /\ InTurn(s) /\ Len(s) = Len(t.pending) /\ AreOf(s, t.pending)
  /\ \A k \in 1..Len(s) : Old(s[k], b) \/ New(s[k], b, t, now)
  /\ \A k \in 1..Len(s) : s[k].nr \in 1..t.produced /\ s[k].of = t.made[s[k].nr].of
  /\ \A j, k \in 1..Len(s) : s[j].nr = s[k].nr => j = k

LEMMA SortedIs ==
  ASSUME NEW b, Whole(b), NEW last, Queue(b.pending, last, b.produced, b.made),
         NEW now \in Int, NEW t, Gathered(t, b, now)
  PROVE  SortedOf(InOrderOfTime(t.pending), b, t, now)
<1> DEFINE s == InOrderOfTime(t.pending)
           q == t.pending
           a == Len(b.pending)
           n == Len(q)
<1>1. /\ Whole(t) /\ AddedUpTo(t, b, now, t.produced, n, a) /\ IsSequence(q)
      /\ a \in Nat /\ n \in Nat /\ b.produced \in Nat /\ t.produced \in Nat
      /\ InTurn(b.pending)
  BY SequenceHasALength DEF Gathered, Whole, Added, Queue
<1> HIDE DEF q, a, n, s
<1>2. /\ \A k \in 1..a : /\ q[k] = b.pending[k] /\ Timed(q[k]) /\ q[k].nr \in 1..b.produced
                         /\ q[k].of = b.made[q[k].nr].of
      /\ \A k \in (a + 1)..n : /\ Timed(q[k]) /\ q[k].at >= now
                               /\ q[k].nr > b.produced /\ q[k].nr <= t.produced
                               /\ q[k].of = t.made[q[k].nr].of
      /\ \A j, k \in (a + 1)..n : j < k => q[j].nr < q[k].nr
      /\ n >= a /\ t.produced >= b.produced
      /\ \A k \in (b.produced + 1)..t.produced : t.made[k].at = now
      /\ \A k \in 1..b.produced : t.made[k] = b.made[k]
  BY <1>1 DEF AddedUpTo, Queue, InTurn, q, a
<1>3. ASSUME NEW k \in 1..n
      PROVE  /\ Timed(q[k]) /\ q[k].nr \in 1..t.produced /\ (Old(q[k], b) \/ New(q[k], b, t, now))
             /\ q[k].of = t.made[q[k].nr].of
  <2>1. CASE k <= a
    <3>1. k \in 1..a
      BY <1>1, <2>1
    <3>2. q[k].of = t.made[q[k].nr].of
      BY <1>2, <3>1
    <3> QED BY <1>1, <1>2, <3>1, <3>2 DEF Old, a
  <2>2. CASE k > a
    <3>1. k \in (a + 1)..n
      BY <1>1, <2>2
    <3>2. q[k].nr \in (b.produced + 1)..t.produced
      BY <1>1, <1>2, <3>1 DEF Timed
    <3> QED BY <1>1, <1>2, <3>1, <3>2 DEF New
  <2> QED BY <1>1, <2>1, <2>2
<1>4. ASSUME NEW j \in 1..n, NEW k \in 1..n, j < k
      PROVE  q[j].nr # q[k].nr /\ (q[j].at = q[k].at => q[j].nr < q[k].nr)
  <2>1. CASE k <= a
    <3>1. j \in 1..a /\ k \in 1..a /\ j # k
      BY <1>1, <1>4, <2>1
    <3>2. Before(b.pending[j], b.pending[k]) /\ b.pending[j].nr # b.pending[k].nr
      BY <1>1, <1>4, <3>1 DEF Queue, InTurn, a
    <3>3. Before(q[j], q[k]) /\ q[j].nr # q[k].nr /\ Timed(q[j]) /\ Timed(q[k])
      BY <1>2, <3>1, <3>2
    <3> QED BY <3>3 DEF Before, Timed
  <2>2. CASE j <= a /\ k > a
    <3>1. j \in 1..a /\ k \in (a + 1)..n
      BY <1>1, <2>2
    <3> QED BY <1>1, <1>2, <3>1 DEF Timed
  <2>3. CASE j > a
    <3>1. j \in (a + 1)..n /\ k \in (a + 1)..n
      BY <1>1, <1>4, <2>3
    <3> QED BY <1>1, <1>2, <1>4, <3>1 DEF Timed
  <2> QED BY <1>1, <2>1, <2>2, <2>3
<1>5. InTurn(s) /\ Len(s) = n /\ Entries(s) = Entries(q)
  BY <1>1, <1>3, <1>4, SortedInTurn DEF s, n, q
<1>6. ASSUME NEW k \in 1..Len(s) PROVE \E j \in 1..n : s[k] = q[j]
  <2>1. s[k] \in Entries(q)
    BY <1>5 DEF Entries
  <2> QED BY <2>1 DEF Entries, n
<1>7. ASSUME NEW j \in 1..Len(s), NEW k \in 1..Len(s), s[j].nr = s[k].nr
      PROVE  j = k
  <2>1. PICK x \in 1..n : s[j] = q[x]
    BY <1>6
  <2>2. PICK y \in 1..n : s[k] = q[y]
    BY <1>6
  <2>3. x = y
    BY <1>1, <1>4, <1>7, <2>1, <2>2
  <2>4. s[j] = s[k]
    BY <2>1, <2>2, <2>3
  <2>5. ~(j < k) /\ ~(k < j)
    BY <1>5, <2>4 DEF InTurn, Before, Timed
  <2> QED BY <1>1, <1>5, <2>5
<1>8. ASSUME NEW k \in 1..Len(s)
      PROVE  /\ Old(s[k], b) \/ New(s[k], b, t, now)
             /\ s[k].nr \in 1..t.produced /\ s[k].of = t.made[s[k].nr].of
  <2>1. PICK j \in 1..n : s[k] = q[j]
    BY <1>6
  <2> QED BY <1>3, <2>1
<1>9. AreOf(s, q)
  BY <1>6 DEF AreOf, n
<1> QED BY <1>5, <1>7, <1>8, <1>9 DEF SortedOf, s, n, q

(* A step releases what is due, and keeps the rest.                        *)
JustReleased(o, time, before) ==
  [k \in DOMAIN o |-> [frame |-> o[k], time |-> time, before |-> before]]

ReleasedAsItShould(t, now, rel, before) ==
  LET s == InOrderOfTime(t.pending)
      due == Reached(s, now)
      q == SubSeq(s, due + 1, Len(s))
      r == rel \o JustReleased(SubSeq(s, 1, due), now, before)
  IN  /\ Queue(q, now, t.produced, t.made) /\ Left(r, now, t.produced, t.made) /\ Apart(r, q)
      /\ Len(r) + Len(q) = Len(rel) + Len(t.pending)

LEMMA ReleasedWell ==
  ASSUME NEW b, Whole(b), NEW last \in Int, Queue(b.pending, last, b.produced, b.made),
         NEW now \in Int, last <= now, NEW t, Gathered(t, b, now),
         NEW rel, Left(rel, last, b.produced, b.made), Apart(rel, b.pending),
         NEW before, Len(b.pending) = 0 \/ before = last
  PROVE  ReleasedAsItShould(t, now, rel, before)
<1> DEFINE s == InOrderOfTime(t.pending)
           due == Reached(s, now)
           q == SubSeq(s, due + 1, Len(s))
           o == SubSeq(s, 1, due)
           new == JustReleased(o, now, before)
           r == rel \o new
           l == Len(rel)
<1>1. /\ InTurn(s) /\ Len(s) = Len(t.pending)
      /\ \A k \in 1..Len(s) : Old(s[k], b) \/ New(s[k], b, t, now)
      /\ \A k \in 1..Len(s) : s[k].nr \in 1..t.produced /\ s[k].of = t.made[s[k].nr].of
      /\ \A j, k \in 1..Len(s) : s[j].nr = s[k].nr => j = k
  <2>1. SortedOf(s, b, t, now)
    BY SortedIs
  <2> HIDE DEF s
  <2> QED BY <2>1 DEF SortedOf
<1> HIDE DEF s
<1>2. /\ due \in 0..Len(s)
      /\ IsSequence(o) /\ Len(o) = due
      /\ \A k \in 1..due : o[k] = s[k] /\ s[k].at <= now
      /\ IsSequence(q) /\ Len(q) = Len(s) - due
      /\ \A k \in 1..(Len(s) - due) : q[k] = s[due + k] /\ s[due + k].at > now
  <2>1. FirstPart(s, due, now)
    BY <1>1, DueIsAFirstPart
  <2> HIDE DEF due
  <2> QED BY <2>1 DEF FirstPart
<1> HIDE DEF due
<1>3. /\ Len(s) \in Nat /\ IsSequence(rel) /\ l \in Nat /\ b.produced \in Nat /\ t.produced \in Nat
      /\ b.produced <= t.produced /\ \A k \in 1..b.produced : t.made[k] = b.made[k]
  BY <1>1, SequenceHasALength DEF Left, InTurn, Gathered, Whole, Added, AddedUpTo
<1> HIDE DEF q, o
<1>4. /\ IsSequence(new) /\ Len(new) = due
      /\ \A k \in 1..due : new[k].frame = s[k] /\ new[k].time = now /\ new[k].before = before
  <2> DEFINE S == {new[k] : k \in 1..due}
  <2>1. new = [k \in 1..due |-> [frame |-> o[k], time |-> now, before |-> before]]
    BY <1>2, SequenceHasALength DEF JustReleased
  <2>2. \A k \in 1..due : /\ new[k].frame = s[k] /\ new[k].time = now /\ new[k].before = before
                          /\ new[k] \in S
    BY <1>2, <2>1
  <2>3. new = [k \in 1..due |-> new[k]] /\ due \in Nat
    BY <1>2, <2>1
  <2> HIDE DEF S, new
  <2>4. new \in Seq(S)
    <3>1. new \in [1..due -> S]
      BY <2>2, <2>3
    <3> QED BY <2>3, <3>1
  <2>5. Len(new) = due
    BY <2>3, <2>4, LenProperties
  <2> QED BY <2>2, <2>4, <2>5 DEF IsSequence
<1> HIDE DEF new
<1>5. /\ IsSequence(r) /\ Len(r) = l + due
      /\ \A k \in 1..l : r[k] = rel[k]
      /\ \A k \in 1..due : r[l + k] = new[k]
  <2>1. PICK S : rel \in Seq(S) /\ new \in Seq(S)
    BY <1>3, <1>4, OneSetForBoth
  <2>2. /\ r \in Seq(S) /\ Len(r) = Len(rel) + Len(new)
        /\ \A k \in 1..(Len(rel) + Len(new)) : r[k] = IF k <= Len(rel) THEN rel[k]
                                                    ELSE new[k - Len(rel)]
    BY <2>1, ConcatProperties
  <2> HIDE DEF r, l
  <2>3. Len(rel) = l /\ Len(new) = due /\ due \in Nat
    BY <1>2, <1>3, <1>4 DEF l
  <2>4. ASSUME NEW k \in 1..l PROVE r[k] = rel[k]
    BY <1>3, <2>2, <2>3
  <2>5. ASSUME NEW k \in 1..due PROVE r[l + k] = new[k]
    BY <1>3, <2>2, <2>3
  <2> QED BY <2>2, <2>3, <2>4, <2>5 DEF IsSequence
<1> HIDE DEF r
(* What has just left, compared with what left before.                     *)
<1>6. ASSUME NEW k \in 1..due
      PROVE  /\ Timed(s[k]) /\ s[k].nr \in 1..t.produced /\ s[k].at <= now
             /\ s[k].of = t.made[s[k].nr].of
             /\ before < s[k].at \/ t.made[s[k].nr].at = now
             /\ \A j \in 1..l : Before(rel[j].frame, s[k]) /\ rel[j].frame.nr # s[k].nr
  <2>1. /\ k \in 1..Len(s) /\ Timed(s[k]) /\ s[k].nr \in 1..t.produced /\ s[k].at <= now
        /\ s[k].of = t.made[s[k].nr].of
    <3>1. k \in 1..Len(s)
      BY <1>2, <1>3
    <3> QED BY <1>1, <1>2, <3>1 DEF InTurn
  <2>2. CASE Old(s[k], b)
    <3>1. PICK x \in 1..Len(b.pending) : s[k] = b.pending[x]
      BY <2>2 DEF Old
    <3>2. s[k].at > last /\ before = last
      BY <3>1 DEF Queue, Whole
    <3>3. ASSUME NEW j \in 1..l
          PROVE  Before(rel[j].frame, s[k]) /\ rel[j].frame.nr # s[k].nr
      <4>1. Timed(rel[j].frame) /\ rel[j].frame.at <= last
        BY DEF Left, l
      <4>2. rel[j].frame.nr # s[k].nr
        BY <3>1 DEF Apart, l
      <4> QED BY <2>1, <3>2, <4>1, <4>2 DEF Before, Timed
    <3> QED BY <2>1, <3>2, <3>3 DEF Timed
  <2>3. CASE New(s[k], b, t, now)
    <3>1. ASSUME NEW j \in 1..l
          PROVE  Before(rel[j].frame, s[k]) /\ rel[j].frame.nr # s[k].nr
      <4>1. Timed(rel[j].frame) /\ rel[j].frame.at <= last /\ rel[j].frame.nr \in 1..b.produced
        BY DEF Left, l
      <4> QED BY <1>3, <2>1, <2>3, <4>1, SMTT(60) DEF Before, Timed, New
    <3> QED BY <2>1, <2>3, <3>1 DEF New
  <2> QED BY <1>1, <2>1, <2>2, <2>3
<1>7. Queue(q, now, t.produced, t.made)
  <2>1. ASSUME NEW k \in 1..Len(q)
        PROVE  /\ due + k \in 1..Len(s) /\ q[k] = s[due + k] /\ q[k].at > now /\ Timed(q[k])
               /\ q[k].nr \in 1..t.produced /\ q[k].of = t.made[q[k].nr].of
    <3>1. k \in 1..(Len(s) - due) /\ due + k \in 1..Len(s)
      BY <1>2, <1>3
    <3> QED BY <1>1, <1>2, <3>1 DEF InTurn
  <2>2. ASSUME NEW j \in 1..Len(q), NEW k \in 1..Len(q)
        PROVE  (j < k => Before(q[j], q[k])) /\ (q[j].nr = q[k].nr => j = k)
    <3>1. due + j \in 1..Len(s) /\ due + k \in 1..Len(s) /\ q[j] = s[due + j] /\ q[k] = s[due + k]
      BY <2>1
    <3>2. (j < k => due + j < due + k) /\ (due + j = due + k => j = k)
      BY <1>2, <1>3
    <3> QED BY <1>1, <3>1, <3>2 DEF InTurn
  <2> QED BY <1>2, <2>1, <2>2 DEF Queue, InTurn
<1>8. ASSUME NEW k \in 1..Len(r)
      PROVE  \/ k \in 1..l /\ r[k] = rel[k]
             \/ k - l \in 1..due /\ r[k] = new[k - l] /\ r[k].frame = s[k - l]
  <2>1. CASE k <= l
    BY <1>3, <1>5, <2>1
  <2>2. CASE k > l
    <3>1. k - l \in 1..due /\ l + (k - l) = k
      BY <1>2, <1>3, <1>5, <2>2
    <3> QED BY <1>4, <1>5, <3>1
  <2> QED BY <1>3, <2>1, <2>2
<1>9. ASSUME NEW j \in 1..Len(r), NEW k \in 1..Len(r), j < k
      PROVE  Before(r[j].frame, r[k].frame) /\ r[j].frame.nr # r[k].frame.nr
  <2>1. CASE k \in 1..l /\ r[k] = rel[k]
    <3>1. j \in 1..l /\ k \in 1..l
      BY <1>3, <1>5, <1>9, <2>1
    <3>2. r[j] = rel[j] /\ r[k] = rel[k]
      BY <1>5, <3>1
    <3>3. Before(rel[j].frame, rel[k].frame)
      BY <1>9, <3>1 DEF Left, l
    <3>4. rel[j].frame.nr = rel[k].frame.nr => j = k
      BY <3>1 DEF Left, l
    <3> QED BY <1>9, <3>2, <3>3, <3>4
  <2>2. CASE k - l \in 1..due /\ r[k].frame = s[k - l]
    <3>1. CASE j \in 1..l /\ r[j] = rel[j]
      <4> DEFINE x == k - l
      <4>1. x \in 1..due /\ r[k].frame = s[x]
        BY <2>2
      <4> HIDE DEF x
      <4>2. Before(rel[j].frame, s[x]) /\ rel[j].frame.nr # s[x].nr
        BY <1>6, <3>1, <4>1
      <4> QED BY <3>1, <4>1, <4>2
    <3>2. CASE j - l \in 1..due /\ r[j].frame = s[j - l]
      <4>1. j - l \in 1..Len(s) /\ k - l \in 1..Len(s) /\ j - l < k - l
        BY <1>2, <1>3, <1>9, <2>2, <3>2
      <4>2. Before(s[j - l], s[k - l])
        BY <1>1, <4>1 DEF InTurn
      <4>3. s[j - l].nr # s[k - l].nr
        <5> DEFINE x == j - l
                   y == k - l
        <5>1. x \in 1..Len(s) /\ y \in 1..Len(s) /\ x # y
          BY <4>1
        <5> HIDE DEF x, y
        <5>2. s[x].nr # s[y].nr
          BY <1>1, <5>1
        <5> QED BY <5>2 DEF x, y
      <4> QED BY <2>2, <3>2, <4>2, <4>3
    <3> QED BY <1>8, <3>1, <3>2
  <2> QED BY <1>8, <2>1, <2>2
<1>10. ASSUME NEW k \in 1..Len(r)
       PROVE  /\ Timed(r[k].frame) /\ r[k].frame.nr \in 1..t.produced
              /\ r[k].frame.at <= now /\ LeftWell(r[k], t.made)
  <2>1. CASE k \in 1..l /\ r[k] = rel[k]
    <3>1. /\ Timed(rel[k].frame) /\ rel[k].frame.nr \in 1..b.produced
          /\ rel[k].frame.at <= last /\ LeftWell(rel[k], b.made)
      BY <2>1 DEF Left, l
    <3>2. t.made[rel[k].frame.nr] = b.made[rel[k].frame.nr]
      BY <1>3, <3>1
    <3> QED BY <1>3, <2>1, <3>1, <3>2 DEF LeftWell, Timed
  <2>2. CASE k - l \in 1..due /\ r[k] = new[k - l] /\ r[k].frame = s[k - l]
    <3>1. r[k].time = now /\ r[k].before = before
      BY <1>4, <2>2
    <3> QED BY <1>6, <2>2, <3>1 DEF LeftWell
  <2> QED BY <1>8, <2>1, <2>2
<1>11. Left(r, now, t.produced, t.made)
  <2>1. ASSUME NEW j \in 1..Len(r), NEW k \in 1..Len(r), r[j].frame.nr = r[k].frame.nr
        PROVE  j = k
    <3>1. ~(j < k) /\ ~(k < j)
      BY <1>9, <2>1
    <3> QED BY <3>1
  <2> QED BY <1>5, <1>9, <1>10, <2>1 DEF Left
<1>12. Apart(r, q)
  <2> SUFFICES ASSUME NEW j \in 1..Len(r), NEW k \in 1..Len(q)
               PROVE  r[j].frame.nr # q[k].nr
    BY DEF Apart
  <2>1. due + k \in 1..Len(s) /\ q[k] = s[due + k]
    <3>1. k \in 1..(Len(s) - due)
      BY <1>2
    <3> QED BY <1>2, <1>3, <3>1
  <2>2. CASE j \in 1..l /\ r[j] = rel[j]
    <3>1. /\ Timed(rel[j].frame) /\ rel[j].frame.nr \in 1..b.produced
          /\ \A x \in 1..Len(b.pending) : rel[j].frame.nr # b.pending[x].nr
      BY <2>2 DEF Left, Apart, l
    <3>2. Old(s[due + k], b) \/ s[due + k].nr > b.produced
      BY <1>1, <2>1 DEF New
    <3> QED BY <1>3, <2>1, <2>2, <3>1, <3>2, SMTT(60) DEF Old
  <2>3. CASE j - l \in 1..due /\ r[j].frame = s[j - l]
    <3>1. j - l \in 1..Len(s) /\ j - l # due + k
      BY <1>2, <1>3, <2>3
    <3> QED BY <1>1, <2>1, <2>3, <3>1
  <2> QED BY <1>8, <2>2, <2>3
<1>13. Len(r) + Len(q) = Len(rel) + Len(t.pending)
  <2>1. Len(r) = Len(rel) + due /\ Len(q) = Len(t.pending) - due /\ Len(t.pending) = Len(s)
    BY <1>1, <1>2, <1>5 DEF l
  <2>2. Len(rel) \in Nat /\ Len(s) \in Nat /\ due \in Nat
    BY <1>2, <1>3 DEF l
  <2> QED BY <2>1, <2>2
<1> QED BY <1>7, <1>11, <1>12, <1>13 DEF ReleasedAsItShould, s, due, q, o, new, r

-----------------------------------------------------------------------------
(* The inductive invariant: what waits and what has left, as above, and    *)
(* the dropped frames are those that neither wait nor have left.           *)
WatchMembers == {"now", "first", "released", "dropped", "fine", "steps", "commands"}
SimWhole ==
  /\ Whole(sim) /\ PlantOK(sim.plant) /\ sim.drive \in 0..Len(Drive)
  /\ sim.started \in BOOLEAN /\ sim.last \in Int
WatchWhole ==
  /\ DOMAIN watch = WatchMembers
  /\ watch.now \in Nat /\ watch.first \in Nat /\ watch.dropped \in Nat
Clocks ==
  /\ sim.last <= watch.now /\ (sim.started => sim.last = watch.now)
  /\ ~sim.started => Len(sim.pending) = 0
Flow ==
  /\ Queue(sim.pending, sim.last, sim.produced, sim.made)
  /\ Left(watch.released, sim.last, sim.produced, sim.made)
  /\ Apart(watch.released, sim.pending)
Balance ==
  sim.faults.dropped - watch.dropped
    = sim.produced - (Len(watch.released) + Len(sim.pending))
PlantTime ==
  HasPlant => Gone(sim.plant) = IF sim.started THEN watch.now - watch.first ELSE 0
Driver ==
  /\ sim.drive = IF sim.started THEN Reached(SortedDrive, sim.last) ELSE 0
  /\ HasPlant => sim.plant = watch.fine
SimInv ==
  /\ SimWhole /\ WatchWhole /\ Clocks /\ Flow /\ Balance /\ PlantTime /\ Driver
  /\ Rhythm(sim, sim.last) /\ Sequence(sim)

LEMMA EmptyFlow ==
  /\ IsSequence(<<>>) /\ Len(<<>>) = 0
  /\ \A last, produced, made : Queue(<<>>, last, produced, made)
  /\ \A last, produced, made : Left(<<>>, last, produced, made)
  /\ Apart(<<>>, <<>>)
<1>1. <<>> \in Seq({}) /\ Len(<<>>) = 0
  OBVIOUS
<1>2. IsSequence(<<>>)
  BY <1>1 DEF IsSequence
<1> QED BY <1>1, <1>2 DEF Queue, InTurn, Left, Apart

LEMMA FreshFaultsOK == FaultsOK(FaultInit)
BY DEF FaultsOK, FaultInit, FaultMembers

LEMMA FreshRuntimeOK ==
  ASSUME NEW i \in DOMAIN TxList
  PROVE  Runtime(FreshRuntime(i, 0)) /\ FreshRuntime(i, 0).due = TxList[i].phase
         /\ FreshRuntime(i, 0).counter = 0 /\ FreshRuntime(i, 0).last = NoFrame
BY TransmissionsAreKnown DEF TransmissionsAreKnown, Runtime, FreshRuntime

LEMMA FreshEcusOK == EcusOK(EcuInit)
BY FreshRuntimeOK, FreshWalksOK DEF EcusOK, EcuInit

(* Reset starts every walk afresh that a message samples; the others have  *)
(* never gone anywhere.                                                    *)
LEMMA ResetEcusAreFresh ==
  ASSUME NEW ecus, EcusOK(ecus)
  PROVE  [EcuReset(ecus, 0) EXCEPT !.running = [n \in DOMAIN @ |-> TRUE]] = EcuInit
<1> DEFINE e == EcuReset(ecus, 0)
           r == [e EXCEPT !.running = [n \in DOMAIN @ |-> TRUE]]
           walks == [w \in Walks |-> IF \E s \in UNION {SourcesOf(i) : i \in DOMAIN TxList} :
                                          w \in WalksOf[s]
                                     THEN FreshWalk(w) ELSE ecus.walks[w]]
           tx == [i \in DOMAIN TxList |-> FreshRuntime(i, 0)]
           zeros == [n \in Nodes |-> 0]
<1>1. walks = FreshWalks
  <2>1. ASSUME NEW w \in Walks PROVE walks[w] = FreshWalk(w)
    <3>1. CASE \E s \in UNION {SourcesOf(i) : i \in DOMAIN TxList} : w \in WalksOf[s]
      BY <3>1
    <3>2. CASE ~\E s \in UNION {SourcesOf(i) : i \in DOMAIN TxList} : w \in WalksOf[s]
      <4>1. w \notin Sampled
        BY <3>2 DEF Sampled
      <4> QED BY <3>2, <4>1 DEF EcusOK, WalksOK
    <3> QED BY <3>1, <3>2
  <2> HIDE DEF walks
  <2>2. DOMAIN walks = Walks /\ walks = [w \in Walks |-> walks[w]]
    BY DEF walks
  <2> QED BY <2>1, <2>2 DEF FreshWalks
<1>2. e = [ecus EXCEPT !.jitter = zeros, !.tx = tx, !.walks = walks]
  BY DEF EcuReset, EcusOK, WalksOK
<1> HIDE DEF walks, tx, zeros, e
<1>3. /\ DOMAIN e = {"tx", "running", "jitter", "walks"} /\ e.tx = tx /\ e.jitter = zeros
      /\ e.walks = walks /\ e.running = ecus.running /\ DOMAIN ecus.running = Nodes
  BY <1>2 DEF EcusOK
<1> DEFINE on == [n \in Nodes |-> TRUE]
<1>4. r = [e EXCEPT !.running = on]
  BY <1>3
<1> HIDE DEF on, r
<1>5. /\ DOMAIN r = {"tx", "running", "jitter", "walks"} /\ r.tx = tx /\ r.jitter = zeros
      /\ r.walks = FreshWalks /\ r.running = on
  BY <1>1, <1>3, <1>4
<1>6. r = [x \in DOMAIN r |-> r[x]]
  BY <1>3, <1>4
<1>7. /\ DOMAIN EcuInit = {"tx", "running", "jitter", "walks"} /\ EcuInit.tx = tx
      /\ EcuInit.jitter = zeros /\ EcuInit.walks = FreshWalks /\ EcuInit.running = on
      /\ EcuInit = [x \in DOMAIN EcuInit |-> EcuInit[x]]
  BY DEF EcuInit, tx, zeros, on
<1>8. r = EcuInit
  BY <1>5, <1>6, <1>7
<1> QED BY <1>8 DEF r, e

LEMMA FreshRhythm ==
  ASSUME NEW s, s.ecus = EcuInit, s.produced = 0
  PROVE  Rhythm(s, 0)
<1> SUFFICES ASSUME NEW i \in DOMAIN TxList
             PROVE  /\ s.ecus.tx[i].due <= 0 + Slack(i)
                    /\ Spaced(i, s.made, 0, s.ecus.tx[i].due)
  BY DEF Rhythm
<1>1. s.ecus.tx[i].due = TxList[i].phase
  BY FreshRuntimeOK DEF EcuInit
<1>2. TxList[i].phase <= 0 + Slack(i)
  BY TransmissionsAreKnown DEF TransmissionsAreKnown, Slack, Greatest
<1>3. Spaced(i, s.made, 0, s.ecus.tx[i].due)
  BY DEF Spaced
<1> QED BY <1>1, <1>2, <1>3

LEMMA FreshSequence ==
  ASSUME NEW s, s.ecus = EcuInit, s.produced = 0
  PROVE  Sequence(s)
<1> SUFFICES ASSUME NEW i \in DOMAIN TxList
             PROVE  Numbered(i, s.made, 0, s.ecus.tx[i])
  BY DEF Sequence
<1>1. s.ecus.tx[i].counter = 0 /\ s.ecus.tx[i].last = NoFrame
  BY FreshRuntimeOK DEF EcuInit
<1>2. Between(s.made, i, 0, 0 + 1) = 0
  <2>1. {nr \in (0 + 1)..((0 + 1) - 1) : s.made[nr].of = i} = {}
    OBVIOUS
  <2> QED BY <2>1, FS_EmptySet DEF Between
<1> QED BY <1>1, <1>2 DEF Numbered, Remembers

LEMMA SimInit_Inv == Init => SimInv
<1> SUFFICES ASSUME Init PROVE SimInv
  OBVIOUS
<1>1. sim = FreshSim /\ watch = FreshWatch
  BY DEF Init, SimInit
<1>2. /\ sim.pending = <<>> /\ sim.drive = 0 /\ sim.produced = 0 /\ sim.last = 0
      /\ sim.started = FALSE /\ sim.plant = FreshPlant /\ sim.ecus = EcuInit
      /\ sim.faults = FaultInit /\ sim.made = <<>> /\ DOMAIN sim = SimMembers
  BY <1>1 DEF FreshSim, SimMembers
<1>3. /\ DOMAIN watch = WatchMembers /\ watch.now = 0 /\ watch.released = <<>>
      /\ watch.dropped = 0 /\ watch.first = 0 /\ watch.fine = FreshPlant
  BY <1>1 DEF FreshWatch, WatchMembers
<1>4. sim.faults.dropped = 0
  BY <1>2 DEF FaultInit
<1>5. Len(Drive) \in Nat
  BY SimulationIsBuilt DEF SimulationIsBuilt
<1>6. SimWhole
  <2>1. IsSequence(sim.pending) /\ IsSequence(sim.made) /\ Len(sim.made) = 0
    BY <1>2, EmptyFlow
  <2>2. Whole(sim)
    BY <1>2, <2>1, FreshFaultsOK, FreshEcusOK DEF Whole
  <2>3. PlantOK(sim.plant)
    BY <1>2, FreshPlantOK
  <2>4. sim.drive \in 0..Len(Drive) /\ sim.last \in Int
    <3>1. sim.drive = 0 /\ sim.last = 0
      BY <1>2
    <3> QED BY <1>5, <3>1
  <2>5. sim.started \in BOOLEAN
    BY <1>2
  <2> QED BY <2>2, <2>3, <2>4, <2>5 DEF SimWhole
<1>7. Flow
  BY <1>2, <1>3, EmptyFlow DEF Flow
<1>8. Len(sim.pending) = 0 /\ Len(watch.released) = 0
  BY <1>2, <1>3, EmptyFlow
<1>9. WatchWhole /\ Clocks
  BY <1>2, <1>3, <1>8 DEF WatchWhole, Clocks
<1>10. Balance
  <2>1. sim.produced = 0 /\ watch.dropped = 0
    BY <1>2, <1>3
  <2> QED BY <1>4, <1>8, <2>1 DEF Balance
<1>11. Rhythm(sim, sim.last) /\ Sequence(sim)
  BY <1>2, FreshRhythm, FreshSequence
<1>12. PlantTime /\ Driver
  BY <1>2, <1>3, FreshPlantTime DEF PlantTime, Driver
<1> QED BY <1>6, <1>7, <1>9, <1>10, <1>11, <1>12 DEF SimInv

(* A step of the simulation: b is the simulation before its messages, t    *)
(* with them, and what is due is taken off the sorted queue.               *)
(* What a step makes: t, out of b which it begins with, and then released. *)
StepMakes(b, t, now) ==
  /\ Whole(b) /\ Gathered(t, b, now) /\ Rhythm(t, now) /\ Sequence(t)
  /\ Ice(t, b)
  /\ b.pending = sim.pending /\ b.produced = sim.produced /\ b.made = sim.made
  /\ b.faults = sim.faults /\ b.last = now /\ b.started = TRUE
  /\ PlantOK(b.plant) /\ b.drive \in 0..Len(Drive)
  /\ HasPlant => Gone(b.plant) = Gone(sim.plant)
                                  + (IF sim.started THEN now - sim.last ELSE 0)
  /\ b.drive = ApplyDrive(now).next
  /\ HasPlant => b.plant = MomentByMoment(ApplyDrive(now).plant,
                                          IF sim.started THEN now - sim.last ELSE 0)
  /\ LET s == InOrderOfTime(t.pending)
         due == Reached(s, now)
     IN  /\ sim' = [t EXCEPT !.pending = SubSeq(s, due + 1, Len(s))]
         /\ out' = SubSeq(s, 1, due)

LEMMA StepIs ==
  ASSUME SimWhole, Rhythm(sim, sim.last), Sequence(sim), NEW now \in Nat, sim.last <= now, Step(now)
  PROVE  \E b, t : StepMakes(b, t, now)
<1> DEFINE since == IF sim.started THEN sim.last ELSE now
           dt == Greatest(0, now - since)
           driven == ApplyDrive(now)
           plant == IF HasPlant /\ dt # 0 THEN StepPlant(driven.plant, dt) ELSE driven.plant
           b == [sim EXCEPT !.started = TRUE, !.last = now, !.drive = driven.next, !.plant = plant]
           t == AllProduced(b, plant, now)
           s == InOrderOfTime(t.pending)
           due == Reached(s, now)
<1>1. /\ PlantOK(driven.plant) /\ driven.next \in 0..Len(Drive)
      /\ Gone(driven.plant) = Gone(sim.plant)
  BY ApplyDriveOK DEF SimWhole, SameTime, Gone
<1>2. dt \in Nat /\ dt = IF sim.started THEN now - sim.last ELSE 0
  BY DEF SimWhole, Greatest
<1>3. /\ sim' = [t EXCEPT !.pending = SubSeq(s, due + 1, Len(s))]
      /\ out' = SubSeq(s, 1, due)
  BY DEF Step
<1> HIDE DEF driven, dt
<1>4. PlantOK(plant) /\ (HasPlant => Gone(plant) = Gone(sim.plant) + dt)
  <2>1. CASE HasPlant /\ dt # 0
    BY <1>1, <1>2, <2>1, StepPlantOK
  <2>2. CASE ~(HasPlant /\ dt # 0)
    <3>1. plant = driven.plant
      BY <2>2
    <3>2. Gone(sim.plant) \in Int
      BY GoneIs DEF SimWhole
    <3> HIDE DEF plant
    <3> QED BY <1>1, <2>2, <3>1, <3>2
  <2> QED BY <2>1, <2>2
<1> HIDE DEF plant
<1>5. /\ DOMAIN b = DOMAIN sim /\ b.pending = sim.pending /\ b.produced = sim.produced
      /\ b.made = sim.made /\ b.faults = sim.faults /\ b.ecus = sim.ecus /\ b.last = now
      /\ b.started = TRUE /\ b.plant = plant /\ b.drive = driven.next
  BY DEF SimWhole, Whole, SimMembers
<1> HIDE DEF b
<1>6. Whole(b)
  BY <1>5 DEF SimWhole, Whole
<1>7. /\ Gathered(t, b, now) /\ Rhythm(t, now) /\ Sequence(t)
      /\ Ice(t, b)
  <2>1. Rhythm(b, now)
    BY <1>5, RhythmLasts DEF SimWhole
  <2>2. Sequence(b)
    BY <1>5, SequenceLasts DEF SameCount
  <2> QED BY <1>6, <2>1, <2>2, ProducedIs
<1> HIDE DEF t
<1>8. HasPlant => Gone(b.plant) = Gone(sim.plant) + (IF sim.started THEN now - sim.last ELSE 0)
  BY <1>2, <1>4, <1>5
<1>9. HasPlant => plant = MomentByMoment(driven.plant, dt)
  BY <1>1, <1>2, StepIsItsMoments DEF plant
<1>10. /\ b.drive = ApplyDrive(now).next
       /\ HasPlant => b.plant = MomentByMoment(ApplyDrive(now).plant,
                                               IF sim.started THEN now - sim.last ELSE 0)
  BY <1>2, <1>5, <1>9 DEF driven
<1>11. StepMakes(b, t, now)
  BY <1>1, <1>3, <1>4, <1>5, <1>6, <1>7, <1>8, <1>10 DEF StepMakes
<1> QED BY <1>11

LEMMA StepBy_Inv ==
  ASSUME SimInv, NEW pace \in Paces, StepBy(pace)
  PROVE  SimInv' /\ sim'.started
<1> DEFINE now == IF sim.started THEN watch.now + pace ELSE watch.now
           before == IF sim.started THEN watch.now ELSE -1
           rel == watch.released
           new == JustReleased(out', now, before)
           fine == MomentByMoment(Folded(Driven, watch.fine, EventsBetween(before, now)),
                                  IF sim.started THEN pace ELSE 0)
<1>1. pace \in Nat
  BY WatchBounds DEF WatchBounds
<1>2. now \in Nat /\ sim.last <= now /\ sim.last \in Int /\ now \in Int
  BY <1>1 DEF SimInv, SimWhole, WatchWhole, Clocks
<1>3. Len(sim.pending) = 0 \/ before = sim.last
  BY DEF SimInv, SimWhole, Clocks
<1>4. /\ Step(now)
      /\ watch' = [watch EXCEPT !.now = now, !.steps = @ + 1,
                     !.first = IF sim.started THEN @ ELSE now, !.fine = fine,
                     !.released = @ \o new]
  BY Zenon DEF StepBy, JustReleased
<1>20. fine = MomentByMoment(Folded(Driven, watch.fine, EventsBetween(before, now)),
                             IF sim.started THEN now - sim.last ELSE 0)
  <2>1. sim.started => pace = now - sim.last
    BY <1>1 DEF SimInv, WatchWhole, Clocks
  <2> HIDE DEF now, before
  <2> QED BY <2>1
<1>21. Reached(SortedDrive, before) = sim.drive /\ Reached(SortedDrive, now) = ApplyDrive(now).next
  <2>1. Reached(SortedDrive, before) = sim.drive
    BY DriveIsReached DEF SimInv, Driver, Clocks
  <2>2. before \in Int /\ before <= now
    BY <1>1 DEF SimInv, WatchWhole
  <2> HIDE DEF now, before
  <2>3. Reached(SortedDrive, before) <= Reached(SortedDrive, now)
        /\ Reached(SortedDrive, before) \in Nat /\ Reached(SortedDrive, now) \in Nat
    BY <1>2, <2>2, DriveIsReached
  <2> QED BY <2>1, <2>3 DEF ApplyDrive, Greatest
<1>22. HasPlant =>
         Folded(Driven, watch.fine, EventsBetween(before, now)) = ApplyDrive(now).plant
  <2> HIDE DEF now, before
  <2> QED BY <1>21 DEF SimInv, Driver, EventsBetween, ApplyDrive
<1> HIDE DEF now, before, fine
<1>0. PICK b, t : StepMakes(b, t, now)
  BY <1>2, <1>4, StepIs DEF SimInv
<1>5. /\ Whole(b) /\ Gathered(t, b, now) /\ Rhythm(t, now) /\ Sequence(t)
      /\ Ice(t, b)
      /\ b.pending = sim.pending /\ b.produced = sim.produced /\ b.made = sim.made
      /\ b.faults = sim.faults /\ b.last = now /\ b.started = TRUE
      /\ PlantOK(b.plant) /\ b.drive \in 0..Len(Drive)
      /\ HasPlant => Gone(b.plant) = Gone(sim.plant)
                                      + (IF sim.started THEN now - sim.last ELSE 0)
      /\ b.drive = ApplyDrive(now).next
      /\ HasPlant => b.plant = MomentByMoment(ApplyDrive(now).plant,
                                              IF sim.started THEN now - sim.last ELSE 0)
      /\ LET s == InOrderOfTime(t.pending)
             due == Reached(s, now)
         IN  /\ sim' = [t EXCEPT !.pending = SubSeq(s, due + 1, Len(s))]
             /\ out' = SubSeq(s, 1, due)
  BY <1>0 DEF StepMakes
<1> DEFINE s == InOrderOfTime(t.pending)
           due == Reached(s, now)
           q == SubSeq(s, due + 1, Len(s))
           r == rel \o new
<1>6. /\ Queue(b.pending, sim.last, b.produced, b.made) /\ Left(rel, sim.last, b.produced, b.made)
      /\ Apart(rel, b.pending) /\ (Len(b.pending) = 0 \/ before = sim.last)
  BY <1>3, <1>5 DEF SimInv, Flow
<1>7. /\ Queue(q, now, t.produced, t.made) /\ Left(r, now, t.produced, t.made) /\ Apart(r, q)
      /\ Len(r) + Len(q) = Len(rel) + Len(t.pending)
  <2>1. out' = SubSeq(s, 1, due)
    BY <1>5
  <2>2. ReleasedAsItShould(t, now, rel, before)
    <3> HIDE DEF rel
    <3>1. Whole(b) /\ Gathered(t, b, now)
      BY <1>5
    <3> QED BY <1>2, <1>6, <3>1, ReleasedWell
  <2> QED BY <2>1, <2>2 DEF ReleasedAsItShould
<1>8. sim' = [t EXCEPT !.pending = q]
  BY <1>5
<1>9. Whole(t) /\ Added(t, b, now) /\ DOMAIN t = SimMembers
  BY <1>5 DEF Gathered, Whole
<1> HIDE DEF q, r, new, s, due
<1>10. /\ DOMAIN sim' = DOMAIN t /\ sim'.pending = q /\ sim'.produced = t.produced
       /\ sim'.made = t.made /\ sim'.faults = t.faults /\ sim'.ecus = t.ecus
       /\ sim'.last = t.last /\ sim'.started = t.started /\ sim'.plant = t.plant
       /\ sim'.drive = t.drive
  BY <1>8, <1>9 DEF SimMembers
<1>11. t.drive = b.drive /\ t.last = now /\ t.started = TRUE /\ t.plant = b.plant
  BY <1>5 DEF Gathered
<1>12. /\ DOMAIN watch' = WatchMembers /\ watch'.now = now /\ watch'.released = r
       /\ watch'.dropped = watch.dropped
       /\ watch'.first = (IF sim.started THEN watch.first ELSE now) /\ watch'.fine = fine
  BY <1>4 DEF SimInv, WatchWhole, WatchMembers, r
<1>13. SimWhole'
  <2>1. Whole(sim')
    BY <1>7, <1>9, <1>10 DEF Whole, Queue, InTurn
  <2> QED BY <1>2, <1>5, <1>10, <1>11, <2>1 DEF SimWhole
<1>14. WatchWhole'
  BY <1>2, <1>12 DEF SimInv, WatchWhole
<1>15. Clocks'
  BY <1>2, <1>10, <1>11, <1>12 DEF Clocks
<1>16. Flow'
  BY <1>7, <1>10, <1>11, <1>12 DEF Flow
<1>17. Balance'
  <2>1. t.faults.dropped - b.faults.dropped
          = (t.produced - b.produced) - (Len(t.pending) - Len(b.pending))
    BY <1>9 DEF Added, AddedUpTo
  <2>2. b.faults.dropped - watch.dropped = b.produced - (Len(rel) + Len(b.pending))
    BY <1>5 DEF SimInv, Balance
  <2>3. /\ t.faults.dropped \in Nat /\ b.faults.dropped \in Nat /\ watch.dropped \in Nat
        /\ t.produced \in Nat /\ b.produced \in Nat
        /\ Len(t.pending) \in Nat /\ Len(b.pending) \in Nat
    BY <1>5, <1>9, SequenceHasALength DEF SimInv, WatchWhole, Whole, FaultsOK
  <2>4. Len(rel) \in Nat /\ Len(r) \in Nat /\ Len(q) \in Nat
    BY <1>6, <1>7, SequenceHasALength DEF Left, Queue, InTurn
  <2>5. Len(r) + Len(q) = Len(rel) + Len(t.pending)
    BY <1>7
  <2>6. t.faults.dropped - watch.dropped = t.produced - (Len(r) + Len(q))
    <3> DEFINE dt == t.faults.dropped
               db == b.faults.dropped
               dw == watch.dropped
               pt == t.produced
               pb == b.produced
               nt == Len(t.pending)
               nb == Len(b.pending)
               x == Len(rel)
               y == Len(r)
               z == Len(q)
    <3>1. /\ dt - db = (pt - pb) - (nt - nb) /\ db - dw = pb - (x + nb) /\ y + z = x + nt
      BY <2>1, <2>2, <2>5
    <3>2. dt \in Nat /\ db \in Nat /\ dw \in Nat /\ pt \in Nat /\ pb \in Nat /\ nt \in Nat
          /\ nb \in Nat /\ x \in Nat /\ y \in Nat /\ z \in Nat
      BY <2>3, <2>4
    <3>3. dt - dw = pt - (y + z)
      <4> HIDE DEF dt, db, dw, pt, pb, nt, nb, x, y, z
      <4> QED BY <3>1, <3>2
    <3> QED BY <3>3
  <2> QED BY <1>10, <1>12, <2>6 DEF Balance
<1>18. Rhythm(sim', sim'.last) /\ Sequence(sim')
  <2>1. Rhythm(t, now) /\ Sequence(t)
    BY <1>5
  <2>2. Rhythm(sim', sim'.last)
    BY <1>2, <1>9, <1>10, <1>11, <2>1, RhythmLasts
  <2>3. Sequence(sim')
    BY <1>10, <2>1, SequenceLasts DEF SameCount
  <2> QED BY <2>2, <2>3
<1>19. PlantTime'
  <2> SUFFICES ASSUME HasPlant PROVE Gone(b.plant) = now - watch'.first
    BY <1>10, <1>11, <1>12 DEF PlantTime
  <2>1. Gone(b.plant) = Gone(sim.plant) + (IF sim.started THEN now - sim.last ELSE 0)
    BY <1>5
  <2>2. /\ Gone(sim.plant) = IF sim.started THEN watch.now - watch.first ELSE 0
        /\ watch.now \in Nat /\ watch.first \in Nat /\ (sim.started => sim.last = watch.now)
    BY DEF SimInv, PlantTime, WatchWhole, Clocks
  <2>3. CASE sim.started
    BY <1>2, <1>12, <2>1, <2>2, <2>3
  <2>4. CASE ~sim.started
    BY <1>2, <1>12, <2>1, <2>2, <2>4
  <2> QED BY <2>3, <2>4
<1>23. Driver'
  <2>1. HasPlant => sim'.plant = watch'.fine
    BY <1>5, <1>10, <1>11, <1>12, <1>20, <1>22
  <2>2. sim'.drive = Reached(SortedDrive, sim'.last) /\ sim'.started
    BY <1>5, <1>10, <1>11, <1>21
  <2> QED BY <2>1, <2>2 DEF Driver, SortedDrive
<1> QED BY <1>10, <1>11, <1>13, <1>14, <1>15, <1>16, <1>17, <1>18, <1>19, <1>23 DEF SimInv

(* A reset empties everything; what had been dropped is the new start.     *)
LEMMA Restart_Inv ==
  ASSUME SimInv, Restart(0)
  PROVE  SimInv'
<1> DEFINE ecus == [EcuReset(sim.ecus, 0) EXCEPT !.running = [n \in DOMAIN @ |-> TRUE]]
           plant == IF HasPlant THEN FreshPlant ELSE sim.plant
           faults == FaultReset(sim.faults)
<1>1. sim' = [FreshSim EXCEPT !.ecus = ecus, !.plant = IF HasPlant THEN @ ELSE sim.plant,
                              !.faults = faults]
  BY DEF Restart, Reset
<1>2. watch' = [FreshWatch EXCEPT !.now = 0, !.dropped = sim.faults.dropped,
                                  !.steps = watch.steps, !.commands = watch.commands + 1]
  BY DEF Restart
<1>3. ecus = EcuInit /\ EcusOK(ecus)
  BY ResetEcusAreFresh, FreshEcusOK DEF SimInv, SimWhole, Whole
<1>4. FaultsOK(faults) /\ faults.dropped = sim.faults.dropped
  BY DEF FaultsOK, FaultReset, FaultMembers, SimInv, SimWhole, Whole
<1>5. PlantOK(plant)
  BY FreshPlantOK DEF SimInv, SimWhole
<1>6. /\ sim'.pending = <<>> /\ sim'.drive = 0 /\ sim'.produced = 0 /\ sim'.last = 0
      /\ sim'.started = FALSE /\ sim'.plant = plant /\ sim'.ecus = ecus
      /\ sim'.faults = faults /\ sim'.made = <<>> /\ DOMAIN sim' = SimMembers
  <2> HIDE DEF ecus, faults
  <2> QED BY <1>1 DEF FreshSim, SimMembers
<1>7. /\ DOMAIN watch' = WatchMembers /\ watch'.now = 0 /\ watch'.released = <<>>
      /\ watch'.dropped = sim.faults.dropped /\ watch'.first = 0 /\ watch'.fine = FreshPlant
  BY <1>2 DEF FreshWatch, WatchMembers
<1>16. PlantTime' /\ Driver'
  BY <1>6, <1>7, FreshPlantTime DEF PlantTime, Driver
<1> HIDE DEF ecus, plant, faults
<1>8. Len(Drive) \in Nat
  BY SimulationIsBuilt DEF SimulationIsBuilt
<1>9. SimWhole'
  <2>1. IsSequence(sim'.pending) /\ IsSequence(sim'.made) /\ Len(sim'.made) = 0
    BY <1>6, EmptyFlow
  <2>2. Whole(sim')
    BY <1>3, <1>4, <1>6, <2>1 DEF Whole
  <2>3. PlantOK(sim'.plant)
    BY <1>5, <1>6
  <2>4. sim'.drive \in 0..Len(Drive) /\ sim'.last \in Int
    <3>1. sim'.drive = 0 /\ sim'.last = 0
      BY <1>6
    <3> QED BY <1>8, <3>1
  <2>5. sim'.started \in BOOLEAN
    BY <1>6
  <2> QED BY <2>2, <2>3, <2>4, <2>5 DEF SimWhole
<1>10. Flow'
  BY <1>6, <1>7, EmptyFlow DEF Flow
<1>11. Len(sim'.pending) = 0 /\ Len(watch'.released) = 0
  BY <1>6, <1>7, EmptyFlow
<1>12. sim.faults.dropped \in Nat
  BY DEF SimInv, SimWhole, Whole, FaultsOK
<1>13. WatchWhole' /\ Clocks'
  BY <1>6, <1>7, <1>11, <1>12 DEF WatchWhole, Clocks
<1>14. Balance'
  <2>1. /\ sim'.produced = 0 /\ watch'.dropped = sim.faults.dropped
        /\ sim'.faults.dropped = sim.faults.dropped
    BY <1>4, <1>6, <1>7
  <2> QED BY <1>11, <1>12, <2>1 DEF Balance
<1>15. Rhythm(sim', sim'.last) /\ Sequence(sim')
  <2>1. sim'.ecus = EcuInit
    BY <1>3, <1>6
  <2> QED BY <1>6, <2>1, FreshRhythm, FreshSequence
<1> QED BY <1>9, <1>10, <1>13, <1>14, <1>15, <1>16 DEF SimInv

(* A command changes the switches, and nothing of what flows.              *)
LEMMA Command_Inv ==
  ASSUME SimInv, DOMAIN sim' = DOMAIN sim, EcusOK(sim'.ecus), FaultsOK(sim'.faults),
         \A i \in DOMAIN TxList : SameCount(sim'.ecus.tx[i], sim.ecus.tx[i]),
         sim'.faults.dropped = sim.faults.dropped,
         sim'.pending = sim.pending, sim'.produced = sim.produced, sim'.made = sim.made,
         sim'.last = sim.last, sim'.started = sim.started, sim'.plant = sim.plant,
         sim'.drive = sim.drive,
         watch' = [watch EXCEPT !.commands = @ + 1]
  PROVE  SimInv'
<1>1. /\ DOMAIN watch' = DOMAIN watch /\ watch'.now = watch.now /\ watch'.dropped = watch.dropped
      /\ watch'.released = watch.released /\ watch'.first = watch.first
      /\ watch'.fine = watch.fine
  BY DEF SimInv, WatchWhole, WatchMembers
<1>2. SimWhole'
  <2>1. Whole(sim')
    BY DEF SimInv, SimWhole, Whole
  <2> QED BY <2>1 DEF SimInv, SimWhole
<1>3. WatchWhole' /\ Clocks'
  BY <1>1 DEF SimInv, WatchWhole, Clocks
<1>4. Flow'
  BY <1>1 DEF SimInv, Flow
<1>5. Balance'
  BY <1>1 DEF SimInv, Balance
<1>6. Rhythm(sim', sim'.last) /\ Sequence(sim')
  <2>1. \A i \in DOMAIN TxList : sim'.ecus.tx[i].due = sim.ecus.tx[i].due
    BY DEF SameCount
  <2>2. Rhythm(sim', sim'.last)
    BY <2>1, RhythmLasts DEF SimInv, SimWhole
  <2>3. Sequence(sim')
    BY SequenceLasts DEF SimInv
  <2> QED BY <2>2, <2>3
<1>7. PlantTime' /\ Driver'
  BY <1>1 DEF SimInv, PlantTime, Driver
<1> QED BY <1>2, <1>3, <1>4, <1>5, <1>6, <1>7 DEF SimInv

LEMMA SwitchesNodes_Inv ==
  ASSUME SimInv, NEW ecus, EcusOK(ecus), sim' = [sim EXCEPT !.ecus = ecus],
         \A i \in DOMAIN TxList : SameCount(ecus.tx[i], sim.ecus.tx[i]),
         watch' = [watch EXCEPT !.commands = @ + 1]
  PROVE  SimInv'
<1>1. /\ DOMAIN sim' = DOMAIN sim /\ sim'.ecus = ecus /\ sim'.faults = sim.faults
      /\ sim'.pending = sim.pending /\ sim'.produced = sim.produced /\ sim'.made = sim.made
      /\ sim'.last = sim.last /\ sim'.started = sim.started /\ sim'.plant = sim.plant
      /\ sim'.drive = sim.drive /\ FaultsOK(sim.faults)
  BY DEF SimInv, SimWhole, Whole, SimMembers
<1>2. \A i \in DOMAIN TxList : SameCount(sim'.ecus.tx[i], sim.ecus.tx[i])
  BY <1>1
<1> QED BY <1>1, <1>2, Command_Inv

LEMMA SwitchesFaults_Inv ==
  ASSUME SimInv, NEW active, sim' = [sim EXCEPT !.faults.active = active],
         watch' = [watch EXCEPT !.commands = @ + 1]
  PROVE  SimInv'
<1>1. /\ DOMAIN sim' = DOMAIN sim /\ sim'.ecus = sim.ecus
      /\ sim'.faults = [sim.faults EXCEPT !.active = active]
      /\ sim'.pending = sim.pending /\ sim'.produced = sim.produced /\ sim'.made = sim.made
      /\ sim'.last = sim.last /\ sim'.started = sim.started /\ sim'.plant = sim.plant
      /\ sim'.drive = sim.drive /\ EcusOK(sim.ecus) /\ FaultsOK(sim.faults)
  BY DEF SimInv, SimWhole, Whole, SimMembers
<1>2. FaultsOK(sim'.faults) /\ sim'.faults.dropped = sim.faults.dropped
  BY <1>1 DEF FaultsOK, FaultMembers
<1>3. \A i \in DOMAIN TxList : SameCount(sim'.ecus.tx[i], sim.ecus.tx[i])
  BY <1>1 DEF SameCount
<1> QED BY <1>1, <1>2, <1>3, Command_Inv

(* A trigger changes no time that anything is due at, and no counter.      *)
LEMMA TriggeredIs ==
  ASSUME NEW ecus, EcusOK(ecus), NEW n, NEW message
  PROVE  /\ EcusOK(Triggered(ecus, n, message))
         /\ \A i \in DOMAIN TxList : SameCount(Triggered(ecus, n, message).tx[i], ecus.tx[i])
<1> DEFINE hits == {i \in DOMAIN TxList : TxList[i].node = n /\ TxList[i].message = message}
           first(i) == i \in hits /\ \A j \in hits : i <= j
           tx == [i \in DOMAIN TxList |->
                    IF first(i) THEN [ecus.tx[i] EXCEPT !.triggered = TRUE] ELSE ecus.tx[i]]
           e == Triggered(ecus, n, message)
<1>1. e = [ecus EXCEPT !.tx = tx]
  BY DEF Triggered, EcusOK
<1> HIDE DEF e, first
<1>2. ASSUME NEW i \in DOMAIN TxList
      PROVE  Runtime(tx[i]) /\ SameCount(tx[i], ecus.tx[i])
  <2>1. Runtime(ecus.tx[i])
    BY DEF EcusOK
  <2>2. tx[i] = ecus.tx[i] \/ tx[i] = [ecus.tx[i] EXCEPT !.triggered = TRUE]
    OBVIOUS
  <2> HIDE DEF tx
  <2> QED BY <2>1, <2>2 DEF Runtime, SameCount
<1>3. DOMAIN tx = DOMAIN TxList
  OBVIOUS
<1> HIDE DEF tx
<1>4. /\ DOMAIN e = DOMAIN ecus /\ e.tx = tx /\ e.running = ecus.running
      /\ e.jitter = ecus.jitter /\ e.walks = ecus.walks
  BY <1>1 DEF EcusOK
<1> QED BY <1>2, <1>3, <1>4 DEF EcusOK, e

LEMMA SimInv_Step == SimInv /\ [Next]_vars => SimInv'
<1> SUFFICES ASSUME SimInv, [Next]_vars PROVE SimInv'
  OBVIOUS
<1>1. ASSUME NEW pace \in Paces, StepBy(pace)
      PROVE  SimInv'
  BY <1>1, StepBy_Inv
<1>2. CASE Restart(0)
  BY <1>2, Restart_Inv
<1>3. ASSUME NEW n \in DOMAIN sim.ecus.running, Command(SetRunning(n, ~sim.ecus.running[n]))
      PROVE  SimInv'
  <2> DEFINE ecus == [sim.ecus EXCEPT !.running[n] = ~sim.ecus.running[n]]
  <2>1. sim' = [sim EXCEPT !.ecus = ecus] /\ watch' = [watch EXCEPT !.commands = @ + 1]
    BY <1>3 DEF Command, SetRunning
  <2>2. EcusOK(ecus) /\ \A i \in DOMAIN TxList : SameCount(ecus.tx[i], sim.ecus.tx[i])
    BY DEF EcusOK, SimInv, SimWhole, Whole, SameCount
  <2> HIDE DEF ecus
  <2> QED BY <2>1, <2>2, SwitchesNodes_Inv
<1>4. ASSUME NEW n, NEW i \in DOMAIN TxList, Command(Trigger(n, TxList[i].message))
      PROVE  SimInv'
  <2> DEFINE ecus == Triggered(sim.ecus, n, TxList[i].message)
  <2>1. sim' = [sim EXCEPT !.ecus = ecus] /\ watch' = [watch EXCEPT !.commands = @ + 1]
    BY <1>4 DEF Command, Trigger
  <2>2. EcusOK(ecus) /\ \A j \in DOMAIN TxList : SameCount(ecus.tx[j], sim.ecus.tx[j])
    BY TriggeredIs DEF SimInv, SimWhole, Whole
  <2> HIDE DEF ecus
  <2> QED BY <2>1, <2>2, SwitchesNodes_Inv
<1>5. ASSUME NEW f, Command(Toggle(f)) \/ Command(SetActive(f, TRUE))
      PROVE  SimInv'
  <2>1. \E on : sim' = [sim EXCEPT !.faults.active[f] = on]
    BY <1>5 DEF Command, Toggle, SetActive
  <2>2. PICK on : sim' = [sim EXCEPT !.faults.active[f] = on]
    BY <2>1
  <2> DEFINE active == [sim.faults.active EXCEPT ![f] = on]
  <2>3. sim' = [sim EXCEPT !.faults.active = active]
    BY <2>2
  <2>4. watch' = [watch EXCEPT !.commands = @ + 1]
    BY <1>5 DEF Command
  <2> HIDE DEF active
  <2> QED BY <2>3, <2>4, SwitchesFaults_Inv
<1>6. CASE UNCHANGED vars
  BY <1>6 DEF vars, SimInv, SimWhole, WatchWhole, Clocks, Flow, Balance, Rhythm, Sequence, PlantTime, Driver, Gone
<1> QED BY <1>1, <1>2, <1>3, <1>4, <1>5, <1>6 DEF Next

LEMMA SimInv_Always == Spec => []SimInv
<1> QED BY SimInit_Inv, SimInv_Step, PTL DEF Spec

-----------------------------------------------------------------------------
(* Counting: the numbers that different entries have are as many.          *)
LEMMA AsManyNumbers ==
  ASSUME NEW n \in Nat, NEW f, \A j, k \in 1..n : f[j] = f[k] => j = k
  PROVE  /\ IsFiniteSet({f[k] : k \in 1..n})
         /\ Cardinality({f[k] : k \in 1..n}) = n
<1> DEFINE G(m) == {f[k] : k \in 1..m}
           T == {m \in Nat : m <= n => IsFiniteSet(G(m)) /\ Cardinality(G(m)) = m}
<1>1. 0 \in T
  <2>1. G(0) = {}
    OBVIOUS
  <2> HIDE DEF G
  <2> QED BY <2>1, FS_EmptySet
<1>2. ASSUME NEW m \in T PROVE m + 1 \in T
  <2> SUFFICES ASSUME m + 1 <= n
               PROVE  IsFiniteSet(G(m + 1)) /\ Cardinality(G(m + 1)) = m + 1
    OBVIOUS
  <2>1. G(m + 1) = G(m) \cup {f[m + 1]} /\ f[m + 1] \notin G(m)
    OBVIOUS
  <2>2. IsFiniteSet(G(m)) /\ Cardinality(G(m)) = m
    OBVIOUS
  <2> DEFINE H == G(m)
             x == f[m + 1]
  <2>3. IsFiniteSet(H) /\ Cardinality(H) = m /\ x \notin H /\ m \in Nat
    BY <2>1, <2>2
  <2> HIDE DEF H, x
  <2>4. IsFiniteSet(H \cup {x}) /\ Cardinality(H \cup {x}) = m + 1
    BY <2>3, FS_AddElement
  <2>5. G(m + 1) = H \cup {x}
    BY <2>1 DEF H, x
  <2> HIDE DEF G
  <2> QED BY <2>4, <2>5
<1>3. n \in T
  <2> HIDE DEF T
  <2>1. T \in SUBSET Nat
    BY DEF T
  <2> QED BY <1>1, <1>2, <2>1, SetInduction
<1> QED BY <1>3

LEMMA AtMostOne ==
  ASSUME NEW S, \A x, y \in S : x = y
  PROVE  /\ IsFiniteSet(S)
         /\ S = {} => Cardinality(S) = 0
         /\ S # {} => Cardinality(S) = 1
<1>1. CASE S = {}
  BY <1>1, FS_EmptySet
<1>2. CASE S # {}
  <2>1. PICK x : x \in S
    BY <1>2
  <2>2. S = {x}
    BY <2>1
  <2> QED BY <1>2, <2>2, FS_Singleton
<1> QED BY <1>1, <1>2

LEMMA AccountedFor ==
  ASSUME SimInv
  PROVE  EveryFrameIsAccountedFor
<1> DEFINE p == sim.produced
           a == Len(watch.released)
           c == Len(sim.pending)
           f == [k \in 1..a |-> watch.released[k].frame.nr]
           g == [k \in 1..c |-> sim.pending[k].nr]
           A == {f[k] : k \in 1..a}
           C == {g[k] : k \in 1..c}
           gone == {nr \in 1..p : Released(nr) = {} /\ Waiting(nr) = {}}
<1>1. /\ p \in Nat /\ a \in Nat /\ c \in Nat
      /\ DOMAIN watch.released = 1..a /\ DOMAIN sim.pending = 1..c
      /\ p = Len(sim.made)
  BY SequenceHasALength DEF SimInv, SimWhole, Whole, Flow, Left
<1>2. /\ \A k \in 1..a : f[k] = watch.released[k].frame.nr /\ f[k] \in 1..p
      /\ \A k \in 1..c : g[k] = sim.pending[k].nr /\ g[k] \in 1..p
      /\ \A j, k \in 1..a : f[j] = f[k] => j = k
      /\ \A j, k \in 1..c : g[j] = g[k] => j = k
      /\ \A j \in 1..a : \A k \in 1..c : f[j] # g[k]
  BY DEF SimInv, Flow, Left, Queue, Apart
<1>3. /\ \A nr : Released(nr) = {k \in 1..a : f[k] = nr}
      /\ \A nr : Waiting(nr) = {k \in 1..c : g[k] = nr}
  BY <1>1, <1>2 DEF Released, Waiting
<1> HIDE DEF p, a, c, f, g
<1>4. /\ IsFiniteSet(A) /\ Cardinality(A) = a
      /\ IsFiniteSet(C) /\ Cardinality(C) = c
  <2>1. \A j, k \in 1..a : f[j] = f[k] => j = k
    BY <1>2
  <2>2. \A j, k \in 1..c : g[j] = g[k] => j = k
    BY <1>2
  <2>3. a \in Nat /\ c \in Nat
    BY <1>1
  <2>4. IsFiniteSet(A) /\ Cardinality(A) = a
    BY <2>1, <2>3, AsManyNumbers
  <2>5. IsFiniteSet(C) /\ Cardinality(C) = c
    BY <2>2, <2>3, AsManyNumbers
  <2> QED BY <2>4, <2>5
<1>5. A \cap C = {} /\ A \cup C \subseteq 1..p
  BY <1>2
<1>6. gone = (1..p) \ (A \cup C)
  <2>1. ASSUME NEW nr PROVE Released(nr) = {} <=> nr \notin A
    BY <1>3
  <2>2. ASSUME NEW nr PROVE Waiting(nr) = {} <=> nr \notin C
    BY <1>3
  <2> HIDE DEF A, C
  <2> QED BY <2>1, <2>2
<1> HIDE DEF A, C, gone
<1>7. IsFiniteSet(A \cup C) /\ Cardinality(A \cup C) = a + c
  <2>1. Cardinality(A \cap C) = 0
    BY <1>5, FS_EmptySet
  <2>2. /\ IsFiniteSet(A \cup C)
        /\ Cardinality(A \cup C) = Cardinality(A) + Cardinality(C) - Cardinality(A \cap C)
    BY <1>4, FS_Union
  <2> QED BY <1>1, <1>4, <2>1, <2>2
<1>8. Cardinality(gone) = p - (a + c)
  <2> DEFINE B == A \cup C
  <2>1. IsFiniteSet(1..p) /\ Cardinality(1..p) = p
    <3>1. p \in Nat
      BY <1>1
    <3> QED BY <3>1, AsManyAs
  <2>2. gone \in SUBSET (1..p) /\ gone \cap B = {} /\ gone \cup B = 1..p
    BY <1>5, <1>6
  <2>3. IsFiniteSet(B) /\ Cardinality(B) = a + c
    BY <1>7
  <2> HIDE DEF B
  <2>4. IsFiniteSet(gone) /\ Cardinality(gone) \in Nat
    BY <2>1, <2>2, FS_Subset, FS_CardinalityType
  <2>5. Cardinality(gone \cup B) = Cardinality(gone) + Cardinality(B) - Cardinality(gone \cap B)
    BY <2>3, <2>4, FS_Union
  <2>6. Cardinality(gone \cap B) = 0
    BY <2>2, FS_EmptySet
  <2>7. p = Cardinality(gone) + (a + c)
    <3>1. Cardinality(gone \cup B) = p
      BY <2>1, <2>2
    <3>2. p \in Nat /\ a \in Nat /\ c \in Nat
      BY <1>1
    <3> QED BY <2>3, <2>4, <2>5, <2>6, <3>1, <3>2
  <2> QED BY <1>1, <2>4, <2>7
<1>9. sim.faults.dropped - watch.dropped = Cardinality(gone)
  BY <1>8 DEF SimInv, Balance, p, a, c
<1>10. ASSUME NEW nr \in 1..p
       PROVE  Cardinality(Released(nr)) + Cardinality(Waiting(nr)) <= 1
  <2>1. /\ \A x, y \in Released(nr) : x = y
        /\ \A x, y \in Waiting(nr) : x = y
        /\ Released(nr) = {} \/ Waiting(nr) = {}
    BY <1>2, <1>3
  <2> QED BY <2>1, AtMostOne
<1> QED BY <1>1, <1>9, <1>10 DEF EveryFrameIsAccountedFor, p, gone

LEMMA InTimeOrder ==
  ASSUME SimInv
  PROVE  LeavesInTimeOrder
<1> DEFINE rel == watch.released
<1>1. DOMAIN rel = 1..Len(rel)
  BY SequenceHasALength DEF SimInv, Flow, Left
<1>2. \A k \in 1..Len(rel) : LeftWell(rel[k], sim.made)
  BY DEF SimInv, Flow, Left
<1>3. \A j, k \in 1..Len(rel) : j < k => Before(rel[j].frame, rel[k].frame)
  BY DEF SimInv, Flow, Left
<1> QED BY <1>1, <1>2, <1>3 DEF LeavesInTimeOrder, LeftWell, Before

LEMMA TypesAreKept ==
  ASSUME SimInv
  PROVE  SimTypeOK
<1> DEFINE q == sim.pending
<1>1. Len(q) \in Nat /\ DOMAIN q = 1..Len(q) /\ InTurn(q)
  BY SequenceHasALength DEF SimInv, Flow, Queue, InTurn
<1>2. ASSUME NEW k \in 1..Len(q)
      PROVE  q[k].at > sim.last /\ (k > 1 => q[k - 1].at <= q[k].at)
  <2>1. q[k].at > sim.last
    BY DEF SimInv, Flow, Queue
  <2>2. k > 1 => q[k - 1].at <= q[k].at
    <3> SUFFICES ASSUME k > 1 PROVE q[k - 1].at <= q[k].at
      OBVIOUS
    <3> HIDE DEF q
    <3>1. k - 1 \in 1..Len(q) /\ k - 1 < k
      BY <1>1
    <3> QED BY <1>1, <3>1, SMTT(60) DEF InTurn, Before, Timed
  <2> QED BY <2>1, <2>2
<1>3. /\ sim.drive \in 0..Len(Drive) /\ sim.plant.rpm \in 0..Greatest(IdleRpm, MaxRpm)
      /\ sim.plant.speed \in Nat /\ sim.plant.left \in 0..(StepTime - 1)
      /\ DOMAIN sim.ecus.tx = DOMAIN TxList /\ sim.faults.draws \in Nat
  BY DEF SimInv, SimWhole, Whole, PlantOK, EcusOK, FaultsOK
<1> QED BY <1>1, <1>2, <1>3 DEF SimTypeOK

(* Whatever the configuration, its faults and the pace of the steps, each  *)
(* frame that is produced leaves once, in time order and with the first    *)
(* step that reaches its time, or waits, or is counted as dropped          *)
(* (Simulator::step(), FaultInjector::process()).                          *)
THEOREM FramesLeaveOnceAndInOrder == Spec => []LeavesOnceAndInOrder
<1>1. SimInv => LeavesOnceAndInOrder
  BY AccountedFor, InTimeOrder, TypesAreKept DEF LeavesOnceAndInOrder
<1> QED BY <1>1, SimInv_Always, PTL

LEMMA CyclesAreKept ==
  ASSUME SimInv
  PROVE  KeepsItsCycle
<1> DEFINE n == sim.produced
<1>1. DOMAIN sim.made = 1..n
  BY SequenceHasALength DEF SimInv, SimWhole, Whole
<1>2. NoBurst
  <2> SUFFICES ASSUME NEW i \in DOMAIN TxList, Steady(i),
                      NEW j \in 1..n, NEW k \in 1..n,
                      j < k, sim.made[j].of = i, sim.made[k].of = i
               PROVE  Between(sim.made, i, j, k) * TxList[i].cycle < sim.made[k].at - sim.made[j].at
    BY <1>1 DEF NoBurst, Steady
  <2>1. Spaced(i, sim.made, n, sim.ecus.tx[i].due)
    BY DEF SimInv, Rhythm
  <2> QED BY <2>1 DEF Spaced
<1>3. DueWithinACycle
  BY DEF SimInv, Rhythm, DueWithinACycle, Slack
<1> QED BY <1>2, <1>3 DEF KeepsItsCycle

(* Whatever the configuration and the pace, a cyclic message without       *)
(* jitter never goes out in a burst to make up for missed cycles, and no   *)
(* message is put off by more than a cycle and its jitter (Ecu::step()).   *)
THEOREM CyclesAreKeptAlways == Spec => []KeepsItsCycle
<1> QED BY CyclesAreKept, SimInv_Always, PTL

LEMMA StampsAreRight ==
  ASSUME StampsAreSeparate, SimInv
  PROVE  CounterAndChecksumHold
<1> SUFFICES ASSUME NEW k \in DOMAIN watch.released,
                    watch.released[k].frame.data = sim.made[watch.released[k].frame.nr].data
             PROVE  LET f == watch.released[k].frame
                        tx == TxList[f.of]
                        earlier == {nr \in 1..(f.nr - 1) : sim.made[nr].of = f.of}
                    IN  /\ tx.counter # None =>
                             f.data[tx.counter] = Cardinality(earlier) % RawModulus
                        /\ tx.checksum # None =>
                             f.data[tx.checksum]
                               = ChecksumOf([f.data EXCEPT ![tx.checksum] = 0]) % RawModulus
  BY DEF CounterAndChecksumHold
<1> DEFINE f == watch.released[k].frame
<1>1. f.nr \in 1..sim.produced /\ f.of = sim.made[f.nr].of
  <2>1. k \in 1..Len(watch.released)
    BY SequenceHasALength DEF SimInv, Flow, Left
  <2> QED BY <2>1 DEF SimInv, Flow, Left, LeftWell
<1>2. Numbered(f.of, sim.made, sim.produced, sim.ecus.tx[f.of])
  BY <1>1 DEF SimInv, Sequence
<1>3. Stamps(f.of, f.data, Between(sim.made, f.of, 0, f.nr))
  BY <1>1, <1>2 DEF Numbered
<1>4. Between(sim.made, f.of, 0, f.nr)
        = Cardinality({nr \in 1..(f.nr - 1) : sim.made[nr].of = f.of})
  BY DEF Between
<1> HIDE DEF f
<1> QED BY <1>3, <1>4 DEF Stamps, f

(* Whatever the configuration, the faults and the pace, a frame that no    *)
(* fault has altered carries the number of those of its message before it, *)
(* also of those that were dropped or are late, and a checksum that covers *)
(* the counter (Ecu::build()).  It needs that a checksum is a signal of    *)
(* its own: one that a binding drives too is summed as what was bound.     *)
THEOREM CountersAndChecksumsHold ==
  ASSUME StampsAreSeparate
  PROVE  Spec => []CounterAndChecksumHold
<1> QED BY StampsAreRight, SimInv_Always, PTL

-----------------------------------------------------------------------------
LEMMA MultipleDivided ==
  ASSUME NEW n \in Nat, NEW g \in Nat \ {0}
  PROVE  (n * g) \div g = n
<1> DEFINE x == n * g
           q == x \div g
           r == x % g
<1>1. x \in Nat
  OBVIOUS
<1> HIDE DEF x
<1>2. q \in Nat /\ r \in 0..(g - 1) /\ x = g * q + r
  BY <1>1
<1> HIDE DEF q, r
<1>3. x = g * n
  BY DEF x
<1>4. CASE q < n
  <2>1. g * n = g * q + g * (n - q)
    BY <1>2
  <2>2. g * (n - q) >= g
    BY <1>2, <1>4
  <2> DEFINE a == g * n
             b == g * q
             c == g * (n - q)
  <2>3. a \in Int /\ b \in Int /\ c \in Int
    BY <1>2
  <2> HIDE DEF a, b, c
  <2> QED BY <1>2, <1>3, <2>1, <2>2, <2>3 DEF a, b, c
<1>5. CASE q > n
  <2>2. g * (q - n) >= g
    BY <1>2, <1>5
  <2> QED BY <1>2, <1>3, <1>5, <2>2
<1> QED BY <1>2, <1>4, <1>5 DEF q, x

LEMMA PacesAgree ==
  ASSUME SimInv
  PROVE  OnlyTheDriverFeelsThePace
<1>1. WalkDependsOnTimeOnly
  <2> SUFFICES ASSUME NEW w \in Walks
               PROVE  LET at == sim.ecus.walks[w]
                      IN  at = Walked(w, FreshWalk(w), at.index * Interval(w))
    BY DEF WalkDependsOnTimeOnly, Interval
  <2> DEFINE at == sim.ecus.walks[w]
             n == at.index
             t == n * Interval(w)
  <2>1. n \in Nat /\ at = [index |-> n, value |-> WalkValue(w, n)]
    BY DEF SimInv, SimWhole, Whole, EcusOK, WalksOK, WalkOK
  <2> HIDE DEF at, n
  <2>2. Interval(w) \in Nat \ {0}
    BY WalksAreKnown DEF WalksAreKnown, Interval, Greatest
  <2>3. t \in Nat /\ t \div Interval(w) = n
    BY <2>1, <2>2, MultipleDivided
  <2> HIDE DEF t
  <2>4. Walked(w, FreshWalk(w), t) = [index |-> n, value |-> WalkValue(w, n)]
    BY <2>3, FreshWalkOK, WalkedIs
  <2> QED BY <2>1, <2>4 DEF at, n, t
<1>2. VehicleLosesNoTime /\ VehicleIsAsAtTheFinestPace
  BY DEF SimInv, PlantTime, Driver, VehicleLosesNoTime, VehicleIsAsAtTheFinestPace, Gone
<1> QED BY <1>1, <1>2 DEF OnlyTheDriverFeelsThePace

(* However finely the simulation is stepped, a random walk is where one    *)
(* call would have taken it, and the vehicle is the one that is moved      *)
(* moment by moment and obeys the driver at the beginning of the same      *)
(* steps.  Where the steps begin is what is left of the pace in it         *)
(* (RandomWalk::sample(), Vehicle::step(), Simulator::step()).             *)
THEOREM PaceIsFeltByTheDriverOnly == Spec => []OnlyTheDriverFeelsThePace
<1> QED BY PacesAgree, SimInv_Always, PTL

-----------------------------------------------------------------------------
LEMMA RestartReplays ==
  ASSUME SimInv, Restart(0)
  PROVE  sim' = [FreshSim EXCEPT !.plant = IF HasPlant THEN @ ELSE sim.plant,
                                 !.faults = [FaultInit EXCEPT
                                   !.active = sim.faults.active, !.dropped = sim.faults.dropped,
                                   !.delayed = sim.faults.delayed,
                                   !.corrupted = sim.faults.corrupted]]
<1> DEFINE old == sim.faults
           faults == [FaultInit EXCEPT !.active = old.active, !.dropped = old.dropped,
                                       !.delayed = old.delayed, !.corrupted = old.corrupted]
           plant == IF HasPlant THEN FreshPlant ELSE sim.plant
<1>1. DOMAIN old = FaultMembers /\ EcusOK(sim.ecus)
  BY DEF SimInv, SimWhole, Whole, FaultsOK
<1>2. FaultReset(old) = faults
  <2> HIDE DEF old
  <2> DEFINE r == FaultReset(old)
  <2>1. /\ r = [x \in DOMAIN r |-> r[x]] /\ DOMAIN r = FaultMembers
        /\ r.active = old.active /\ r.frozen = <<>> /\ r.draws = 0 /\ r.dropped = old.dropped
        /\ r.delayed = old.delayed /\ r.corrupted = old.corrupted
    BY <1>1 DEF FaultReset, FaultMembers
  <2>2. /\ faults = [x \in DOMAIN faults |-> faults[x]] /\ DOMAIN faults = FaultMembers
        /\ faults.active = old.active /\ faults.frozen = <<>> /\ faults.draws = 0
        /\ faults.dropped = old.dropped
        /\ faults.delayed = old.delayed /\ faults.corrupted = old.corrupted
    BY DEF FaultInit, FaultMembers
  <2> HIDE DEF r, faults
  <2>3. r = faults
    BY <2>1, <2>2 DEF FaultMembers
  <2> QED BY <2>3 DEF r
<1>3. sim' = [FreshSim EXCEPT !.ecus = EcuInit, !.plant = plant, !.faults = faults]
  <2> DEFINE ecus == [EcuReset(sim.ecus, 0) EXCEPT !.running = [n \in DOMAIN @ |-> TRUE]]
  <2>1. sim' = [FreshSim EXCEPT !.ecus = ecus, !.plant = IF HasPlant THEN @ ELSE sim.plant,
                                !.faults = FaultReset(old)]
    BY DEF Restart, Reset
  <2>2. ecus = EcuInit
    BY <1>1, ResetEcusAreFresh
  <2> DEFINE reset == FaultReset(old)
             p == IF HasPlant THEN FreshSim.plant ELSE sim.plant
  <2>3. reset = faults
    BY <1>2
  <2>4. sim' = [FreshSim EXCEPT !.ecus = ecus, !.plant = p, !.faults = reset]
    BY <2>1
  <2>6. p = plant
    BY DEF FreshSim
  <2> HIDE DEF ecus, faults, reset, p, plant
  <2>5. sim' = [FreshSim EXCEPT !.ecus = EcuInit, !.plant = p, !.faults = faults]
    BY <2>2, <2>3, <2>4
  <2> QED BY <2>5, <2>6
<1> HIDE DEF faults
<1>4. sim' = [FreshSim EXCEPT !.plant = plant, !.faults = faults]
  <2> HIDE DEF plant
  <2>1. FreshSim.ecus = EcuInit /\ FreshSim = [x \in DOMAIN FreshSim |-> FreshSim[x]]
    BY DEF FreshSim
  <2> QED BY <1>3, <2>1
<1> QED BY <1>4 DEF FreshSim, faults

LEMMA ReplaysStep ==
  ASSUME SimInv, [Next]_vars, sim.started, ~sim'.started
  PROVE  Restart(0)
<1>1. ASSUME NEW pace \in Paces, StepBy(pace)
      PROVE  FALSE
  BY <1>1, StepBy_Inv
<1>2. ASSUME NEW n, Command(SetRunning(n, ~sim.ecus.running[n]))
      PROVE  FALSE
  BY <1>2 DEF Command, SetRunning, SimInv, SimWhole, Whole, SimMembers
<1>3. ASSUME NEW n, NEW message, Command(Trigger(n, message))
      PROVE  FALSE
  BY <1>3 DEF Command, Trigger, SimInv, SimWhole, Whole, SimMembers
<1>4. ASSUME NEW f, Command(Toggle(f)) \/ Command(SetActive(f, TRUE))
      PROVE  FALSE
  BY <1>4 DEF Command, Toggle, SetActive, SimInv, SimWhole, Whole, SimMembers
<1>5. CASE UNCHANGED vars
  BY <1>5 DEF vars
<1> QED BY <1>1, <1>2, <1>3, <1>4, <1>5 DEF Next

(* A simulation that is reset is a new one, but for the switches of its    *)
(* faults and their counts: every node, generator and queue starts again   *)
(* where it began (Simulator::reset(), Ecu::reset()).                      *)
THEOREM ResetAlwaysReplays == Spec => ResetReplays
<1>1. SimInv /\ [Next]_vars =>
        [sim.started /\ ~sim'.started =>
           sim' = [FreshSim EXCEPT !.plant = IF HasPlant THEN @ ELSE sim.plant,
                                   !.faults = [FaultInit EXCEPT
                                     !.active = sim.faults.active, !.dropped = sim.faults.dropped,
                                     !.delayed = sim.faults.delayed,
                                     !.corrupted = sim.faults.corrupted]]]_vars
  BY ReplaysStep, RestartReplays
<1> QED BY <1>1, SimInv_Always, PTL DEF Spec, ResetReplays

(* What a step produces shows what the freezes hold, whether it has left   *)
(* or waits, and what they hold they keep.                                 *)
KeepsSlots ==
  \A slot \in DOMAIN sim.faults.frozen :
    /\ slot \in DOMAIN sim'.faults.frozen
    /\ sim'.faults.frozen[slot] = sim.faults.frozen[slot]
Iced(f, i) ==
  \A frame \in Frames' :
    frame.of = i /\ frame.nr > sim.produced => CarriesTheCaptured(frame, f, i)'

FromEither(r, k, rel, o) ==
  (\E j \in 1..Len(rel) : r[k] = rel[j]) \/ (\E j \in 1..Len(o) : r[k].frame = o[j])

LEMMA ReleasedFrom ==
  ASSUME NEW rel, IsSequence(rel), NEW o, IsSequence(o), NEW now, NEW before,
         NEW r, r = rel \o JustReleased(o, now, before), NEW k \in DOMAIN r
  PROVE  FromEither(r, k, rel, o)
<1> DEFINE new == JustReleased(o, now, before)
           n == Len(o)
           l == Len(rel)
<1>1. n \in Nat /\ DOMAIN o = 1..n /\ l \in Nat
  BY SequenceHasALength
<1>2. new = [j \in 1..n |-> [frame |-> o[j], time |-> now, before |-> before]]
  BY <1>1, Zenon DEF JustReleased
<1>3. /\ \A j \in 1..n : new[j].frame = o[j]
      /\ IsSequence(new) /\ Len(new) = n
  <2> DEFINE S == {new[j] : j \in 1..n}
  <2>1. \A j \in 1..n : new[j].frame = o[j] /\ new[j] \in S
    BY <1>2
  <2>2. new = [j \in 1..n |-> new[j]]
    BY <1>2
  <2> HIDE DEF S, new, n
  <2>3. new \in Seq(S)
    <3>1. new \in [1..n -> S]
      BY <2>1, <2>2
    <3> QED BY <1>1, <3>1
  <2>4. Len(new) = n
    BY <1>1, <2>2, <2>3, LenProperties
  <2> QED BY <2>1, <2>3, <2>4 DEF IsSequence
<1> HIDE DEF new, n
<1>4. PICK S : rel \in Seq(S) /\ new \in Seq(S)
  BY <1>3, OneSetForBoth
<1>5. /\ r \in Seq(S) /\ Len(r) = Len(rel) + Len(new)
      /\ \A j \in 1..(Len(rel) + Len(new)) : r[j] = IF j <= Len(rel) THEN rel[j]
                                                  ELSE new[j - Len(rel)]
  <2>1. r = rel \o new
    BY DEF new
  <2> QED BY <1>4, <2>1, ConcatProperties
<1>6. k \in 1..(l + n)
  BY <1>3, <1>5, LenProperties
<1>7. (\E j \in 1..l : r[k] = rel[j]) \/ (\E j \in 1..n : r[k].frame = o[j])
  <2>1. CASE k <= l
    <3>1. k \in 1..l /\ r[k] = rel[k]
      BY <1>1, <1>3, <1>5, <1>6, <2>1
    <3> QED BY <3>1
  <2>2. CASE ~(k <= l)
    <3>1. k - l \in 1..n /\ r[k] = new[k - l]
      BY <1>1, <1>3, <1>5, <1>6, <2>2
    <3> QED BY <1>3, <3>1
  <2> QED BY <2>1, <2>2
<1> QED BY <1>7 DEF FromEither, n

LEMMA StepShows ==
  ASSUME SimInv, NEW pace \in Paces, StepBy(pace)
  PROVE  /\ KeepsIce(sim.faults, sim'.faults)
         /\ \A frame \in Frames' : frame.nr > sim.produced =>
              Shows(frame, sim.faults, sim'.faults.frozen)
<1> DEFINE now == IF sim.started THEN watch.now + pace ELSE watch.now
           before == IF sim.started THEN watch.now ELSE -1
           rel == watch.released
<1>1. now \in Nat /\ sim.last <= now /\ sim.last \in Int /\ now \in Int
  <2>1. pace \in Nat
    BY WatchBounds DEF WatchBounds
  <2> QED BY <2>1 DEF SimInv, SimWhole, WatchWhole, Clocks
<1>2. Step(now) /\ watch'.released = rel \o JustReleased(out', now, before)
  <2>1. /\ Step(now)
        /\ \E n, c, fi, fn :
             watch' = [watch EXCEPT !.now = n, !.steps = c, !.first = fi, !.fine = fn,
                                    !.released = @ \o JustReleased(out', now, before)]
    BY Zenon DEF StepBy, JustReleased
  <2> HIDE DEF now, before
  <2> QED BY <2>1 DEF SimInv, WatchWhole, WatchMembers
<1> HIDE DEF now, before
<1>0. PICK b, t : StepMakes(b, t, now)
  BY <1>1, <1>2, StepIs DEF SimInv
<1>3. /\ Whole(b) /\ Gathered(t, b, now) /\ Ice(t, b)
      /\ b.pending = sim.pending /\ b.produced = sim.produced /\ b.made = sim.made
      /\ b.faults = sim.faults
      /\ LET s == InOrderOfTime(t.pending)
             due == Reached(s, now)
         IN  /\ sim' = [t EXCEPT !.pending = SubSeq(s, due + 1, Len(s))]
             /\ out' = SubSeq(s, 1, due)
  BY <1>0 DEF StepMakes
<1> DEFINE s == InOrderOfTime(t.pending)
           due == Reached(s, now)
           q == SubSeq(s, due + 1, Len(s))
           o == SubSeq(s, 1, due)
           a == Len(b.pending)
           n == Len(t.pending)
<1>4. Whole(t) /\ IceUpTo(t, b, a, n)
  BY <1>3 DEF Ice, Gathered
<1>5. sim'.pending = q /\ sim'.faults = t.faults /\ out' = o
  <2>1. sim' = [t EXCEPT !.pending = q] /\ out' = o
    BY <1>3
  <2> HIDE DEF q, o
  <2> QED BY <1>4, <2>1 DEF Whole, SimMembers
<1>6. KeepsIce(sim.faults, sim'.faults)
  BY <1>3, <1>4, <1>5 DEF IceUpTo
<1>7. /\ Queue(b.pending, sim.last, b.produced, b.made) /\ Whole(b)
      /\ Gathered(t, b, now) /\ b.produced \in Nat
  BY <1>3 DEF SimInv, Flow, Whole
<1>8. InTurn(s) /\ Len(s) \in Nat /\ \A k \in 1..Len(s) : \E j \in 1..n : s[k] = t.pending[j]
  <2>1. SortedOf(s, b, t, now)
    <3> DEFINE last == sim.last
    <3>1. Queue(b.pending, last, b.produced, b.made)
      BY <1>7
    <3>2. Whole(b) /\ Gathered(t, b, now) /\ now \in Int
      BY <1>1, <1>7
    <3> HIDE DEF last
    <3> QED BY <3>1, <3>2, SortedIs
  <2> HIDE DEF s
  <2> QED BY <2>1, SequenceHasALength DEF SortedOf, InTurn, AreOf
<1> HIDE DEF s
<1>9. /\ due \in 0..Len(s) /\ DOMAIN q = 1..(Len(s) - due) /\ IsSequence(o) /\ Len(o) = due
      /\ \A k \in 1..(Len(s) - due) : q[k] = s[due + k]
      /\ \A k \in 1..due : o[k] = s[k]
  <2>1. /\ due \in 0..Len(s) /\ IsSequence(q) /\ Len(q) = Len(s) - due
        /\ IsSequence(o) /\ Len(o) = due
        /\ \A k \in 1..(Len(s) - due) : q[k] = s[due + k]
        /\ \A k \in 1..due : o[k] = s[k]
    <3>1. FirstPart(s, due, now)
      BY <1>1, <1>8, DueIsAFirstPart
    <3> HIDE DEF due
    <3> QED BY <3>1 DEF FirstPart
  <2> HIDE DEF q, o, due
  <2> QED BY <2>1, SequenceHasALength
<1> HIDE DEF q, o, due
<1>10. a \in Nat /\ n \in Nat /\ IsSequence(b.pending)
       /\ \A k \in 1..a : t.pending[k] = b.pending[k] /\ b.pending[k].nr \in 1..b.produced
  BY <1>4, <1>7, SequenceHasALength DEF Whole, Queue, Gathered, Added, AddedUpTo
<1>11. ASSUME NEW k \in 1..Len(s), s[k].nr > sim.produced
       PROVE  Shows(s[k], sim.faults, sim'.faults.frozen)
  <2>1. PICK j \in 1..n : s[k] = t.pending[j]
    BY <1>8
  <2> HIDE DEF a, n
  <2>2. j \in (a + 1)..n
    <3>1. ~(j \in 1..a)
      BY <1>3, <1>7, <1>10, <1>11, <2>1
    <3> QED BY <1>10, <3>1
  <2> QED BY <1>3, <1>4, <1>5, <2>1, <2>2 DEF IceUpTo
<1>12. ASSUME NEW frame \in Frames', frame.nr > sim.produced
       PROVE  \E k \in 1..Len(s) : frame = s[k]
  <2>1. CASE \E k \in DOMAIN q : frame = q[k]
    BY <1>8, <1>9, <2>1
  <2>2. CASE \E k \in DOMAIN watch'.released : frame = watch'.released[k].frame
    <3> DEFINE r == rel \o JustReleased(o, now, before)
    <3>1. PICK k \in DOMAIN r : frame = r[k].frame
      BY <1>2, <1>5, <2>2
    <3>2. IsSequence(rel) /\ \A j \in 1..Len(rel) : rel[j].frame.nr \in 1..sim.produced
      BY DEF SimInv, Flow, Left
    <3>3. FromEither(r, k, rel, o)
      <4>1. r = rel \o JustReleased(o, now, before) /\ IsSequence(rel) /\ IsSequence(o)
        BY <1>9, <3>2
      <4> HIDE DEF r, rel
      <4> QED BY <3>1, <4>1, ReleasedFrom
    <3> HIDE DEF r, rel
    <3>4. CASE \E j \in 1..Len(rel) : r[k] = rel[j]
      BY <1>3, <1>7, <1>12, <3>1, <3>2, <3>4
    <3>5. CASE \E j \in 1..Len(o) : r[k].frame = o[j]
      <4>1. PICK j \in 1..due : frame = s[j]
        BY <1>9, <3>1, <3>5
      <4>2. j \in 1..Len(s)
        BY <1>8, <1>9
      <4> QED BY <4>1, <4>2
    <3> QED BY <3>3, <3>4, <3>5 DEF FromEither
  <2>3. frame \in {q[k] : k \in DOMAIN q}
                    \cup {watch'.released[k].frame : k \in DOMAIN watch'.released}
    BY <1>5 DEF Frames
  <2> QED BY <2>1, <2>2, <2>3
<1> QED BY <1>6, <1>11, <1>12

LEMMA IcedByStep ==
  ASSUME SimInv, NEW pace \in Paces, StepBy(pace)
  PROVE  /\ KeepsSlots
         /\ \A f \in DOMAIN FaultList : \A i \in DOMAIN TxList :
              Freezes(f, i) /\ sim.faults.active[f] => Iced(f, i)
<1>1. /\ KeepsIce(sim.faults, sim'.faults)
      /\ \A frame \in Frames' : frame.nr > sim.produced =>
           Shows(frame, sim.faults, sim'.faults.frozen)
  BY StepShows
<1>2. KeepsSlots
  BY <1>1 DEF KeepsIce, KeepsSlots
<1>3. ASSUME NEW f \in DOMAIN FaultList, NEW i \in DOMAIN TxList,
             Freezes(f, i), sim.faults.active[f],
             NEW frame \in Frames', frame.of = i, frame.nr > sim.produced
      PROVE  CarriesTheCaptured(frame, f, i)'
  <2>1. Undisturbed(sim.faults.active)
    BY <1>3 DEF Freezes, Undisturbed
  <2>2. Shows(frame, sim.faults, sim'.faults.frozen)
    BY <1>1, <1>3
  <2>3. Holds(TxList[i].message, frame.data, sim'.faults.frozen, FaultList[f].signal)
    BY <1>3, <2>1, <2>2 DEF Shows, Freezes, Freezing
  <2> QED BY <2>3 DEF CarriesTheCaptured, SlotOf, Holds
<1> QED BY <1>2, <1>3 DEF Iced

LEMMA IcedByOthers ==
  ASSUME SimInv, sim'.pending = sim.pending, sim'.faults.frozen = sim.faults.frozen,
         watch'.released = watch.released
  PROVE  KeepsSlots /\ \A f, i : Iced(f, i)
<1>1. \A frame \in Frames : frame.nr \in 1..sim.produced
  <2>1. DOMAIN sim.pending = 1..Len(sim.pending)
        /\ DOMAIN watch.released = 1..Len(watch.released)
    BY SequenceHasALength DEF SimInv, SimWhole, Whole, Flow, Left
  <2>2. /\ \A k \in DOMAIN sim.pending : sim.pending[k].nr \in 1..sim.produced
        /\ \A k \in DOMAIN watch.released : watch.released[k].frame.nr \in 1..sim.produced
    BY <2>1 DEF SimInv, Flow, Queue, Left
  <2> QED BY <2>2 DEF Frames
<1>2. Frames' = Frames
  BY DEF Frames
<1>3. \A frame \in Frames' : ~(frame.nr > sim.produced)
  BY <1>1, <1>2 DEF SimInv, SimWhole, Whole
<1> QED BY <1>3 DEF Iced, KeepsSlots

LEMMA IcedAlways ==
  ASSUME SimInv, [Next]_vars, sim'.started
  PROVE  /\ KeepsSlots
         /\ \A f \in DOMAIN FaultList : \A i \in DOMAIN TxList :
              Freezes(f, i) /\ sim.faults.active[f] => Iced(f, i)
<1> DEFINE Goal == /\ KeepsSlots
                   /\ \A f \in DOMAIN FaultList : \A i \in DOMAIN TxList :
                        Freezes(f, i) /\ sim.faults.active[f] => Iced(f, i)
<1>1. ASSUME NEW pace \in Paces, StepBy(pace)
      PROVE  Goal
  BY <1>1, IcedByStep
<1>2. ASSUME Restart(0)
      PROVE  Goal
  <2>1. ~sim'.started
    BY <1>2, RestartReplays DEF FreshSim
  <2> QED BY <2>1
<1> HIDE DEF Goal
<1>3. ASSUME sim'.pending = sim.pending, sim'.faults.frozen = sim.faults.frozen,
             watch'.released = watch.released
      PROVE  Goal
  BY <1>3, IcedByOthers DEF Goal
<1>4. ASSUME watch' = [watch EXCEPT !.commands = @ + 1]
      PROVE  watch'.released = watch.released
  BY <1>4 DEF SimInv, WatchWhole, WatchMembers
<1>5. ASSUME NEW n, Command(SetRunning(n, ~sim.ecus.running[n]))
      PROVE  Goal
  <2>1. sim'.pending = sim.pending /\ sim'.faults = sim.faults
    BY <1>5 DEF Command, SetRunning, SimInv, SimWhole, Whole, SimMembers
  <2> QED BY <1>3, <1>4, <1>5, <2>1 DEF Command
<1>6. ASSUME NEW n, NEW m, Command(Trigger(n, m))
      PROVE  Goal
  <2>1. sim'.pending = sim.pending /\ sim'.faults = sim.faults
    BY <1>6 DEF Command, Trigger, SimInv, SimWhole, Whole, SimMembers
  <2> QED BY <1>3, <1>4, <1>6, <2>1 DEF Command
<1>7. ASSUME NEW g, Command(Toggle(g)) \/ Command(SetActive(g, TRUE))
      PROVE  Goal
  <2>1. DOMAIN sim = SimMembers /\ DOMAIN sim.faults = FaultMembers
    BY DEF SimInv, SimWhole, Whole, FaultsOK
  <2>2. sim'.pending = sim.pending /\ sim'.faults.frozen = sim.faults.frozen
    BY <1>7, <2>1 DEF Command, Toggle, SetActive, SimMembers, FaultMembers
  <2> QED BY <1>3, <1>4, <1>7, <2>2 DEF Command
<1>8. CASE UNCHANGED vars
  <2>1. sim' = sim /\ watch' = watch
    BY <1>8 DEF vars
  <2>2. /\ sim'.pending = sim.pending /\ sim'.faults.frozen = sim.faults.frozen
        /\ watch'.released = watch.released
    BY <2>1
  <2>3. Goal
    BY <1>3, <2>2
  <2> QED BY <2>3 DEF Goal
<1>9. CASE Next
  BY <1>1, <1>2, <1>5, <1>6, <1>7, <1>9, Zenon DEF Next, Goal
<1> QED BY <1>8, <1>9

(* A frozen signal stays: whatever else happens in the simulation, the     *)
(* captured value is kept until the reset, and while no other fault writes *)
(* into payloads every frame that a step produces carries it, be it        *)
(* released with that step or delayed (process(), FreezeSignal).           *)
THEOREM FrozenSignalsAlwaysStay == Spec => FrozenSignalsStay
<1>1. SimInv /\ [Next]_vars =>
        [sim'.started =>
           \A slot \in DOMAIN sim.faults.frozen :
             /\ slot \in DOMAIN sim'.faults.frozen
             /\ sim'.faults.frozen[slot] = sim.faults.frozen[slot]]_vars
  BY IcedAlways DEF KeepsSlots
<1>2. SimInv /\ [Next]_vars =>
        [\A f \in DOMAIN FaultList : \A i \in DOMAIN TxList :
           Freezes(f, i) /\ sim.faults.active[f] /\ sim'.started =>
             \A frame \in Frames' :
               frame.of = i /\ frame.nr > sim.produced => CarriesTheCaptured(frame, f, i)']_vars
  BY IcedAlways DEF Iced
<1> QED BY <1>1, <1>2, SimInv_Always, PTL DEF Spec, FrozenSignalsStay
=============================================================================
