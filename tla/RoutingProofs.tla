---------------------------- MODULE RoutingProofs ----------------------------
(***************************************************************************)
(* What routing promises, for every registry, every group and every roll.  *)
(* The loops of routing.rs are recursive functions in Routing; what they   *)
(* compute is shown by induction on the number of passes.                  *)
(***************************************************************************)
EXTENDS Registry, FiniteSetTheorems, SequenceTheorems, WellFoundedInduction, TLAPS

(* A set of numbers that is not empty has a least one, so a set with 0     *)
(* that is closed under successor has them all.                            *)
LEMMA LeastNumber ==
  ASSUME NEW T \in SUBSET Nat, T # {}
  PROVE  \E n \in T : \A m \in T : n <= m
<1>1. PICK n \in T : \A m \in T : ~ (<<m, n>> \in OpToRel(<, Nat))
  BY NatLessThanWellFounded, WFMin, Zenon
<1>2. ASSUME NEW m \in T PROVE n <= m
  <2>1. <<m, n>> \notin OpToRel(<, Nat)
    BY <1>1, Zenon
  <2>2. <<m, n>> \notin {pair \in Nat \X Nat : pair[1] < pair[2]}
    BY <2>1 DEF OpToRel
  <2> QED BY <2>2
<1> QED BY <1>2

LEMMA NumbersByInduction ==
  ASSUME NEW S, 0 \in S, \A n \in Nat : n \in S => n + 1 \in S
  PROVE  Nat \subseteq S
<1> SUFFICES ASSUME Nat \ S # {} PROVE FALSE
  OBVIOUS
<1>1. PICK n \in Nat \ S : \A m \in Nat \ S : n <= m
  BY LeastNumber, Zenon
<1>2. n # 0 /\ n - 1 \in Nat
  BY <1>1
<1>3. n - 1 \in S
  BY <1>1, <1>2
<1> QED BY <1>1, <1>2, <1>3

(* What `CHOOSE the first` yields.                                         *)
LEMMA TheFirst ==
  ASSUME NEW T \in SUBSET Nat, T # {}
  PROVE  LET first == CHOOSE i \in T : \A j \in T : i <= j
         IN  first \in T /\ \A j \in T : first <= j
<1>1. \E i \in T : \A j \in T : i <= j
  BY LeastNumber
<1> QED BY <1>1, Zenon

-----------------------------------------------------------------------------
(* Iterator::filter.                                                       *)

(* f is what the loop of Those has kept of the first n places of seq.      *)
KeptUpTo(n, seq, S, f) ==
  f = [i \in 0..n |->
         IF i = 0 THEN <<>>
         ELSE IF seq[i] \in S THEN Append(f[i - 1], seq[i]) ELSE f[i - 1]]

LEMMA KeptExists ==
  ASSUME NEW T, NEW seq \in Seq(T), NEW S
  PROVE  \A n \in 0..Len(seq) : \E f : KeptUpTo(n, seq, S, f)
<1> DEFINE P == {n \in Nat : n <= Len(seq) => \E f : KeptUpTo(n, seq, S, f)}
<1>1. 0 \in P
  <2>1. KeptUpTo(0, seq, S, [i \in 0..0 |-> <<>>])
    BY DEF KeptUpTo
  <2> QED BY <2>1
<1>2. ASSUME NEW n \in Nat, n \in P PROVE n + 1 \in P
  <2> SUFFICES ASSUME n + 1 <= Len(seq) PROVE \E f : KeptUpTo(n + 1, seq, S, f)
    OBVIOUS
  <2>1. PICK f : KeptUpTo(n, seq, S, f)
    BY <1>2
  <2>2. \A i \in 0..n : f[i] = IF i = 0 THEN <<>> ELSE
                               IF seq[i] \in S THEN Append(f[i - 1], seq[i]) ELSE f[i - 1]
    BY <2>1, Zenon DEF KeptUpTo
  <2> DEFINE g == [i \in 0..(n + 1) |->
                     IF i <= n THEN f[i]
                     ELSE IF seq[n + 1] \in S THEN Append(f[n], seq[n + 1]) ELSE f[n]]
  <2>3. ASSUME NEW i \in 0..(n + 1)
        PROVE  g[i] = IF i = 0 THEN <<>> ELSE
                      IF seq[i] \in S THEN Append(g[i - 1], seq[i]) ELSE g[i - 1]
    <3>1. CASE i <= n
      <4>1. g[i] = f[i] /\ (i # 0 => g[i - 1] = f[i - 1])
        BY <3>1
      <4> QED BY <2>2, <3>1, <4>1
    <3>2. CASE i = n + 1
      BY <3>2
    <3> QED BY <3>1, <3>2
  <2>4. KeptUpTo(n + 1, seq, S, g)
    BY <2>3 DEF KeptUpTo
  <2> QED BY <2>4
<1>3. Nat \subseteq P
  BY <1>1, <1>2, NumbersByInduction, Zenon
<1> QED BY <1>3

Listed(seq) == {seq[i] : i \in DOMAIN seq}

(* The filter keeps the entries that pass the test and no others.          *)
LEMMA ThoseAreListed ==
  ASSUME NEW T, NEW seq \in Seq(T), NEW S
  PROVE  Those(seq, S) \in Seq(T) /\ Listed(Those(seq, S)) = Listed(seq) \cap S
<1> DEFINE f == CHOOSE f : KeptUpTo(Len(seq), seq, S, f)
<1>1. Len(seq) \in 0..Len(seq)
  OBVIOUS
<1>2. KeptUpTo(Len(seq), seq, S, f)
  BY <1>1, KeptExists, Zenon
<1>3. Those(seq, S) = f[Len(seq)]
  BY DEF Those, KeptUpTo
<1> HIDE DEF f
<1>4. \A i \in 0..Len(seq) : f[i] = IF i = 0 THEN <<>> ELSE
                                    IF seq[i] \in S THEN Append(f[i - 1], seq[i]) ELSE f[i - 1]
  BY <1>2, Zenon DEF KeptUpTo
<1> DEFINE Kept(n) == f[n] \in Seq(T) /\ Listed(f[n]) = {seq[i] : i \in 1..n} \cap S
           P == {n \in Nat : n <= Len(seq) => Kept(n)}
<1>5. 0 \in P
  <2>1. f[0] = <<>>
    BY <1>4
  <2>2. Listed(<<>>) = {} /\ <<>> \in Seq(T) /\ {seq[i] : i \in 1..0} = {}
    BY DEF Listed
  <2> QED BY <2>1, <2>2, Zenon
<1>6. ASSUME NEW n \in Nat, n \in P PROVE n + 1 \in P
  <2> SUFFICES ASSUME n + 1 <= Len(seq) PROVE Kept(n + 1)
    OBVIOUS
  <2>1. Kept(n) /\ seq[n + 1] \in T
    BY <1>6
  <2>2. f[n + 1] = IF seq[n + 1] \in S THEN Append(f[n], seq[n + 1]) ELSE f[n]
    BY <1>4
  <2>3. {seq[i] : i \in 1..(n + 1)} = {seq[i] : i \in 1..n} \cup {seq[n + 1]}
    <3>1. 1..(n + 1) = 1..n \cup {n + 1}
      OBVIOUS
    <3> QED BY <3>1
  <2>4. CASE seq[n + 1] \in S
    <3> DEFINE v == Append(f[n], seq[n + 1])
    <3>1. /\ v \in Seq(T) /\ Len(f[n]) \in Nat /\ DOMAIN v = 1..(Len(f[n]) + 1)
          /\ DOMAIN f[n] = 1..Len(f[n]) /\ v[Len(f[n]) + 1] = seq[n + 1]
          /\ \A i \in DOMAIN f[n] : v[i] = f[n][i]
      BY <2>1
    <3> HIDE DEF v
    <3>2. Listed(v) = Listed(f[n]) \cup {seq[n + 1]}
      BY ONLY <3>1, SMTT(60) DEF Listed
    <3>3. f[n + 1] = v
      BY <2>2, <2>4 DEF v
    <3> QED BY <2>1, <2>3, <2>4, <3>1, <3>2, <3>3
  <2>5. CASE seq[n + 1] \notin S
    BY <2>1, <2>2, <2>3, <2>5
  <2> QED BY <2>4, <2>5
<1>7. Nat \subseteq P
  BY <1>5, <1>6, NumbersByInduction, Zenon
<1>8. Kept(Len(seq))
  <2> HIDE DEF Kept
  <2>1. Len(seq) \in Nat /\ Len(seq) \in P
    BY <1>7
  <2> QED BY <2>1
<1>9. Listed(seq) = {seq[i] : i \in 1..Len(seq)}
  BY DEF Listed
<1> QED BY <1>3, <1>8, <1>9

-----------------------------------------------------------------------------
(* min_by_key.                                                             *)

(* Among the places of a list there is a first one with the smallest key.  *)
LEMMA FirstSmallest ==
  ASSUME NEW n \in Nat, n # 0, NEW k \in [1..n -> Nat]
  PROVE  \E i \in 1..n : (\A j \in 1..n : k[i] <= k[j]) /\ \A j \in 1..(i - 1) : k[j] # k[i]
<1>1. {k[i] : i \in 1..n} # {} /\ {k[i] : i \in 1..n} \subseteq Nat
  OBVIOUS
<1>2. PICK m \in {k[i] : i \in 1..n} : \A l \in {k[i] : i \in 1..n} : m <= l
  BY <1>1, LeastNumber, Zenon
<1> DEFINE T == {i \in 1..n : k[i] = m}
<1>3. T # {} /\ T \subseteq Nat
  BY <1>2
<1>4. PICK i \in T : \A j \in T : i <= j
  BY <1>3, LeastNumber, Zenon
<1>5. i \in 1..n /\ k[i] = m /\ \A j \in 1..n : k[i] <= k[j]
  BY <1>2, <1>4
<1>6. ASSUME NEW j \in 1..(i - 1) PROVE k[j] # k[i]
  BY <1>4, <1>5
<1> QED BY <1>5, <1>6

-----------------------------------------------------------------------------
(* weighted_pick.                                                          *)

(* f is what the sum of the weights has come to after each of n weights,   *)
(* and g what is left of a roll.                                           *)
SummedUpTo(n, w, f) == f = [i \in 0..n |-> IF i = 0 THEN 0 ELSE f[i - 1] + w[i]]
SubtractedUpTo(n, w, roll, g) == g = [i \in 0..n |-> IF i = 0 THEN roll ELSE g[i - 1] - w[i]]

LEMMA SumExists ==
  ASSUME NEW w \in Seq(Nat)
  PROVE  \A n \in 0..Len(w) : \E f : SummedUpTo(n, w, f)
<1> DEFINE P == {n \in Nat : n <= Len(w) => \E f : SummedUpTo(n, w, f)}
<1>1. 0 \in P
  <2>1. SummedUpTo(0, w, [i \in 0..0 |-> 0])
    BY DEF SummedUpTo
  <2> QED BY <2>1
<1>2. ASSUME NEW n \in Nat, n \in P PROVE n + 1 \in P
  <2> SUFFICES ASSUME n + 1 <= Len(w) PROVE \E f : SummedUpTo(n + 1, w, f)
    OBVIOUS
  <2>1. PICK f : SummedUpTo(n, w, f)
    BY <1>2
  <2>2. \A i \in 0..n : f[i] = IF i = 0 THEN 0 ELSE f[i - 1] + w[i]
    BY <2>1, Zenon DEF SummedUpTo
  <2> DEFINE g == [i \in 0..(n + 1) |-> IF i <= n THEN f[i] ELSE f[n] + w[n + 1]]
  <2>3. ASSUME NEW i \in 0..(n + 1) PROVE g[i] = IF i = 0 THEN 0 ELSE g[i - 1] + w[i]
    <3>1. CASE i <= n
      <4>1. g[i] = f[i] /\ (i # 0 => g[i - 1] = f[i - 1])
        BY <3>1
      <4> QED BY <2>2, <3>1, <4>1
    <3>2. CASE i = n + 1
      BY <3>2
    <3> QED BY <3>1, <3>2
  <2>4. SummedUpTo(n + 1, w, g)
    BY <2>3 DEF SummedUpTo
  <2> QED BY <2>4
<1>3. Nat \subseteq P
  BY <1>1, <1>2, NumbersByInduction, Zenon
<1> QED BY <1>3

LEMMA RestExists ==
  ASSUME NEW w \in Seq(Nat), NEW roll \in Nat
  PROVE  \A n \in 0..Len(w) : \E f : SubtractedUpTo(n, w, roll, f)
<1> DEFINE P == {n \in Nat : n <= Len(w) => \E f : SubtractedUpTo(n, w, roll, f)}
<1>1. 0 \in P
  <2>1. SubtractedUpTo(0, w, roll, [i \in 0..0 |-> roll])
    BY DEF SubtractedUpTo
  <2> QED BY <2>1
<1>2. ASSUME NEW n \in Nat, n \in P PROVE n + 1 \in P
  <2> SUFFICES ASSUME n + 1 <= Len(w) PROVE \E f : SubtractedUpTo(n + 1, w, roll, f)
    OBVIOUS
  <2>1. PICK f : SubtractedUpTo(n, w, roll, f)
    BY <1>2
  <2>2. \A i \in 0..n : f[i] = IF i = 0 THEN roll ELSE f[i - 1] - w[i]
    BY <2>1, Zenon DEF SubtractedUpTo
  <2> DEFINE g == [i \in 0..(n + 1) |-> IF i <= n THEN f[i] ELSE f[n] - w[n + 1]]
  <2>3. ASSUME NEW i \in 0..(n + 1) PROVE g[i] = IF i = 0 THEN roll ELSE g[i - 1] - w[i]
    <3>1. CASE i <= n
      <4>1. g[i] = f[i] /\ (i # 0 => g[i - 1] = f[i - 1])
        BY <3>1
      <4> QED BY <2>2, <3>1, <4>1
    <3>2. CASE i = n + 1
      BY <3>2
    <3> QED BY <3>1, <3>2
  <2>4. SubtractedUpTo(n + 1, w, roll, g)
    BY <2>3 DEF SubtractedUpTo
  <2> QED BY <2>4
<1>3. Nat \subseteq P
  BY <1>1, <1>2, NumbersByInduction, Zenon
<1> QED BY <1>3

(* The running sum of the weights is a number, starts at 0 and never       *)
(* falls; the rest of a roll is the roll less the running sum.             *)
LEMMA SumFacts ==
  ASSUME NEW w \in Seq(Nat)
  PROVE  LET sum == WeightUpTo(w) IN
         /\ sum[0] = 0 /\ \A i \in 1..Len(w) : sum[i] = sum[i - 1] + w[i]
         /\ \A i \in 0..Len(w) : sum[i] \in Nat
         /\ \A i, j \in 0..Len(w) : i <= j => sum[i] <= sum[j]
<1> DEFINE sum == WeightUpTo(w)
<1>1. SummedUpTo(Len(w), w, sum)
  <2>1. sum = CHOOSE f : SummedUpTo(Len(w), w, f)
    BY DEF WeightUpTo, SummedUpTo
  <2>2. Len(w) \in 0..Len(w)
    OBVIOUS
  <2> QED BY <2>1, <2>2, SumExists, Zenon
<1> HIDE DEF sum
<1>2. \A i \in 0..Len(w) : sum[i] = IF i = 0 THEN 0 ELSE sum[i - 1] + w[i]
  BY <1>1, Zenon DEF SummedUpTo
<1>3. sum[0] = 0 /\ \A i \in 1..Len(w) : sum[i] = sum[i - 1] + w[i]
  BY <1>2
<1> DEFINE P == {n \in Nat : n <= Len(w) => \A i \in 0..n : sum[i] \in Nat /\ sum[i] <= sum[n]}
<1>4. 0 \in P
  BY <1>3
<1>5. ASSUME NEW n \in Nat, n \in P PROVE n + 1 \in P
  <2> SUFFICES ASSUME n + 1 <= Len(w)
               PROVE  \A i \in 0..(n + 1) : sum[i] \in Nat /\ sum[i] <= sum[n + 1]
    OBVIOUS
  <2>1. (\A i \in 0..n : sum[i] \in Nat /\ sum[i] <= sum[n]) /\ w[n + 1] \in Nat
    BY <1>5
  <2>2. sum[n + 1] = sum[n] + w[n + 1]
    BY <1>3
  <2>3. ASSUME NEW i \in 0..(n + 1) PROVE sum[i] \in Nat /\ sum[i] <= sum[n + 1]
    <3>1. CASE i \in 0..n
      BY <2>1, <2>2, <3>1, SMTT(60)
    <3>2. CASE i = n + 1
      BY <2>1, <2>2, <3>2
    <3> QED BY <3>1, <3>2
  <2> QED BY <2>3
<1>6. Nat \subseteq P
  BY <1>4, <1>5, NumbersByInduction, Zenon
<1>7. \A j \in 0..Len(w) : sum[j] \in Nat /\ \A i \in 0..j : sum[i] <= sum[j]
  BY <1>6
<1> QED BY <1>3, <1>7 DEF sum

LEMMA RestIsRollLessSum ==
  ASSUME NEW w \in Seq(Nat), NEW roll \in Nat
  PROVE  \A i \in 0..Len(w) : LeftOfRoll(w, roll)[i] = roll - WeightUpTo(w)[i]
<1> DEFINE sum == WeightUpTo(w)
           left == LeftOfRoll(w, roll)
<1>1. SubtractedUpTo(Len(w), w, roll, left)
  <2>1. left = CHOOSE f : SubtractedUpTo(Len(w), w, roll, f)
    BY DEF LeftOfRoll, SubtractedUpTo
  <2>2. Len(w) \in 0..Len(w)
    OBVIOUS
  <2> QED BY <2>1, <2>2, RestExists, Zenon
<1>2. /\ sum[0] = 0 /\ \A i \in 1..Len(w) : sum[i] = sum[i - 1] + w[i]
      /\ \A i \in 0..Len(w) : sum[i] \in Nat
  BY SumFacts
<1> HIDE DEF sum, left
<1>3. \A i \in 0..Len(w) : left[i] = IF i = 0 THEN roll ELSE left[i - 1] - w[i]
  BY <1>1, Zenon DEF SubtractedUpTo
<1> DEFINE P == {n \in Nat : n <= Len(w) => left[n] = roll - sum[n]}
<1>4. 0 \in P
  BY <1>2, <1>3
<1>5. ASSUME NEW n \in Nat, n \in P PROVE n + 1 \in P
  <2> SUFFICES ASSUME n + 1 <= Len(w) PROVE left[n + 1] = roll - sum[n + 1]
    OBVIOUS
  <2>1. left[n] = roll - sum[n] /\ sum[n] \in Nat /\ w[n + 1] \in Nat
    BY <1>2, <1>5
  <2>2. left[n + 1] = left[n] - w[n + 1] /\ sum[n + 1] = sum[n] + w[n + 1]
    BY <1>2, <1>3
  <2> QED BY <2>1, <2>2
<1>6. Nat \subseteq P
  BY <1>4, <1>5, NumbersByInduction, Zenon
<1>7. \A i \in 0..Len(w) : left[i] = roll - sum[i]
  BY <1>6
<1> QED BY <1>7 DEF sum, left

(* The walk ends at a candidate, whatever the roll: the one whose share of *)
(* the total the roll falls into.  So the fallback behind the loop, to the *)
(* last candidate, is never needed ("Unreachable given the sum/roll        *)
(* invariant above").                                                      *)
LEMMA WalkLands ==
  ASSUME NEW w \in Seq(Nat), NEW roll \in Nat, roll < TotalWeight(w)
  PROVE  /\ Walk(w, roll) \in DOMAIN w
         /\ WeightUpTo(w)[Walk(w, roll) - 1] <= roll
         /\ roll < WeightUpTo(w)[Walk(w, roll)]
<1> DEFINE sum == WeightUpTo(w)
           stops == {i \in DOMAIN w : LeftOfRoll(w, roll)[i - 1] < w[i] \/ i = Len(w)}
           i == CHOOSE i \in stops : \A j \in stops : i <= j
<1>1. Walk(w, roll) = i
  BY DEF Walk
<1>2. /\ sum[0] = 0 /\ \A j \in 1..Len(w) : sum[j] = sum[j - 1] + w[j]
      /\ \A j \in 0..Len(w) : sum[j] \in Nat
  BY SumFacts
<1>3. Len(w) \in Nat /\ DOMAIN w = 1..Len(w) /\ \A j \in 1..Len(w) : w[j] \in Nat
  OBVIOUS
<1>4. roll < sum[Len(w)] /\ Len(w) # 0
  BY <1>2 DEF TotalWeight
<1>5. \A j \in 1..Len(w) : LeftOfRoll(w, roll)[j - 1] = roll - sum[j - 1]
  BY RestIsRollLessSum
<1> HIDE DEF sum
<1>6. ASSUME NEW j \in DOMAIN w PROVE j \in stops <=> roll < sum[j] \/ j = Len(w)
  <2>1. /\ j \in 1..Len(w) /\ j - 1 \in 0..Len(w) /\ w[j] \in Nat
        /\ LeftOfRoll(w, roll)[j - 1] = roll - sum[j - 1]
    BY <1>3, <1>5
  <2>2. sum[j - 1] \in Nat /\ sum[j] = sum[j - 1] + w[j]
    BY <1>2, <2>1, SMTT(60)
  <2>3. LeftOfRoll(w, roll)[j - 1] < w[j] <=> roll < sum[j]
    BY <2>1, <2>2, SMTT(60)
  <2> QED BY <2>3
<1>7. Len(w) \in stops /\ stops \subseteq Nat
  BY <1>3, <1>4
<1>8. stops \subseteq DOMAIN w
  OBVIOUS
<1> HIDE DEF stops
<1>9. i \in stops /\ \A j \in stops : i <= j
  BY <1>7, TheFirst
<1> HIDE DEF i
<1>10. i \in 1..Len(w) /\ roll < sum[i]
  BY <1>3, <1>4, <1>6, <1>8, <1>9
<1>11. sum[i - 1] <= roll
  <2>1. CASE i = 1
    BY <1>2, <2>1
  <2>2. CASE i # 1
    <3>1. i - 1 \in DOMAIN w /\ i - 1 \notin stops
      BY <1>3, <1>9, <1>10, <2>2
    <3>2. ~(roll < sum[i - 1])
      BY <1>6, <3>1
    <3> QED BY <1>2, <1>3, <3>1, <3>2
  <2> QED BY <2>1, <2>2
<1> QED BY <1>1, <1>3, <1>10, <1>11 DEF sum

(* A roll between two sums is between no others.                           *)
LEMMA OneInterval ==
  ASSUME NEW S, NEW i \in Nat, NEW k \in Nat, NEW r \in Nat,
         S[i - 1] \in Nat, S[i] \in Nat, S[k - 1] \in Nat, S[k] \in Nat,
         S[k - 1] <= r, r < S[k], k < i => S[k] <= S[i - 1], i < k => S[i] <= S[k - 1]
  PROVE  k = i <=> r \in S[i - 1]..(S[i] - 1)
<1>1. PICK a \in Nat, b \in Nat, c \in Nat, d \in Nat :
        a = S[i - 1] /\ b = S[i] /\ c = S[k - 1] /\ d = S[k]
  BY Zenon
<1>2. c <= r /\ r < d /\ (k < i => d <= a) /\ (i < k => b <= c) /\ (k = i => a = c /\ b = d)
  BY <1>1, Zenon
<1>3. k = i <=> r \in a..(b - 1)
  BY ONLY <1>2, a \in Nat, b \in Nat, c \in Nat, d \in Nat, i \in Nat, k \in Nat, r \in Nat, SMT
<1> QED BY <1>1, <1>3, Zenon

LEMMA SubInterval ==
  ASSUME NEW a \in Nat, NEW b \in Nat, NEW t \in Nat, b <= t
  PROVE  a..(b - 1) \subseteq 0..(t - 1)
  BY SMT

(* A candidate is selected by exactly as many rolls as its weight.         *)
LEMMA WalkIsProportional ==
  ASSUME NEW w \in Seq(Nat), NEW i \in DOMAIN w
  PROVE  Cardinality({r \in 0..(TotalWeight(w) - 1) : Walk(w, r) = i}) = w[i]
<1> DEFINE sum == WeightUpTo(w)
<1>1. /\ sum[0] = 0 /\ \A j \in 1..Len(w) : sum[j] = sum[j - 1] + w[j]
      /\ \A j \in 0..Len(w) : sum[j] \in Nat
      /\ \A j, k \in 0..Len(w) : j <= k => sum[j] <= sum[k]
  BY SumFacts
<1>2. Len(w) \in Nat /\ i \in 1..Len(w) /\ w[i] \in Nat /\ TotalWeight(w) = sum[Len(w)]
  BY DEF TotalWeight
<1>a. \A r \in Nat : r < sum[Len(w)] =>
        Walk(w, r) \in 1..Len(w) /\ sum[Walk(w, r) - 1] <= r /\ r < sum[Walk(w, r)]
  BY <1>2, WalkLands
<1> HIDE DEF sum
<1>3. ASSUME NEW r \in 0..(TotalWeight(w) - 1)
      PROVE  Walk(w, r) = i <=> r \in sum[i - 1]..(sum[i] - 1)
  <2>1. r \in Nat /\ r < sum[Len(w)]
    <3>1. PICK t \in Nat : t = sum[Len(w)]
      BY <1>1, <1>2, SMTT(60)
    <3>2. r \in 0..(t - 1)
      BY <1>2, <3>1, Zenon
    <3>3. r \in Nat /\ r < t
      BY ONLY <3>2, t \in Nat, SMT
    <3> QED BY <3>1, <3>3, Zenon
  <2>2. PICK k \in 1..Len(w) : k = Walk(w, r) /\ sum[k - 1] <= r /\ r < sum[k]
    BY <1>a, <2>1, Zenon
  <2>3. /\ k \in 0..Len(w) /\ k - 1 \in 0..Len(w) /\ i \in 0..Len(w) /\ i - 1 \in 0..Len(w)
        /\ i \in Nat /\ k \in Nat /\ (k < i => k <= i - 1) /\ (i < k => i <= k - 1)
    <3>1. PICK n \in Nat : n = Len(w) /\ i \in 1..n /\ k \in 1..n
      BY <1>2, Zenon
    <3>2. /\ k \in 0..n /\ k - 1 \in 0..n /\ i \in 0..n /\ i - 1 \in 0..n
          /\ i \in Nat /\ k \in Nat /\ (k < i => k <= i - 1) /\ (i < k => i <= k - 1)
      BY ONLY <3>1, SMT
    <3> QED BY <3>1, <3>2, Zenon
  <2>4. sum[i - 1] \in Nat /\ sum[i] \in Nat /\ sum[k - 1] \in Nat /\ sum[k] \in Nat
    BY <1>1, <2>3, Zenon
  <2>5. (k < i => sum[k] <= sum[i - 1]) /\ (i < k => sum[i] <= sum[k - 1])
    BY <1>1, <2>3, Zenon
  <2>6. k = i <=> r \in sum[i - 1]..(sum[i] - 1)
    BY ONLY <2>1, <2>2, <2>3, <2>4, <2>5, OneInterval, Zenon
  <2> QED BY <2>2, <2>6, Zenon
<1>4. sum[i - 1] \in Nat /\ sum[i] \in Nat /\ sum[i] = sum[i - 1] + w[i] /\ sum[i] <= TotalWeight(w)
      /\ TotalWeight(w) \in Nat
  <2>1. i \in 0..Len(w) /\ i - 1 \in 0..Len(w) /\ Len(w) \in 0..Len(w) /\ i <= Len(w)
    BY <1>2, SMT
  <2> QED BY <1>1, <1>2, <2>1, Zenon
<1>5. {r \in 0..(TotalWeight(w) - 1) : Walk(w, r) = i} = sum[i - 1]..(sum[i] - 1)
  <2>1. sum[i - 1]..(sum[i] - 1) \subseteq 0..(TotalWeight(w) - 1)
    BY ONLY <1>4, SubInterval, Zenon
  <2> QED BY <1>3, <2>1, Zenon
<1>6. Cardinality(sum[i - 1]..(sum[i] - 1)) = w[i]
  <2>1. PICK a \in Int : a = sum[i - 1]
    BY <1>4
  <2>2. PICK b \in Int : b = sum[i] - 1
    BY <1>2, <1>4, SMTT(60)
  <2>3. Cardinality(a..b) = IF a > b THEN 0 ELSE b - a + 1
    BY FS_Interval
  <2>4. PICK d \in Nat : d = w[i]
    BY <1>2
  <2>5. a \in Nat /\ sum[i] = a + d
    BY <1>4, <2>1, <2>4
  <2>6. b = a + d - 1
    BY <2>2, <2>5
  <2>7. (a > b => d = 0) /\ (~(a > b) => b - a + 1 = d)
    BY <2>5, <2>6, SMT
  <2>8. Cardinality(a..b) = w[i]
    BY ONLY <2>3, <2>4, <2>7, Zenon
  <2> QED BY <2>1, <2>2, <2>8
<1> QED BY <1>5, <1>6, Zenon

-----------------------------------------------------------------------------
(* The registry.                                                           *)

LEMMA EntryTypes ==
  ASSUME RegistryTypes, NEW s \in DOMAIN reg
  PROVE  reg[s] \in Entry
  BY DEF RegistryTypes

LEMMA UnknownIsLarge == UnknownLatency \in Nat /\ 0 < UnknownLatency
  BY SMT DEF UnknownLatency

LEMMA FreshIsEntry ==
  ASSUME NEW c \in Section
  PROVE  FreshEntry(c) \in Entry
<1>1. 0 \in 0..(UnknownLatency - 1) /\ 0 \in Nat
  BY UnknownIsLarge
<1>2. c.max \in Nat /\ c.region \in Regions \cup {""} /\ c.weight \in Nat /\ c.probed \in BOOLEAN
  BY Zenon DEF Section
<1> QED BY <1>1, <1>2, Zenon DEF FreshEntry, Entry

LEMMA InsertKeepsTypes ==
  ASSUME RegistryTypes, NEW s \in Names, NEW e \in Entry, Insert(s, e)
  PROVE  RegistryTypes'
<1>1. reg' \in [DOMAIN reg \cup {s} -> Entry]
  BY DEF Insert, RegistryTypes
<1> QED BY <1>1 DEF RegistryTypes

LEMMA UpdateKeepsTypes ==
  ASSUME RegistryTypes, NEW s \in DOMAIN reg, NEW e \in Entry, reg' = [reg EXCEPT ![s] = e]
  PROVE  RegistryTypes'
<1>1. reg' \in [DOMAIN reg -> Entry]
  BY DEF RegistryTypes
<1> QED BY <1>1 DEF RegistryTypes

(* Whoever writes the registry leaves well-formed entries behind.          *)
LEMMA RegistryIsTyped == Spec => []RegistryTypes
<1>1. Init => RegistryTypes
  <2> SUFFICES ASSUME Init PROVE RegistryTypes
    OBVIOUS
  <2>1. DOMAIN reg = DOMAIN Sections /\ reg \in [DOMAIN reg -> {reg[s] : s \in DOMAIN reg}]
    BY DEF Init
  <2>2. ASSUME NEW s \in DOMAIN reg PROVE reg[s] \in Entry
    <3>1. PICK c \in Sections[s] : reg[s] = FreshEntry(c)
      BY DEF Init
    <3>2. c \in Section
      BY <2>1, <3>1, ConfigAssumption
    <3> QED BY <3>1, <3>2, FreshIsEntry
  <2>3. DOMAIN reg \subseteq Names
    BY <2>1, ConfigAssumption
  <2> QED BY <2>1, <2>2, <2>3 DEF RegistryTypes
<1>2. RegistryTypes /\ [Next]_reg => RegistryTypes'
  <2> SUFFICES ASSUME RegistryTypes, [Next]_reg PROVE RegistryTypes'
    OBVIOUS
  <2>1. CASE UNCHANGED reg
    BY <2>1 DEF RegistryTypes
  <2>2. ASSUME NEW s \in Names, Register(s) PROVE RegistryTypes'
    <3>1. PICK max \in Limits : Insert(s, FreshEntry(Registered(max)))
      BY <2>2 DEF Register
    <3>2. max \in Nat
      BY ConfigAssumption
    <3>3. Registered(max) \in Section
      BY <3>2 DEF Registered, Section
    <3>4. FreshEntry(Registered(max)) \in Entry
      BY <3>3, FreshIsEntry
    <3> QED BY <3>1, <3>4, InsertKeepsTypes
  <2>3. ASSUME NEW s \in Names, Deregister(s) PROVE RegistryTypes'
    <3>1. reg' \in [DOMAIN reg \ {s} -> Entry]
      BY <2>3 DEF Deregister, RegistryTypes
    <3> QED BY <3>1 DEF RegistryTypes
  <2>4. ASSUME NEW s \in Names, Reload(s) PROVE RegistryTypes'
    <3>1. PICK c \in Sections[s] :
            Insert(s, IF s \in DOMAIN reg
                      THEN [FreshEntry(c) EXCEPT !.players = reg[s].players, !.online = reg[s].online]
                      ELSE FreshEntry(c))
      BY <2>4, Zenon DEF Reload
    <3>2. c \in Section
      BY <2>4, ConfigAssumption DEF Reload
    <3>3. FreshEntry(c) \in Entry /\ (s \in DOMAIN reg => reg[s] \in Entry)
      BY <3>2, FreshIsEntry, EntryTypes
    <3>4. CASE s \in DOMAIN reg
      <4>1. reg[s].players \in Nat /\ reg[s].online \in BOOLEAN
        BY <3>3, <3>4, Zenon DEF Entry
      <4>2. [FreshEntry(c) EXCEPT !.players = reg[s].players, !.online = reg[s].online] \in Entry
        BY <3>3, <4>1, Zenon DEF Entry
      <4> QED BY <3>1, <3>4, <4>2, InsertKeepsTypes
    <3>5. CASE s \notin DOMAIN reg
      BY <3>1, <3>3, <3>5, InsertKeepsTypes
    <3> QED BY <3>4, <3>5, SMTT(60)
  <2>5. ASSUME NEW s \in Names, Status(s) \/ Count(s) \/ ProbeSucceeds(s) \/ ProbeFails(s)
        PROVE  RegistryTypes'
    <3>1. s \in DOMAIN reg /\ reg[s] \in Entry
      BY <2>5, EntryTypes DEF Status, Count, ProbeSucceeds, ProbeFails
    <3>2. CASE Status(s)
      <4>1. PICK n \in 0..MaxCount, b \in BOOLEAN :
              reg' = [reg EXCEPT ![s].players = n, ![s].online = b]
        BY <3>2, Zenon DEF Status
      <4>2. reg' = [reg EXCEPT ![s] = [reg[s] EXCEPT !.players = n, !.online = b]]
        BY <3>1, <4>1, Zenon DEF RegistryTypes
      <4>3. n \in Nat
        BY ConfigAssumption
      <4>4. [reg[s] EXCEPT !.players = n, !.online = b] \in Entry
        BY <3>1, <4>3, Zenon DEF Entry
      <4> QED BY <3>1, <4>2, <4>4, UpdateKeepsTypes, Zenon
    <3>3. CASE Count(s)
      <4>1. PICK n : reg' = [reg EXCEPT ![s].players = n]
                     /\ \E m \in {reg[s].players - 1, reg[s].players + 1} : n = m % (MaxCount + 1)
        BY <3>3, Zenon DEF Count
      <4>2. n \in Nat
        <5>1. MaxCount \in Nat /\ reg[s].players \in Nat
          BY <3>1, ConfigAssumption, Zenon DEF Entry
        <5> QED BY <4>1, <5>1
      <4>3. [reg[s] EXCEPT !.players = n] \in Entry
        BY <3>1, <4>2, Zenon DEF Entry
      <4> QED BY <3>1, <4>1, <4>3, UpdateKeepsTypes, Zenon
    <3>4. CASE ProbeSucceeds(s)
      <4>1. PICK l \in Latencies : reg' = [reg EXCEPT ![s].latency = l, ![s].unhealthy = FALSE]
        BY <3>4, Zenon DEF ProbeSucceeds
      <4>2. reg' = [reg EXCEPT ![s] = [reg[s] EXCEPT !.latency = l, !.unhealthy = FALSE]]
        BY <3>1, <4>1, Zenon DEF RegistryTypes
      <4>3. l \in 0..(UnknownLatency - 1)
        BY ConfigAssumption, Zenon
      <4>4. [reg[s] EXCEPT !.latency = l, !.unhealthy = FALSE] \in Entry
        BY <3>1, <4>3, Zenon DEF Entry
      <4> QED BY <3>1, <4>2, <4>4, UpdateKeepsTypes, Zenon
    <3>5. CASE ProbeFails(s)
      <4>1. reg' = [reg EXCEPT ![s].unhealthy = TRUE]
        BY <3>5 DEF ProbeFails
      <4>2. [reg[s] EXCEPT !.unhealthy = TRUE] \in Entry
        BY <3>1, Zenon DEF Entry
      <4> QED BY <3>1, <4>1, <4>2, UpdateKeepsTypes, Zenon
    <3> QED BY <2>5, <3>2, <3>3, <3>4, <3>5
  <2> QED BY <2>1, <2>2, <2>3, <2>4, <2>5 DEF Next
<1> QED BY <1>1, <1>2, PTL DEF Spec

-----------------------------------------------------------------------------
(* Group selection.                                                        *)

LEMMA CandidatesAreOpen ==
  ASSUME NEW g \in DOMAIN ServerGroups
  PROVE  LET candidates == EligibleMembers(ServerGroups[g], reg) IN
         candidates \in Seq(Names) /\ Listed(candidates) = Open(ServerGroups[g])
<1> DEFINE able == {s \in DOMAIN reg : reg[s].online /\ ~IsFull(reg[s])}
<1>1. ServerGroups[g].members \in Seq(Names)
  BY GroupsAssumption
<1>2. EligibleMembers(ServerGroups[g], reg) = Those(ServerGroups[g].members, able)
  BY DEF EligibleMembers
<1>3. Open(ServerGroups[g]) = Listed(ServerGroups[g].members) \cap able
  BY DEF Open, Listed
<1> HIDE DEF able
<1> QED BY <1>1, <1>2, <1>3, ThoseAreListed

(* The weights of the candidates, as the list that weighted_pick walks.    *)
LEMMA WeightsOfCandidates ==
  ASSUME RegistryTypes, NEW c \in Seq(Names), Listed(c) \subseteq DOMAIN reg
  PROVE  Weights(c, reg) \in Seq(Nat) /\ Len(Weights(c, reg)) = Len(c)
<1>1. Len(c) \in Nat /\ DOMAIN c = 1..Len(c)
  OBVIOUS
<1>2. ASSUME NEW i \in DOMAIN c PROVE reg[c[i]].weight \in Nat
  <2>1. reg[c[i]] \in Entry
    BY EntryTypes DEF Listed
  <2> QED BY <2>1, Zenon DEF Entry
<1>3. Weights(c, reg) \in [1..Len(c) -> Nat]
  BY <1>1, <1>2 DEF Weights
<1> QED BY <1>1, <1>3

LEMMA WeightedPickFacts ==
  ASSUME RegistryTypes, NEW c \in Seq(Names), Listed(c) \subseteq DOMAIN reg
  PROVE  /\ WeightedPick(c, reg) \subseteq Listed(c)
         /\ WeightedPick(c, reg) = {} <=> Listed(c) = {}
<1> DEFINE w == Weights(c, reg)
           total == TotalWeight(w)
<1>1. w \in Seq(Nat) /\ Len(w) = Len(c) /\ DOMAIN w = DOMAIN c
  BY WeightsOfCandidates DEF Weights
<1>2. total \in Nat
  <2>1. Len(w) \in 0..Len(w)
    BY <1>1
  <2> QED BY <1>1, <2>1, SumFacts DEF TotalWeight
<1>3. CASE c = <<>>
  BY <1>3 DEF WeightedPick, Listed
<1>4. CASE c # <<>>
  <2>1. 1 \in DOMAIN c
    BY <1>4
  <2>2. CASE total = 0
    <3>1. WeightedPick(c, reg) = {c[1]}
      BY <1>4, <2>2 DEF WeightedPick
    <3> QED BY <2>1, <3>1 DEF Listed
  <2>3. CASE total # 0
    <3>1. WeightedPick(c, reg) = {c[Walk(w, roll)] : roll \in 0..(total - 1)}
      BY <1>4, <2>3 DEF WeightedPick
    <3>2. ASSUME NEW roll \in 0..(total - 1) PROVE Walk(w, roll) \in DOMAIN c
      <4>1. roll \in Nat /\ roll < total
        BY <1>2
      <4> QED BY <1>1, <4>1, WalkLands
    <3>3. 0 \in 0..(total - 1)
      BY <1>2, <2>3, SMTT(60)
    <3> HIDE DEF w, total
    <3> QED BY <2>1, <3>1, <3>2, <3>3, Zenon DEF Listed
  <2> QED BY <2>2, <2>3
<1> QED BY <1>3, <1>4

(* Whatever its strategy, a group yields one of its open members, and one  *)
(* if there is one.                                                        *)
LEMMA GroupPicks ==
  ASSUME RegistryTypes, NEW g \in DOMAIN ServerGroups
  PROVE  LET group == ServerGroups[g]
             picks == SelectFromGroup(group, reg)
         IN  /\ picks \subseteq Open(group)
             /\ picks = {} <=> Open(group) = {}
             /\ group.strategy = "least_connections" =>
                  \A s \in picks, t \in Open(group) : reg[s].players <= reg[t].players
             /\ group.strategy = "latency" =>
                  \A s \in picks, t \in Open(group) :
                    reg[t].latency # 0 => reg[s].latency \in 1..reg[t].latency
<1> DEFINE group == ServerGroups[g]
           picks == SelectFromGroup(group, reg)
           c == EligibleMembers(group, reg)
<1>1. c \in Seq(Names) /\ Listed(c) = Open(group)
  BY CandidatesAreOpen
<1>2. Open(group) \subseteq DOMAIN reg
  BY DEF Open
<1>3. ASSUME NEW s \in Open(group)
      PROVE  reg[s].players \in Nat /\ reg[s].latency \in 0..(UnknownLatency - 1)
  BY <1>2, EntryTypes, Zenon DEF Entry
<1>4. group.strategy \in Strategies
  BY GroupsAssumption
<1>5. CASE group.strategy = "weighted"
  <2>1. picks = WeightedPick(c, reg)
    BY <1>5 DEF SelectFromGroup
  <2> HIDE DEF picks, c
  <2>2. picks \subseteq Open(group) /\ (picks = {} <=> Open(group) = {})
    BY <1>1, <1>2, <2>1, WeightedPickFacts
  <2> QED BY <1>5, <2>2 DEF picks
<1>6. Len(c) \in Nat /\ DOMAIN c = 1..Len(c) /\ (c = <<>> <=> Len(c) = 0)
      /\ (Open(group) = {} <=> Len(c) = 0) /\ \A i \in DOMAIN c : c[i] \in Open(group)
  <2> HIDE DEF c
  <2>1. Len(c) \in Nat /\ DOMAIN c = 1..Len(c) /\ (c = <<>> <=> Len(c) = 0)
    BY <1>1
  <2>2. \A i \in DOMAIN c : c[i] \in Open(group)
    BY <1>1 DEF Listed
  <2>3. Open(group) = {} => Len(c) = 0
    <3>1. DOMAIN c # {} => Open(group) # {}
      BY <2>2
    <3> QED BY <2>1, <3>1
  <2>4. Len(c) = 0 => Open(group) = {}
    <3>1. DOMAIN c = {} => Listed(c) = {}
      BY DEF Listed
    <3> QED BY <1>1, <2>1, <3>1
  <2> QED BY <2>1, <2>2, <2>3, <2>4, SMTT(60)
<1>7. CASE group.strategy = "least_connections"
  <2> DEFINE k == [i \in 1..Len(c) |-> reg[c[i]].players]
             best == {i \in DOMAIN c : (\A j \in DOMAIN c : reg[c[i]].players <= reg[c[j]].players)
                                       /\ \A j \in 1..(i - 1) : reg[c[j]].players # reg[c[i]].players}
  <2>1. picks = {c[i] : i \in best}
    BY <1>7 DEF SelectFromGroup, FirstMin
  <2> HIDE DEF picks, c
  <2>2. k \in [1..Len(c) -> Nat]
    BY <1>3, <1>6, SMTT(60)
  <2>3. Len(c) # 0 => best # {}
    <3> SUFFICES ASSUME Len(c) # 0 PROVE best # {}
      OBVIOUS
    <3>1. PICK i \in 1..Len(c) : (\A j \in 1..Len(c) : k[i] <= k[j])
                                 /\ \A j \in 1..(i - 1) : k[j] # k[i]
      <4> HIDE DEF k
      <4> QED BY <1>6, <2>2, FirstSmallest, Zenon
    <3>2. i \in best
      <4>1. i \in DOMAIN c /\ i \in Nat /\ \A j \in 1..(i - 1) : j \in 1..Len(c)
        BY <1>6
      <4>2. \A j \in 1..Len(c) : k[j] = reg[c[j]].players
        OBVIOUS
      <4> HIDE DEF k
      <4> QED BY <1>6, <3>1, <4>1, <4>2, SMTT(60)
    <3> QED BY <3>2
  <2>4. picks \subseteq Open(group) /\ (picks = {} <=> Open(group) = {})
    BY <1>6, <2>1, <2>3, Zenon
  <2>5. ASSUME NEW s \in picks, NEW t \in Open(group) PROVE reg[s].players <= reg[t].players
    <3>1. PICK i \in best : s = c[i]
      BY <2>1
    <3>2. PICK j \in DOMAIN c : t = c[j]
      BY <1>1 DEF Listed
    <3> QED BY <3>1, <3>2
  <2> QED BY <1>7, <2>4, <2>5 DEF picks
<1>8. CASE group.strategy = "latency"
  <2> DEFINE k == [i \in 1..Len(c) |-> LatencyKey(reg[c[i]])]
             best == {i \in DOMAIN c :
                        (\A j \in DOMAIN c : LatencyKey(reg[c[i]]) <= LatencyKey(reg[c[j]]))
                        /\ \A j \in 1..(i - 1) : LatencyKey(reg[c[j]]) # LatencyKey(reg[c[i]])}
  <2>1. picks = {c[i] : i \in best}
    BY <1>8 DEF SelectFromGroup, FirstMin
  <2> HIDE DEF picks, c
  <2>a. ASSUME NEW s \in Open(group) PROVE LatencyKey(reg[s]) \in Nat
    BY <1>3, UnknownIsLarge DEF LatencyKey
  <2>2. k \in [1..Len(c) -> Nat]
    BY <1>6, <2>a
  <2>3. Len(c) # 0 => best # {}
    <3> SUFFICES ASSUME Len(c) # 0 PROVE best # {}
      OBVIOUS
    <3>1. PICK i \in 1..Len(c) : (\A j \in 1..Len(c) : k[i] <= k[j])
                                 /\ \A j \in 1..(i - 1) : k[j] # k[i]
      <4> HIDE DEF k
      <4> QED BY <1>6, <2>2, FirstSmallest, Zenon
    <3>2. i \in best
      <4>1. i \in DOMAIN c /\ i \in Nat /\ \A j \in 1..(i - 1) : j \in 1..Len(c)
        BY <1>6
      <4>2. \A j \in 1..Len(c) : k[j] = LatencyKey(reg[c[j]])
        OBVIOUS
      <4> HIDE DEF k
      <4> QED BY <1>6, <3>1, <4>1, <4>2, SMTT(60)
    <3> QED BY <3>2
  <2>4. picks \subseteq Open(group) /\ (picks = {} <=> Open(group) = {})
    BY <1>6, <2>1, <2>3, Zenon
  <2>5. ASSUME NEW s \in picks, NEW t \in Open(group), reg[t].latency # 0
        PROVE  reg[s].latency \in 1..reg[t].latency
    <3>1. PICK i \in best : s = c[i]
      BY <2>1
    <3>2. PICK j \in DOMAIN c : t = c[j]
      BY <1>1 DEF Listed
    <3>3. LatencyKey(reg[s]) <= LatencyKey(reg[t])
      BY <3>1, <3>2
    <3>4. s \in Open(group)
      BY <2>4
    <3> QED BY <1>3, <2>5, <3>3, <3>4, UnknownIsLarge, SMTT(60) DEF LatencyKey
  <2> QED BY <1>8, <2>4, <2>5 DEF picks
<1> QED BY <1>4, <1>5, <1>7, <1>8, SMTT(60) DEF Strategies

(* A group hands out a member only while it is online and has room, finds  *)
(* one whenever there is one, and prefers as its strategy says.            *)
THEOREM GroupsHaveRoom == Spec => []GroupPicksHaveRoom
<1>1. RegistryTypes => GroupPicksHaveRoom
  BY GroupPicks, SMTT(60) DEF GroupPicksHaveRoom
<1> QED BY <1>1, RegistryIsTyped, PTL

(* The weighted strategy is fair for every list of weights: of the rolls   *)
(* below the total, exactly as many select a candidate as its weight says. *)
THEOREM WeightsAreChances == Spec => []WeightedIsProportional
<1>1. RegistryTypes => WeightedIsProportional
  <2> SUFFICES ASSUME RegistryTypes, NEW g \in DOMAIN ServerGroups,
                      NEW c, c = EligibleMembers(ServerGroups[g], reg),
                      NEW w, w = Weights(c, reg), NEW i \in DOMAIN w
               PROVE  Cardinality({r \in 0..(TotalWeight(w) - 1) : Walk(w, r) = i}) = w[i]
    BY DEF WeightedIsProportional
  <2>1. c \in Seq(Names) /\ Listed(c) = Open(ServerGroups[g])
    BY CandidatesAreOpen
  <2>2. Listed(c) \subseteq DOMAIN reg
    BY <2>1 DEF Open
  <2>3. w \in Seq(Nat)
    BY <2>1, <2>2, WeightsOfCandidates
  <2> QED BY <2>3, WalkIsProportional
<1> QED BY <1>1, RegistryIsTyped, PTL

-----------------------------------------------------------------------------
(* The rules, and the last resort.                                         *)

LEMMA ResolvedIsOnline ==
  ASSUME RegistryTypes, NEW name
  PROVE  ResolveTarget(name, reg) \subseteq Online(reg)
<1>1. CASE name \in DOMAIN ServerGroups
  <2>1. SelectFromGroup(ServerGroups[name], reg) \subseteq Open(ServerGroups[name])
    BY <1>1, GroupPicks
  <2>2. Open(ServerGroups[name]) \subseteq Online(reg)
    BY DEF Open, Online
  <2> QED BY <1>1, <2>1, <2>2 DEF ResolveTarget
<1>2. CASE name \notin DOMAIN ServerGroups
  BY <1>2 DEF ResolveTarget
<1> QED BY <1>1, <1>2

(* What select promises, and what it passes on to those that end in it.    *)
Routes(picks) == picks \subseteq Online(reg) /\ (picks = {} <=> Online(reg) = {})

LEMMA SelectRoutes ==
  ASSUME RegistryTypes
  PROVE  Routes(Select(reg))
<1>1. ResolveTarget(DefaultServer, reg) \subseteq Online(reg)
  BY ResolvedIsOnline
<1> QED BY <1>1 DEF Routes, Select

LEMMA SelectForRoutes ==
  ASSUME RegistryTypes, NEW targets \in RuleTargets
  PROVE  Routes(SelectFor(targets, reg))
<1> DEFINE usable == {i \in DOMAIN targets : ResolveTarget(targets[i], reg) # {}}
           first == CHOOSE i \in usable : \A j \in usable : i <= j
<1>1. usable \subseteq Nat
  BY RulesAssumption
<1>2. CASE usable = {}
  <2>1. SelectFor(targets, reg) = Select(reg)
    BY <1>2 DEF SelectFor
  <2> QED BY <2>1, SelectRoutes
<1>3. CASE usable # {}
  <2>1. SelectFor(targets, reg) = ResolveTarget(targets[first], reg)
    BY <1>3 DEF SelectFor
  <2>2. first \in usable
    <3> HIDE DEF usable
    <3> QED BY <1>1, <1>3, TheFirst, SMTT(60)
  <2> HIDE DEF first
  <2>3. ResolveTarget(targets[first], reg) # {}
    BY <2>2
  <2>4. ResolveTarget(targets[first], reg) \subseteq Online(reg)
    BY ResolvedIsOnline
  <2> QED BY <2>1, <2>3, <2>4 DEF Routes
<1> QED BY <1>2, <1>3

LEMMA SelectWithRegionRoutes ==
  ASSUME RegistryTypes, NEW region
  PROVE  Routes(SelectWithRegion(region, reg))
  BY SelectRoutes, SMTT(60) DEF Routes, SelectWithRegion

(* Whatever the registry, the rules and the region of the client, routing  *)
(* finds a server as long as one is online, and never an offline one.      *)
THEOREM RoutingFindsOnline == Spec => []RoutesExactlyWhenOnline
<1>1. RegistryTypes => RoutesExactlyWhenOnline
  BY SelectRoutes, SelectForRoutes, SelectWithRegionRoutes, SMTT(60) DEF RoutesExactlyWhenOnline, Routes
<1> QED BY <1>1, RegistryIsTyped, PTL

-----------------------------------------------------------------------------
(* Lobbies by region.                                                      *)

(* The tier that is searched is the region itself if it has a healthy      *)
(* server, and healthy servers in any case; it is empty if there are none. *)
LEMMA TierIsHealthy ==
  ASSUME NEW region
  PROVE  LET tier == LobbyTier(region, reg) IN
         /\ tier \subseteq HealthyServers(reg)
         /\ tier = {} => HealthyServers(reg) = {} /\ InRegion(region, reg) = {}
         /\ InRegion(region, reg) # {} => tier = InRegion(region, reg)
<1>1. InRegion(region, reg) \subseteq HealthyServers(reg)
  BY Zenon DEF InRegion
<1> QED BY <1>1 DEF LobbyTier, OrElse

LEMMA FewestExist ==
  ASSUME RegistryTypes, NEW S \in SUBSET DOMAIN reg, S # {}
  PROVE  FewestPlayers(S, reg) # {}
<1> DEFINE N == {reg[s].players : s \in S}
<1>1. \A s \in S : reg[s].players \in Nat
  BY EntryTypes, Zenon DEF Entry
<1>2. N \subseteq Nat /\ N # {}
  BY <1>1
<1>3. PICK n \in N : \A m \in N : n <= m
  BY <1>2, LeastNumber, Zenon
<1>4. PICK s \in S : n = reg[s].players
  BY <1>3
<1>5. s \in FewestPlayers(S, reg)
  BY <1>3, <1>4, SMTT(60) DEF FewestPlayers
<1> QED BY <1>5

(* While every registered server is online, only a proxy without a healthy *)
(* server sends clients to an unhealthy one, and only a region without a   *)
(* healthy server loses its clients to another.                            *)
THEOREM RegionsAreKept == Spec => []RegionPicksAreHealthy
<1>1. RegistryTypes => RegionPicksAreHealthy
  <2> SUFFICES ASSUME RegistryTypes, Online(reg) = DOMAIN reg, NEW region,
                      NEW s \in SelectWithRegion(region, reg)
               PROVE  /\ reg[s].unhealthy => HealthyServers(reg) = {}
                      /\ reg[s].region # region => region = "global" \/ InRegion(region, reg) = {}
    BY DEF RegionPicksAreHealthy
  <2> DEFINE tier == LobbyTier(region, reg)
             lobbies == SelectLobbyByRegion(region, reg)
  <2>1. /\ tier \subseteq HealthyServers(reg)
        /\ tier = {} => HealthyServers(reg) = {} /\ InRegion(region, reg) = {}
        /\ InRegion(region, reg) # {} => tier = InRegion(region, reg)
    BY TierIsHealthy, Zenon
  <2>2. HealthyServers(reg) \subseteq DOMAIN reg
    BY DEF HealthyServers
  <2>3. lobbies = OrElse(FewestPlayers(tier, reg), DOMAIN reg)
    BY Zenon DEF SelectLobbyByRegion
  <2> HIDE DEF tier, lobbies
  <2>4. CASE tier = {}
    BY <2>1, <2>4, Zenon
  <2>5. CASE tier # {}
    <3>1. FewestPlayers(tier, reg) # {} /\ FewestPlayers(tier, reg) \subseteq tier
      BY <2>1, <2>2, <2>5, FewestExist DEF FewestPlayers
    <3>2. lobbies # {} /\ lobbies \subseteq tier
      BY <2>3, <3>1, Zenon DEF OrElse
    <3>3. s \in tier
      BY <2>1, <2>2, <3>2 DEF SelectWithRegion, lobbies
    <3>4. ~reg[s].unhealthy
      BY <2>1, <3>3 DEF HealthyServers
    <3>5. InRegion(region, reg) # {} => region = "global" \/ reg[s].region = region
      BY <2>1, <3>3 DEF InRegion
    <3> QED BY <3>4, <3>5, Zenon
  <2> QED BY <2>4, <2>5, Zenon
<1> QED BY <1>1, RegistryIsTyped, PTL
=============================================================================
