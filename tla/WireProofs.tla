------------------------------ MODULE WireProofs ------------------------------
(***************************************************************************)
(* What boost::pfr and serde.hpp compute, for structs of every length and  *)
(* messages of every shape: that the fields are counted, indexed, compared *)
(* and streamed as promised, and carried over the wire whole.              *)
(*                                                                         *)
(* The recursive functions of the model are known by their equations only. *)
(* Of each it is shown that some function satisfies its equation (a closed *)
(* form, or the lemma Recursion), then what the value is, by the least     *)
(* measure at which it would be another.                                   *)
(***************************************************************************)
EXTENDS Wire, SequenceTheorems, WellFoundedInduction, TLAPS

-----------------------------------------------------------------------------
(* Every set of numbers that is not empty has a least one. *)
LEMMA LeastNumber ==
  ASSUME NEW T \in SUBSET Nat, T # {}
  PROVE  \E x \in T : \A y \in T : x <= y
<1> DEFINE R == OpToRel(<, Nat)
<1>1. IsWellFoundedOn(R, Nat)  BY NatLessThanWellFounded
<1>2. ASSUME NEW m \in Nat, NEW n \in Nat, m < n PROVE <<m, n>> \in R
  BY <1>2 DEF OpToRel
<1> HIDE DEF R
<1>3. PICK x \in T : \A y \in T : ~(<<y, x>> \in R)  BY <1>1, WFMin, Zenon
<1>4. ASSUME NEW y \in T PROVE x <= y
  <2>1. x \in Nat /\ y \in Nat  OBVIOUS
  <2>2. ~(y < x)  BY <2>1, <1>2, <1>3, Zenon
  <2> QED  BY <2>1, <2>2
<1> QED  BY <1>4

(* Induction, on a set of numbers. *)
LEMMA EveryNumber ==
  ASSUME NEW S \in SUBSET Nat, 0 \in S, \A n \in Nat : n \in S => n + 1 \in S
  PROVE  S = Nat
<1>1. SUFFICES ASSUME Nat \ S # {} PROVE FALSE  OBVIOUS
<1>2. PICK x \in Nat \ S : \A y \in Nat \ S : x <= y  BY <1>1, LeastNumber
<1>3. x # 0 /\ x - 1 \in Nat  BY <1>2
<1>4. x - 1 \in S  BY <1>2, <1>3
<1>5. (x - 1) + 1 \in S  BY <1>3, <1>4
<1> QED  BY <1>2, <1>3, <1>5

(* The same by strong induction: a set that holds a number as soon as it     *)
(* holds all smaller ones.                                                   *)
LEMMA EveryNumberAfterTheSmaller ==
  ASSUME NEW S \in SUBSET Nat,
         \A n \in Nat : (\A m \in Nat : m < n => m \in S) => n \in S
  PROVE  S = Nat
<1>1. SUFFICES ASSUME Nat \ S # {} PROVE FALSE  OBVIOUS
<1>2. PICK x \in Nat \ S : \A y \in Nat \ S : x <= y  BY <1>1, LeastNumber
<1>3. ASSUME NEW m \in Nat, m < x PROVE m \in S  BY <1>2, <1>3
<1> QED  BY <1>2, <1>3

(* A function may be defined by a first value and by a step from each to the *)
(* next.                                                                     *)
Steps(step, n, S) == step \in [1..n -> [S -> S]]
Recursive(f, base, step, n, S) ==
  f \in [0..n -> S] /\ f[0] = base /\ \A i \in 1..n : f[i] = step[i][f[i - 1]]

LEMMA Recursion ==
  ASSUME NEW S, NEW base \in S, NEW n \in Nat, NEW step, Steps(step, n, S)
  PROVE  \E f : Recursive(f, base, step, n, S)
<1> DEFINE T == {k \in Nat : k <= n => \E f : Recursive(f, base, step, k, S)}
<1>1. 0 \in T
  <2> DEFINE f == [i \in 0..0 |-> base]
  <2>1. Recursive(f, base, step, 0, S)  BY DEF Recursive
  <2> QED  BY <2>1
<1>2. ASSUME NEW k \in Nat, k \in T PROVE k + 1 \in T
  <2>1. SUFFICES ASSUME k + 1 <= n PROVE \E f : Recursive(f, base, step, k + 1, S)  OBVIOUS
  <2>2. PICK f : Recursive(f, base, step, k, S)  BY <1>2, <2>1
  <2>3. step[k + 1] \in [S -> S] /\ f[k] \in S  BY <2>1, <2>2 DEF Recursive, Steps
  <2> DEFINE v == step[k + 1][f[k]]
             g == [i \in 0..k + 1 |-> IF i <= k THEN f[i] ELSE v]
  <2>4. v \in S  BY <2>3
  <2> HIDE DEF v
  <2>5. g \in [0..k + 1 -> S]  BY <2>2, <2>4 DEF Recursive
  <2>6. g[0] = base  BY <2>2 DEF Recursive
  <2>7. ASSUME NEW i \in 1..k + 1 PROVE g[i] = step[i][g[i - 1]]
    <3>1. CASE i = k + 1
      <4>1. i - 1 = k /\ g[i - 1] = f[k] /\ g[i] = v  BY <3>1
      <4> QED  BY <3>1, <4>1 DEF v
    <3>2. CASE i # k + 1
      <4>1. i \in 1..k /\ g[i - 1] = f[i - 1] /\ g[i] = f[i]  BY <3>2
      <4> QED  BY <2>2, <4>1 DEF Recursive
    <3> QED  BY <3>1, <3>2
  <2> HIDE DEF g
  <2>8. Recursive(g, base, step, k + 1, S)  BY <2>5, <2>6, <2>7 DEF Recursive
  <2> QED  BY <2>8
<1> HIDE DEF T
<1>3. T \in SUBSET Nat  BY DEF T
<1>4. n \in T  BY <1>1, <1>2, <1>3, EveryNumber
<1> QED  BY <1>4 DEF T

(* And that determines its values. *)
LEMMA StepByStep ==
  ASSUME NEW n \in Nat, NEW f, NEW g,
         f[0] = g[0], \A i \in 1..n : f[i - 1] = g[i - 1] => f[i] = g[i]
  PROVE  \A i \in 0..n : f[i] = g[i]
<1> DEFINE T == {k \in Nat : k <= n => f[k] = g[k]}
<1>1. 0 \in T  OBVIOUS
<1>2. ASSUME NEW k \in Nat, k \in T PROVE k + 1 \in T
  <2>1. SUFFICES ASSUME k + 1 <= n PROVE f[k + 1] = g[k + 1]  OBVIOUS
  <2>2. k + 1 \in 1..n /\ (k + 1) - 1 = k /\ f[k] = g[k]  BY <1>2, <2>1
  <2> QED  BY <2>2
<1> HIDE DEF T
<1>3. T \in SUBSET Nat  BY DEF T
<1>4. T = Nat  BY <1>1, <1>2, <1>3, EveryNumber
<1> TAKE i \in 0..n
<1>5. i \in Nat /\ i <= n  OBVIOUS
<1> QED  BY <1>4, <1>5 DEF T

-----------------------------------------------------------------------------
(* The layout of a struct. *)
Widths == {1, 2, 4, 8}

(* Of a set of widths there is a widest one. *)
LEMMA Widest ==
  ASSUME NEW T \in SUBSET Widths, T # {}
  PROVE  Max(T) \in T /\ \A y \in T : Max(T) >= y
<1>1. \E x \in T : \A y \in T : x >= y
  <2> USE DEF Widths
  <2>1. CASE 8 \in T  BY <2>1
  <2>2. CASE 8 \notin T /\ 4 \in T  BY <2>2
  <2>3. CASE 8 \notin T /\ 4 \notin T /\ 2 \in T  BY <2>3
  <2>4. CASE 8 \notin T /\ 4 \notin T /\ 2 \notin T
    <3>1. \A y \in T : y = 1  BY <2>4
    <3>2. PICK x \in T : TRUE  OBVIOUS
    <3>3. x = 1 /\ \A y \in T : x >= y  BY <3>1, <3>2
    <3> QED  BY <3>3
  <2> QED  BY <2>1, <2>2, <2>3, <2>4
<1> QED  BY <1>1, Zenon DEF Max

(* A width rounds a number up to a multiple of itself, and leaves one as it  *)
(* is.                                                                       *)
LEMMA RoundedToWidth ==
  ASSUME NEW w \in Widths, NEW n \in Nat
  PROVE  w \in Nat /\ RoundedUp(n, w) \in Nat /\ RoundedUp(n * w, w) = n * w
<1> USE DEF RoundedUp
<1>1. CASE w = 1  BY <1>1
<1>2. CASE w = 2  BY <1>2
<1>3. CASE w = 4  BY <1>3
<1>4. CASE w = 8  BY <1>4
<1> QED  BY <1>1, <1>2, <1>3, <1>4 DEF Widths

(* The fields lie one after the other, each rounded up to its width. *)
LEMMA FieldsEnd ==
  ASSUME NEW widths \in Seq(Widths)
  PROVE  /\ Ends(widths, widths) \in [0..Len(widths) -> Nat]
         /\ Ends(widths, widths)[0] = 0
         /\ \A i \in 1..Len(widths) :
              Ends(widths, widths)[i]
                = RoundedUp(Ends(widths, widths)[i - 1], widths[i]) + widths[i]
<1> DEFINE n == Len(widths)
           After(i, m) == RoundedUp(m, widths[i]) + widths[i]
           step == [i \in 1..n |-> [m \in Nat |-> After(i, m)]]
           Next(f) == [i \in 0..n |-> IF i = 0 THEN 0 ELSE After(i, f[i - 1])]
           end == CHOOSE f : f = Next(f)
<1>1. n \in Nat /\ \A i \in 1..n : widths[i] \in Widths  OBVIOUS
<1>2. ASSUME NEW i \in 1..n, NEW m \in Nat PROVE After(i, m) \in Nat
  <2>1. widths[i] \in Widths  BY <1>1
  <2>2. RoundedUp(m, widths[i]) \in Nat /\ widths[i] \in Nat  BY <2>1, RoundedToWidth
  <2> QED  BY <2>2
<1> HIDE DEF n, After
<1>3. step \in [1..n -> [Nat -> Nat]]  BY <1>2
<1>4. PICK f : Recursive(f, 0, step, n, Nat)
  <2>1. 0 \in Nat /\ Steps(step, n, Nat)  BY <1>3 DEF Steps
  <2> HIDE DEF step
  <2> QED  BY <1>1, <2>1, Recursion, Zenon
<1>5. f = Next(f)
  <2>1. ASSUME NEW i \in 1..n PROVE f[i] = After(i, f[i - 1])
    <3>1. i - 1 \in 0..n  BY <1>1
    <3>2. f[i - 1] \in Nat  BY <1>4, <3>1 DEF Recursive
    <3> QED  BY <1>4, <3>2 DEF Recursive
  <2>2. \A i \in 0..n : f[i] = Next(f)[i]  BY <1>4, <2>1 DEF Recursive
  <2>3. f = [i \in 0..n |-> f[i]]  BY <1>4 DEF Recursive
  <2> HIDE DEF step, end
  <2> QED  BY <2>2, <2>3
<1>6. end = Next(end)
  <2> HIDE DEF Next
  <2> QED  BY <1>5
<1>7. \A i \in 0..n : end[i] = f[i]
  <2> HIDE DEF end
  <2>1. \A i \in 1..n : i \in 0..n /\ i - 1 \in 0..n  BY <1>1
  <2>2. end[0] = 0 /\ \A i \in 1..n : end[i] = After(i, end[i - 1])  BY <1>1, <1>6, <2>1
  <2>3. \A i \in 1..n : f[i] = After(i, f[i - 1])  BY <1>5, <2>1
  <2>4. \A i \in 1..n : end[i - 1] = f[i - 1] => end[i] = f[i]  BY <2>2, <2>3
  <2>5. end[0] = f[0]  BY <1>4, <2>2 DEF Recursive
  <2> HIDE DEF Next
  <2> QED  BY <1>1, <2>4, <2>5, StepByStep
<1>8. Ends(widths, widths) = end  BY Zenon DEF Ends, n, After
<1>9. end[0] = 0 /\ \A i \in 1..n : end[i] = After(i, end[i - 1])
  <2> HIDE DEF end
  <2>1. \A i \in 1..n : i \in 0..n  BY <1>1
  <2> QED  BY <1>1, <1>6, <2>1
<1>10. end = [i \in 0..n |-> end[i]]
  <2> HIDE DEF end
  <2> QED  BY <1>6
<1> HIDE DEF Next, end
<1>11. end \in [0..n -> Nat]  BY <1>4, <1>7, <1>10 DEF Recursive
<1> QED  BY <1>8, <1>9, <1>11 DEF n, After

LEMMA StructSizeIsANumber ==
  ASSUME NEW widths \in Seq(Widths)
  PROVE  StructSize(widths, widths) \in Nat
<1>1. CASE widths = <<>>  BY <1>1 DEF StructSize
<1>2. CASE widths # <<>>
  <2>1. Len(widths) \in Nat /\ Ends(widths, widths)[Len(widths)] \in Nat  BY FieldsEnd
  <2> DEFINE T == {1} \cup ToSet(widths)
  <2>2. T \in SUBSET Widths /\ T # {}  BY DEF ToSet, Widths
  <2>3. StructAlign(widths) \in Widths
    <3> HIDE DEF T
    <3>1. Max(T) \in T  BY <2>2, Widest
    <3> QED  BY <2>2, <3>1 DEF StructAlign, T
  <2> QED  BY <1>2, <2>1, <2>3, RoundedToWidth DEF StructSize
<1> QED  BY <1>1, <1>2

(* Fields of one width leave no gap. *)
LEMMA EvenlySizedStruct ==
  ASSUME NEW widths \in Seq(Widths), EvenlySized(widths)
  PROVE  StructSize(widths, widths) = Len(widths) * widths[1]
<1> DEFINE n == Len(widths)
           w == widths[1]
           end == Ends(widths, widths)
           T == {k \in Nat : k <= n => end[k] = k * w}
<1>1. n \in Nat /\ n # 0 /\ w \in Widths /\ \A i \in 1..n : widths[i] = w
  BY DEF EvenlySized
<1>2. w \in Nat  BY <1>1, RoundedToWidth
<1>3. end[0] = 0 /\ \A i \in 1..n : end[i] = RoundedUp(end[i - 1], w) + w
  <2> HIDE DEF w
  <2> QED  BY <1>1, FieldsEnd
<1> HIDE DEF n, w, end
<1>4. 0 \in T  BY <1>2, <1>3
<1>5. ASSUME NEW k \in Nat, k \in T PROVE k + 1 \in T
  <2>1. SUFFICES ASSUME k + 1 <= n PROVE end[k + 1] = (k + 1) * w  OBVIOUS
  <2>2. k + 1 \in 1..n /\ (k + 1) - 1 = k /\ end[k] = k * w  BY <1>1, <1>5, <2>1
  <2>3. end[k + 1] = RoundedUp(k * w, w) + w  BY <1>3, <2>2
  <2>4. end[k + 1] = k * w + w  BY <1>1, <2>3, RoundedToWidth
  <2> QED  BY <1>2, <2>4
<1>6. T \in SUBSET Nat  OBVIOUS
<1>7. end[n] = n * w
  <2> HIDE DEF T
  <2>1. n \in T  BY <1>1, <1>4, <1>5, <1>6, EveryNumber
  <2> QED  BY <2>1 DEF T
<1>8. StructAlign(widths) = w
  <2>1. ToSet(widths) = {w}  BY <1>1 DEF ToSet, n
  <2>2. {1, w} \in SUBSET Widths /\ {1, w} # {}  BY <1>1 DEF Widths
  <2> DEFINE M == Max({1, w})
  <2>3. M \in {1, w} /\ M >= w /\ M >= 1
    <3> HIDE DEF M
    <3> QED  BY <2>2, Widest DEF M
  <2> HIDE DEF M
  <2>4. w >= 1  BY <1>1 DEF Widths
  <2>5. M = w  BY <1>2, <2>3, <2>4
  <2>6. {1} \cup ToSet(widths) = {1, w}  BY <2>1
  <2> QED  BY <2>5, <2>6 DEF StructAlign, M
<1>9. widths # <<>>  BY DEF EvenlySized
<1>10. StructSize(widths, widths) = RoundedUp(n * w, w)
  BY <1>7, <1>8, <1>9 DEF StructSize, n, end
<1> QED  BY <1>1, <1>10, RoundedToWidth DEF n, w

-----------------------------------------------------------------------------
(* The search forward: from no more than n it ends at n, by whatever step    *)
(* it starts.                                                                *)
LEMMA DetectedFields ==
  ASSUME NEW n \in Nat, NEW distance \in Nat, distance # 0
  PROVE  DetectFieldsCount(0..n, 0, distance) = n
<1> DEFINE Next(f) == [at \in Nat \X Nat |->
             IF at[2] = 0 THEN at[1]
             ELSE IF at[1] + at[2] \in 0..n THEN f[<<at[1] + at[2], (at[2] + 1) \div 2>>]
             ELSE f[<<at[1], at[2] \div 2>>]]
           detect == CHOOSE f : f = Next(f)
           found == [at \in Nat \X Nat |-> IF at[1] > n \/ at[2] = 0 THEN at[1] ELSE n]
<1>1. found = Next(found)
  <2>1. ASSUME NEW at \in Nat \X Nat PROVE found[at] = Next(found)[at]
    <3> DEFINE b == at[1]
               s == at[2]
    <3>1. b \in Nat /\ s \in Nat  OBVIOUS
    <3>2. CASE s = 0  BY <3>2
    <3>3. CASE s # 0 /\ b + s <= n
      <4>1. (s + 1) \div 2 \in Nat /\ (s + 1) \div 2 # 0  BY <3>1, <3>3
      <4> QED  BY <3>1, <3>3, <4>1
    <3>4. CASE s # 0 /\ b + s > n
      <4>1. s \div 2 \in Nat /\ (s \div 2 = 0 => s = 1)  BY <3>1, <3>4
      <4> QED  BY <3>1, <3>4, <4>1
    <3> QED  BY <3>1, <3>2, <3>3, <3>4
  <2>2. found = [at \in Nat \X Nat |-> found[at]]  OBVIOUS
  <2>3. Next(found) = [at \in Nat \X Nat |-> Next(found)[at]]  OBVIOUS
  <2> HIDE DEF found, Next
  <2> QED  BY <2>1, <2>2, <2>3
<1>2. detect = Next(detect)
  <2> HIDE DEF Next, found
  <2> QED  BY <1>1
<1>3. DetectFieldsCount(0..n, 0, distance) = detect[<<0, distance>>]
  BY Zenon DEF DetectFieldsCount
<1> HIDE DEF detect
<1>4. ASSUME NEW b \in Nat, NEW s \in Nat
      PROVE  detect[<<b, s>>] =
               IF s = 0 THEN b
               ELSE IF b + s <= n THEN detect[<<b + s, (s + 1) \div 2>>]
               ELSE detect[<<b, s \div 2>>]
  <2>1. <<b, s>> \in Nat \X Nat /\ <<b, s>>[1] = b /\ <<b, s>>[2] = s  OBVIOUS
  <2>2. detect[<<b, s>>] = Next(detect)[<<b, s>>]  BY <1>2
  <2>3. b + s \in 0..n <=> b + s <= n  OBVIOUS
  <2> QED  BY <2>1, <2>2, <2>3
<1> HIDE DEF Next, found
<1> DEFINE T == {m \in Nat : \A b \in 0..n, s \in Nat \ {0} : m = n - b + s => detect[<<b, s>>] = n}
<1>5. ASSUME NEW m \in Nat, \A k \in Nat : k < m => k \in T PROVE m \in T
  <2>1. SUFFICES ASSUME NEW b \in 0..n, NEW s \in Nat \ {0}, m = n - b + s
                 PROVE detect[<<b, s>>] = n
    OBVIOUS
  <2> b \in Nat /\ s \in Nat /\ s # 0  OBVIOUS
  <2>2. CASE b + s <= n
    <3> DEFINE t == (s + 1) \div 2
               k == n - (b + s) + t
    <3>1. t \in Nat \ {0} /\ t <= s  OBVIOUS
    <3>2. k \in Nat /\ k < m /\ b + s \in 0..n  BY <2>1, <2>2, <3>1
    <3>3. detect[<<b, s>>] = detect[<<b + s, t>>]  BY <1>4, <2>2
    <3> HIDE DEF t
    <3> QED  BY <1>5, <3>1, <3>2, <3>3
  <2>3. CASE ~(b + s <= n)
    <3> DEFINE t == s \div 2
               k == n - b + t
    <3>1. t \in Nat /\ t < s /\ (t = 0 => s = 1)  OBVIOUS
    <3>2. k \in Nat /\ k < m  BY <2>1, <2>3, <3>1
    <3>3. detect[<<b, s>>] = detect[<<b, t>>]  BY <1>4, <2>3
    <3> HIDE DEF t
    <3>4. CASE t = 0  BY <1>4, <2>3, <3>1, <3>3, <3>4
    <3>5. CASE t # 0  BY <1>5, <3>1, <3>2, <3>3, <3>5
    <3> QED  BY <3>4, <3>5
  <2> QED  BY <2>2, <2>3
<1>6. T \in SUBSET Nat  OBVIOUS
<1> HIDE DEF T
<1>7. T = Nat  BY <1>5, <1>6, EveryNumberAfterTheSmaller
<1>8. n + distance \in T /\ 0 \in 0..n  BY <1>7
<1>9. n + distance = n - 0 + distance  OBVIOUS
<1>10. detect[<<0, distance>>] = n  BY <1>8, <1>9 DEF T
<1> QED  BY <1>3, <1>10

(* The search by halves: it ends at the largest number there is in its range, *)
(* here of those from least to n.                                             *)
LEMMA GreedilyDetected ==
  ASSUME NEW least \in Nat, NEW n \in Nat, NEW others \in Nat, 0 < least, least <= n, n <= others
  PROVE  DetectFieldsCountGreedy(least..n, 0, others) = n
<1> DEFINE Half(m) == m \div 2
           Upper(range) == <<range[1] + Half(range[2]) + 1, range[2] - Half(range[2]) - 1>>
           Lower(range) == <<range[1], Half(range[2])>>
           Next(f) == [range \in Nat \X Nat |->
             IF range[2] = 0 THEN IF range[1] \in least..n THEN range[1] ELSE 0
             ELSE IF f[Upper(range)] # 0 THEN f[Upper(range)] ELSE f[Lower(range)]]
           greedy == CHOOSE f : f = Next(f)
           Largest(b, m) == IF b <= n /\ b + m >= least THEN IF b + m <= n THEN b + m ELSE n ELSE 0
           found == [range \in Nat \X Nat |-> Largest(range[1], range[2])]
<1>1. ASSUME NEW b \in Nat, NEW m \in Nat, m # 0
      PROVE  /\ Half(m) \in Nat /\ Half(m) < m /\ m - Half(m) - 1 \in Nat /\ m - Half(m) - 1 < m
             /\ Largest(b, m) = IF Largest(b + Half(m) + 1, m - Half(m) - 1) # 0
                                THEN Largest(b + Half(m) + 1, m - Half(m) - 1)
                                ELSE Largest(b, Half(m))
  <2> DEFINE h == Half(m)
  <2>1. h \in Nat /\ h < m /\ m - h - 1 \in Nat /\ m - h - 1 < m  BY <1>1
  <2> HIDE DEF h
  <2>2. b + h + 1 + (m - h - 1) = b + m  BY <2>1
  <2>3. Largest(b + h + 1, m - h - 1) =
          IF b + h + 1 <= n /\ b + m >= least THEN IF b + m <= n THEN b + m ELSE n ELSE 0
    BY <2>2
  <2>4. Largest(b, m) = IF Largest(b + h + 1, m - h - 1) # 0 THEN Largest(b + h + 1, m - h - 1)
                        ELSE Largest(b, h)
    BY <2>1, <2>3
  <2> HIDE DEF Largest, Half
  <2> QED  BY <2>1, <2>4 DEF h
<1>2. found = Next(found)
  <2>1. ASSUME NEW range \in Nat \X Nat PROVE found[range] = Next(found)[range]
    <3>1. range[1] \in Nat /\ range[2] \in Nat  OBVIOUS
    <3>2. CASE range[2] = 0
      <4>1. range[1] \in least..n <=> least <= range[1] /\ range[1] <= n  BY <3>1
      <4> QED  BY <3>1, <3>2, <4>1
    <3>3. CASE range[2] # 0
      <4> DEFINE b == range[1]
                 m == range[2]
      <4>1. b \in Nat /\ m \in Nat /\ m # 0  BY <3>1, <3>3
      <4>2. Upper(range) = <<b + Half(m) + 1, m - Half(m) - 1>> /\ Lower(range) = <<b, Half(m)>>
        OBVIOUS
      <4>3. Next(found)[range] = IF found[Upper(range)] # 0 THEN found[Upper(range)]
                                 ELSE found[Lower(range)]
        BY <3>3
      <4>4. found[range] = Largest(b, m)  OBVIOUS
      <4> HIDE DEF b, m, Largest, Upper, Lower, Half
      <4>5. /\ Half(m) \in Nat /\ m - Half(m) - 1 \in Nat
            /\ Largest(b, m) = IF Largest(b + Half(m) + 1, m - Half(m) - 1) # 0
                               THEN Largest(b + Half(m) + 1, m - Half(m) - 1)
                               ELSE Largest(b, Half(m))
        BY <1>1, <4>1
      <4>6. found[Upper(range)] = Largest(b + Half(m) + 1, m - Half(m) - 1)  BY <4>1, <4>2, <4>5
      <4>7. found[Lower(range)] = Largest(b, Half(m))  BY <4>1, <4>2, <4>5
      <4> HIDE DEF found, Next
      <4> QED  BY <4>3, <4>4, <4>5, <4>6, <4>7
    <3> QED  BY <3>2, <3>3
  <2>2. found = [range \in Nat \X Nat |-> found[range]]  OBVIOUS
  <2>3. Next(found) = [range \in Nat \X Nat |-> Next(found)[range]]  OBVIOUS
  <2> HIDE DEF found, Next
  <2> QED  BY <2>1, <2>2, <2>3
<1>3. greedy = Next(greedy)
  <2> HIDE DEF Next, found
  <2> QED  BY <1>2
<1>4. DetectFieldsCountGreedy(least..n, 0, others) = greedy[<<0, others>>]
  BY Zenon DEF DetectFieldsCountGreedy
<1> HIDE DEF greedy
<1> DEFINE T == {k \in Nat : \A b \in Nat : greedy[<<b, k>>] = Largest(b, k)}
<1>5. ASSUME NEW k \in Nat, \A m \in Nat : m < k => m \in T PROVE k \in T
  <2>1. SUFFICES ASSUME NEW b \in Nat PROVE greedy[<<b, k>>] = Largest(b, k)  OBVIOUS
  <2>2. <<b, k>> \in Nat \X Nat /\ <<b, k>>[1] = b /\ <<b, k>>[2] = k  OBVIOUS
  <2>3. greedy[<<b, k>>] = Next(greedy)[<<b, k>>]  BY <1>3
  <2>4. CASE k = 0
    <3>1. b \in least..n <=> least <= b /\ b <= n  OBVIOUS
    <3>2. Largest(b, k) = IF least <= b /\ b <= n THEN b ELSE 0  BY <2>4
    <3> HIDE DEF Largest
    <3>3. greedy[<<b, k>>] = IF b \in least..n THEN b ELSE 0  BY <2>2, <2>3, <2>4
    <3> QED  BY <3>1, <3>2, <3>3
  <2>5. CASE k # 0
    <3>1. greedy[<<b, k>>] = IF greedy[<<b + Half(k) + 1, k - Half(k) - 1>>] # 0
                             THEN greedy[<<b + Half(k) + 1, k - Half(k) - 1>>]
                             ELSE greedy[<<b, Half(k)>>]
      BY <2>2, <2>3, <2>5
    <3> HIDE DEF Largest, Next, Half
    <3>2. /\ Half(k) \in Nat /\ Half(k) < k /\ k - Half(k) - 1 \in Nat /\ k - Half(k) - 1 < k
          /\ Largest(b, k) = IF Largest(b + Half(k) + 1, k - Half(k) - 1) # 0
                             THEN Largest(b + Half(k) + 1, k - Half(k) - 1)
                             ELSE Largest(b, Half(k))
      BY <1>1, <2>5
    <3>3. greedy[<<b, Half(k)>>] = Largest(b, Half(k))  BY <1>5, <3>2
    <3>4. greedy[<<b + Half(k) + 1, k - Half(k) - 1>>] = Largest(b + Half(k) + 1, k - Half(k) - 1)
      BY <1>5, <3>2
    <3> QED  BY <3>1, <3>2, <3>3, <3>4
  <2> QED  BY <2>4, <2>5
<1>6. T \in SUBSET Nat  OBVIOUS
<1> HIDE DEF T
<1>7. others \in T  BY <1>5, <1>6, EveryNumberAfterTheSmaller
<1>8. greedy[<<0, others>>] = Largest(0, others)  BY <1>7 DEF T
<1>9. Largest(0, others) = n  OBVIOUS
<1> QED  BY <1>4, <1>8, <1>9

(* Whatever its size, a struct that can be made from no more initialisers    *)
(* than it has fields has that many fields; and so has one that needs some   *)
(* of them, if it has no more fields than bits.                              *)
LEMMA FieldsAreCounted ==
  ASSUME NEW size \in Nat, NEW least \in Nat, NEW n \in Nat, least <= n,
         least = 0 \/ n <= size * 8
  PROVE  FieldsCount(size, least..n) = n
<1>1. CASE least = 0
  <2> DEFINE d == (size * 8) \div 2 + 1
  <2>1. d \in Nat /\ d # 0 /\ 0 \in 0..n  OBVIOUS
  <2> HIDE DEF d
  <2>2. DetectFieldsCount(0..n, 0, d) = n  BY <2>1, DetectedFields
  <2> QED  BY <1>1, <2>1, <2>2 DEF FieldsCount, d
<1>2. CASE least # 0
  <2>1. size * 8 \in Nat /\ 0 < least /\ 0 \notin least..n  BY <1>2
  <2>2. DetectFieldsCountGreedy(least..n, 0, size * 8) = n  BY <1>2, <2>1, GreedilyDetected
  <2> QED  BY <2>1, <2>2 DEF FieldsCount
<1> QED  BY <1>1, <1>2

(* tuple_size_v of a message. *)
LEMMA MessageFieldsAreCounted ==
  ASSUME NEW widths \in Seq(Widths)
  PROVE  FieldCount(widths) = Len(widths)
<1>1. StructSize(widths, widths) \in Nat /\ Len(widths) \in Nat  BY StructSizeIsANumber
<1> QED  BY <1>1, FieldsAreCounted DEF FieldCount, TupleSize

-----------------------------------------------------------------------------
(* So many numbers from the first on. *)
Run(first, length) == [k \in 1..length |-> first + k - 1]

LEMMA RunsJoin ==
  ASSUME NEW first \in Nat, NEW m \in Nat, NEW n \in Nat
  PROVE  Run(first, m) \o Run(first + m, n) = Run(first, m + n)
<1> DEFINE s == Run(first, m)
           t == Run(first + m, n)
           u == Run(first, m + n)
<1>1. s \in Seq(Nat) /\ Len(s) = m /\ \A k \in 1..m : s[k] = first + k - 1  BY DEF Run
<1>2. t \in Seq(Nat) /\ Len(t) = n /\ \A k \in 1..n : t[k] = first + m + k - 1  BY DEF Run
<1>3. u \in Seq(Nat) /\ Len(u) = m + n /\ \A k \in 1..m + n : u[k] = first + k - 1  BY DEF Run
<1> HIDE DEF s, t, u
<1>4. /\ s \o t \in Seq(Nat) /\ Len(s \o t) = m + n
      /\ \A k \in 1..m + n : (s \o t)[k] = IF k <= m THEN s[k] ELSE t[k - m]
  BY <1>1, <1>2, ConcatProperties
<1>5. ASSUME NEW k \in 1..m + n PROVE (s \o t)[k] = u[k]
  <2>1. CASE k <= m
    <3>1. k \in 1..m  BY <2>1
    <3> QED  BY <1>1, <1>3, <1>4, <2>1, <3>1
  <2>2. CASE ~(k <= m)
    <3>1. k - m \in 1..n  BY <2>2
    <3>2. t[k - m] = first + m + (k - m) - 1  BY <1>2, <3>1
    <3>3. (s \o t)[k] = t[k - m]  BY <1>4, <2>2
    <3>4. first + m + (k - m) - 1 = first + k - 1  OBVIOUS
    <3> QED  BY <1>3, <3>2, <3>3, <3>4
  <2> QED  BY <2>1, <2>2
<1>6. s \o t = u  BY <1>3, <1>4, <1>5, SeqEqual
<1> QED  BY <1>6 DEF s, t, u

(* Halves of a run make the run. *)
LEMMA SequenceIsBuilt ==
  ASSUME NEW size \in Nat
  PROVE  BuildSequence(0, size) = Run(0, size + 1)
<1> DEFINE Half(m) == m \div 2
           Lower(range) == <<range[1], Half(range[2])>>
           Upper(range) == <<range[1] + Half(range[2]) + 1, range[2] - Half(range[2]) - 1>>
           Next(f) == [range \in Nat \X Nat |->
             IF range[2] = 0 THEN <<range[1]>> ELSE f[Lower(range)] \o f[Upper(range)]]
           build == CHOOSE f : f = Next(f)
           found == [range \in Nat \X Nat |-> Run(range[1], range[2] + 1)]
<1>1. ASSUME NEW a \in Nat, NEW m \in Nat, m # 0
      PROVE  /\ Half(m) \in Nat /\ Half(m) < m /\ m - Half(m) - 1 \in Nat /\ m - Half(m) - 1 < m
             /\ Run(a, m + 1) = Run(a, Half(m) + 1) \o Run(a + Half(m) + 1, m - Half(m) - 1 + 1)
  <2> DEFINE h == Half(m)
  <2>1. h \in Nat /\ h < m /\ m - h - 1 \in Nat /\ m - h - 1 < m  BY <1>1
  <2> HIDE DEF h
  <2>2. Run(a, h + 1) \o Run(a + (h + 1), m - h) = Run(a, (h + 1) + (m - h))
    <3>1. h + 1 \in Nat /\ m - h \in Nat  BY <2>1
    <3> HIDE DEF Half
    <3> QED  BY <3>1, RunsJoin
  <2>3. a + (h + 1) = a + h + 1 /\ m - h = m - h - 1 + 1 /\ (h + 1) + (m - h) = m + 1  BY <2>1
  <2>4. Run(a, m + 1) = Run(a, h + 1) \o Run(a + h + 1, m - h - 1 + 1)  BY <2>2, <2>3
  <2> HIDE DEF Half
  <2> QED  BY <2>1, <2>4 DEF h
<1>2. ASSUME NEW a \in Nat PROVE Run(a, 0 + 1) = <<a>>  BY DEF Run
<1>3. found = Next(found)
  <2>1. ASSUME NEW range \in Nat \X Nat PROVE found[range] = Next(found)[range]
    <3> DEFINE a == range[1]
               m == range[2]
    <3>1. a \in Nat /\ m \in Nat /\ found[range] = Run(a, m + 1)  OBVIOUS
    <3>2. CASE m = 0
      <4>1. Next(found)[range] = <<a>>  BY <3>2
      <4> HIDE DEF a, m, found, Next
      <4> QED  BY <1>2, <3>1, <3>2, <4>1
    <3>3. CASE m # 0
      <4>1. Next(found)[range] = found[Lower(range)] \o found[Upper(range)]  BY <3>3
      <4>2. Upper(range) = <<a + Half(m) + 1, m - Half(m) - 1>> /\ Lower(range) = <<a, Half(m)>>
        OBVIOUS
      <4> HIDE DEF a, m, Upper, Lower, Half
      <4>3. /\ Half(m) \in Nat /\ m - Half(m) - 1 \in Nat
            /\ Run(a, m + 1) = Run(a, Half(m) + 1) \o Run(a + Half(m) + 1, m - Half(m) - 1 + 1)
        BY <1>1, <3>1, <3>3
      <4>4. found[Lower(range)] = Run(a, Half(m) + 1)  BY <3>1, <4>2, <4>3
      <4>5. found[Upper(range)] = Run(a + Half(m) + 1, m - Half(m) - 1 + 1)  BY <3>1, <4>2, <4>3
      <4> HIDE DEF found, Next
      <4> QED  BY <3>1, <4>1, <4>3, <4>4, <4>5
    <3> QED  BY <3>2, <3>3
  <2>2. found = [range \in Nat \X Nat |-> found[range]]  OBVIOUS
  <2>3. Next(found) = [range \in Nat \X Nat |-> Next(found)[range]]  OBVIOUS
  <2> HIDE DEF found, Next
  <2> QED  BY <2>1, <2>2, <2>3
<1>4. build = Next(build)
  <2> HIDE DEF Next, found
  <2> QED  BY <1>3
<1>5. BuildSequence(0, size) = build[<<0, size>>]  BY Zenon DEF BuildSequence
<1> HIDE DEF build
<1> DEFINE T == {m \in Nat : \A a \in Nat : build[<<a, m>>] = Run(a, m + 1)}
<1>6. ASSUME NEW m \in Nat, \A k \in Nat : k < m => k \in T PROVE m \in T
  <2>1. SUFFICES ASSUME NEW a \in Nat PROVE build[<<a, m>>] = Run(a, m + 1)  OBVIOUS
  <2>2. <<a, m>> \in Nat \X Nat /\ <<a, m>>[1] = a /\ <<a, m>>[2] = m  OBVIOUS
  <2>3. build[<<a, m>>] = Next(build)[<<a, m>>]  BY <1>4
  <2>4. CASE m = 0
    <3>1. build[<<a, m>>] = <<a>>  BY <2>2, <2>3, <2>4
    <3> QED  BY <1>2, <2>4, <3>1
  <2>5. CASE m # 0
    <3>1. build[<<a, m>>] = build[<<a, Half(m)>>] \o build[<<a + Half(m) + 1, m - Half(m) - 1>>]
      BY <2>2, <2>3, <2>5
    <3> HIDE DEF Half, Next
    <3>2. /\ Half(m) \in Nat /\ Half(m) < m /\ m - Half(m) - 1 \in Nat /\ m - Half(m) - 1 < m
          /\ Run(a, m + 1) = Run(a, Half(m) + 1) \o Run(a + Half(m) + 1, m - Half(m) - 1 + 1)
      BY <1>1, <2>5
    <3>3. build[<<a, Half(m)>>] = Run(a, Half(m) + 1)  BY <1>6, <3>2
    <3>4. build[<<a + Half(m) + 1, m - Half(m) - 1>>] = Run(a + Half(m) + 1, m - Half(m) - 1 + 1)
      BY <1>6, <3>2
    <3> QED  BY <3>1, <3>2, <3>3, <3>4
  <2> QED  BY <2>4, <2>5
<1>7. T \in SUBSET Nat  OBVIOUS
<1> HIDE DEF T
<1>8. size \in T  BY <1>6, <1>7, EveryNumberAfterTheSmaller
<1> QED  BY <1>5, <1>8 DEF T

(* make_index_sequence counts from zero. *)
LEMMA IndexSequence ==
  ASSUME NEW n \in Nat
  PROVE  MakeIndexSequence(n) = [k \in 1..n |-> k - 1]
<1>1. CASE n = 0  BY <1>1 DEF MakeIndexSequence
<1>2. CASE n # 0
  <2>1. n - 1 \in Nat /\ (n - 1) + 1 = n  BY <1>2
  <2>2. MakeIndexSequence(n) = Run(0, n)  BY <1>2, <2>1, SequenceIsBuilt DEF MakeIndexSequence
  <2>3. \A k \in 1..n : 0 + k - 1 = k - 1  OBVIOUS
  <2> QED  BY <2>2, <2>3 DEF Run
<1> QED  BY <1>1, <1>2

(* get<i> of a tuple is its value at i, counted from zero. *)
LEMMA GetIsTheValue ==
  ASSUME NEW S, NEW tuple \in Seq(S), NEW i \in 0..Len(tuple) - 1
  PROVE  Get(tuple, i) = tuple[i + 1]
<1> DEFINE n == Len(tuple)
           indexes == MakeIndexSequence(n)
<1>1. n \in Nat /\ indexes = [k \in 1..n |-> k - 1]
  <2>1. n \in Nat  OBVIOUS
  <2> HIDE DEF n
  <2> QED  BY <2>1, IndexSequence
<1> HIDE DEF n, indexes
<1>2. i + 1 \in 1..n /\ DOMAIN indexes = 1..n /\ indexes[i + 1] = i  BY <1>1 DEF n
<1>3. \A k \in 1..n : indexes[k] = i => k = i + 1  BY <1>1, <1>2
<1>4. (CHOOSE k \in DOMAIN indexes : indexes[k] = i) = i + 1  BY <1>2, <1>3
<1>5. i \in ToSet(indexes)  BY <1>2 DEF ToSet
<1>6. Get(tuple, i) = tuple[CHOOSE k \in DOMAIN indexes : indexes[k] = i]
  BY <1>5 DEF Get, GetImpl, TupleBase, indexes, n
<1> QED  BY <1>4, <1>6

(* No two fields get the same name. *)
LEMMA NamesDiffer ==
  ASSUME NEW j \in Nat \ {0}, NEW k \in Nat \ {0}, Name(j) = Name(k)
  PROVE  j = k
<1>1. (j - 1) \div 47 = (k - 1) \div 47 /\ (j - 1) % 47 = (k - 1) % 47  BY DEF Name
<1>2. j - 1 \in Nat /\ k - 1 \in Nat  OBVIOUS
<1>3. \A m \in Nat : m = 47 * (m \div 47) + (m % 47)  OBVIOUS
<1> QED  BY <1>1, <1>2, <1>3

(* The tuple of the names is the struct. *)
LEMMA TiedAsTuple ==
  ASSUME NEW S, NEW values \in Seq(S)
  PROVE  TieAsTuple(values) = values
<1> DEFINE n == Len(values)
           names == [k \in DOMAIN values |-> Name(k)]
           bound == [name \in ToSet(names) |-> values[CHOOSE k \in DOMAIN values : names[k] = name]]
<1>1. n \in Nat /\ DOMAIN values = 1..n /\ values = [k \in DOMAIN values |-> values[k]]  OBVIOUS
<1>2. ASSUME NEW j \in DOMAIN values PROVE bound[names[j]] = values[j]
  <2>1. names[j] \in ToSet(names)  BY DEF ToSet
  <2>2. \A k \in DOMAIN values : names[k] = names[j] => k = j
    <3>1. \A k \in DOMAIN values : k \in Nat \ {0}  BY <1>1
    <3>2. j \in Nat \ {0}  BY <1>1
    <3> QED  BY <3>1, <3>2, NamesDiffer
  <2> HIDE DEF names
  <2>3. (CHOOSE k \in DOMAIN values : names[k] = names[j]) = j  BY <2>2
  <2> QED  BY <2>1, <2>3
<1>3. TieAsTuple(values) = [k \in DOMAIN values |-> bound[names[k]]]
  BY Zenon DEF TieAsTuple
<1> HIDE DEF bound, names
<1> QED  BY <1>1, <1>2, <1>3

(* for_each_field visits the fields of a struct in their order. *)
LEMMA EveryFieldIsVisited ==
  ASSUME NEW S, NEW values \in Seq(S)
  PROVE  ForEachField(values) = values
<1> DEFINE n == Len(values)
           indexes == MakeIndexSequence(n)
<1>1. n \in Nat /\ values = [k \in 1..n |-> values[k]]  OBVIOUS
<1>2. indexes = [k \in 1..n |-> k - 1]  BY <1>1, IndexSequence
<1>3. ForEachField(values) = [k \in DOMAIN indexes |-> Get(values, indexes[k])]
  BY TiedAsTuple DEF ForEachField, ForEachFieldImpl
<1>4. ASSUME NEW k \in 1..n PROVE Get(values, indexes[k]) = values[k]
  <2>1. indexes[k] = k - 1 /\ k - 1 \in 0..Len(values) - 1 /\ (k - 1) + 1 = k  BY <1>1, <1>2
  <2> HIDE DEF n, indexes
  <2>2. Get(values, k - 1) = values[(k - 1) + 1]  BY <2>1, GetIsTheValue
  <2> QED  BY <2>1, <2>2
<1> HIDE DEF indexes, n
<1>5. DOMAIN indexes = 1..n  BY <1>2
<1> QED  BY <1>1, <1>3, <1>4, <1>5

-----------------------------------------------------------------------------
(* Sequences flattened: what the first k of them make. *)
Upto(seqs, k) == FlattenSeq(SubSeq(seqs, 1, k))

(* Any function that goes from nothing, one sequence at a time, ends at the  *)
(* flattened ones.                                                           *)
LEMMA FlattenedStepwise ==
  ASSUME NEW S, NEW seqs \in Seq(Seq(S)), NEW g, g[0] = <<>>,
         \A i \in 1..Len(seqs) : g[i] = g[i - 1] \o seqs[i]
  PROVE  FlattenSeq(seqs) = g[Len(seqs)]
<1> DEFINE n == Len(seqs)
           Next(f) == [i \in 1..n |-> IF i = 1 THEN seqs[i] ELSE f[i - 1] \o seqs[i]]
           flatten == CHOOSE f : f = Next(f)
           found == [i \in 1..n |-> g[i]]
<1>1. n \in Nat /\ \A i \in 1..n : seqs[i] \in Seq(S)  OBVIOUS
<1>2. CASE n = 0
  <2>1. seqs = <<>>  BY <1>2
  <2> QED  BY <1>2, <2>1 DEF FlattenSeq
<1>3. CASE n # 0
  <2>1. FlattenSeq(seqs) = flatten[n]  BY <1>3, Zenon DEF FlattenSeq, n
  <2> HIDE DEF n
  <2>2. g[1] = seqs[1]
    <3>1. 1 \in 1..n /\ 1 - 1 = 0  BY <1>1, <1>3
    <3>2. g[1] = <<>> \o seqs[1]  BY <3>1 DEF n
    <3>3. <<>> \o seqs[1] = seqs[1]  BY <1>1, <3>1, ConcatEmptySeq
    <3> QED  BY <3>2, <3>3
  <2>3. found = Next(found)
    <3>1. ASSUME NEW i \in 1..n PROVE found[i] = Next(found)[i]
      <4>1. CASE i = 1  BY <2>2, <4>1
      <4>2. CASE i # 1
        <5>1. i - 1 \in 1..n  BY <1>1, <4>2
        <5>2. g[i] = g[i - 1] \o seqs[i]  BY DEF n
        <5> QED  BY <4>2, <5>1, <5>2
      <4> QED  BY <4>1, <4>2
    <3> QED  BY <3>1
  <2>4. flatten = Next(flatten)
    <3> HIDE DEF Next, found
    <3> QED  BY <2>3
  <2> HIDE DEF flatten
  <2> DEFINE T == {k \in Nat : k + 1 <= n => flatten[k + 1] = g[k + 1]}
  <2>5. 0 \in T
    <3>1. 1 \in 1..n  BY <1>1, <1>3
    <3>2. flatten[1] = seqs[1]  BY <2>4, <3>1
    <3> QED  BY <2>2, <3>2
  <2>6. ASSUME NEW k \in Nat, k \in T PROVE k + 1 \in T
    <3> SUFFICES ASSUME k + 1 + 1 <= n PROVE flatten[k + 1 + 1] = g[k + 1 + 1]  OBVIOUS
    <3> DEFINE j == k + 1 + 1
    <3>1. j \in 1..n /\ j # 1 /\ j - 1 = k + 1 /\ k + 1 <= n  BY <1>1
    <3> HIDE DEF j
    <3>2. flatten[k + 1] = g[k + 1]  BY <2>6, <3>1
    <3>3. flatten[j] = flatten[j - 1] \o seqs[j]  BY <2>4, <3>1
    <3>4. g[j] = g[j - 1] \o seqs[j]  BY <3>1 DEF n
    <3>5. flatten[j] = g[j]  BY <3>1, <3>2, <3>3, <3>4
    <3> QED  BY <3>5 DEF j
  <2>7. T \in SUBSET Nat  OBVIOUS
  <2> HIDE DEF T
  <2>8. n - 1 \in T /\ (n - 1) + 1 = n /\ n <= n  BY <1>1, <1>3, <2>5, <2>6, <2>7, EveryNumber
  <2>9. flatten[n] = g[n]  BY <2>8 DEF T
  <2> QED  BY <2>1, <2>9 DEF n
<1> QED  BY <1>2, <1>3

(* One more sequence goes to the end. *)
LEMMA FlattenedPrefixes ==
  ASSUME NEW S, NEW seqs \in Seq(Seq(S))
  PROVE  /\ \A k \in 0..Len(seqs) : Upto(seqs, k) \in Seq(S)
         /\ Upto(seqs, 0) = <<>> /\ Upto(seqs, Len(seqs)) = FlattenSeq(seqs)
         /\ \A k \in 1..Len(seqs) : Upto(seqs, k) = Upto(seqs, k - 1) \o seqs[k]
<1> DEFINE n == Len(seqs)
           step == [i \in 1..n |-> [t \in Seq(S) |-> t \o seqs[i]]]
<1>1. n \in Nat /\ \A i \in 1..n : seqs[i] \in Seq(S)  OBVIOUS
<1>2. Steps(step, n, Seq(S))
  <2>1. ASSUME NEW i \in 1..n, NEW t \in Seq(S) PROVE t \o seqs[i] \in Seq(S)
    BY <1>1, ConcatProperties
  <2> QED  BY <2>1 DEF Steps
<1>3. PICK g : Recursive(g, <<>>, step, n, Seq(S))
  <2>1. <<>> \in Seq(S)  OBVIOUS
  <2> HIDE DEF n, step
  <2> QED  BY <1>1, <1>2, <2>1, Recursion, Zenon
<1>4. g[0] = <<>> /\ (\A k \in 0..n : g[k] \in Seq(S)) /\ \A k \in 1..n : g[k] = g[k - 1] \o seqs[k]
  <2>1. \A k \in 1..n : k - 1 \in 0..n  BY <1>1
  <2>2. \A k \in 0..n : g[k] \in Seq(S)  BY <1>3 DEF Recursive
  <2>3. ASSUME NEW k \in 1..n PROVE g[k] = g[k - 1] \o seqs[k]
    <3>1. g[k] = step[k][g[k - 1]] /\ g[k - 1] \in Seq(S)  BY <1>3, <2>1, <2>2 DEF Recursive
    <3> QED  BY <3>1
  <2> QED  BY <1>3, <2>2, <2>3 DEF Recursive
<1> HIDE DEF step
<1>5. ASSUME NEW k \in 0..n PROVE Upto(seqs, k) = g[k]
  <2> DEFINE s == SubSeq(seqs, 1, k)
  <2>1. s \in Seq(Seq(S)) /\ Len(s) = k /\ \A i \in 1..k : s[i] = seqs[i]
    <3>1. k \in Nat /\ \A i \in 1..k : i \in 1..n  BY <1>1
    <3>2. \A i \in 1..k : seqs[i] \in Seq(S)  BY <1>1, <3>1
    <3>3. s \in Seq(Seq(S)) /\ Len(s) = (IF 1 <= k THEN k - 1 + 1 ELSE 0)
          /\ \A i \in 1..k - 1 + 1 : s[i] = seqs[1 + i - 1]
      BY <3>1, <3>2, SubSeqProperties
    <3>4. k - 1 + 1 = k /\ \A i \in 1..k : 1 + i - 1 = i  BY <3>1
    <3> HIDE DEF s, n
    <3> QED  BY <3>1, <3>3, <3>4
  <2> HIDE DEF s
  <2>2. \A i \in 1..Len(s) : g[i] = g[i - 1] \o s[i]
    <3>1. \A i \in 1..k : i \in 1..n  BY <1>1
    <3> HIDE DEF n
    <3> QED  BY <1>4, <2>1, <3>1
  <2>3. FlattenSeq(s) = g[Len(s)]  BY <1>4, <2>1, <2>2, FlattenedStepwise
  <2> QED  BY <2>1, <2>3 DEF Upto, s
<1>6. FlattenSeq(seqs) = g[n]  BY <1>4, FlattenedStepwise
<1>7. 0 \in 0..n /\ n \in 0..n /\ \A k \in 1..n : k \in 0..n /\ k - 1 \in 0..n  BY <1>1
<1> HIDE DEF n
<1>8. /\ \A k \in 0..n : Upto(seqs, k) \in Seq(S)
      /\ Upto(seqs, 0) = <<>> /\ Upto(seqs, n) = FlattenSeq(seqs)
      /\ \A k \in 1..n : Upto(seqs, k) = Upto(seqs, k - 1) \o seqs[k]
  BY <1>4, <1>5, <1>6, <1>7
<1> QED  BY <1>8 DEF n

(* What the first k make is followed by a rest. *)
LEMMA FlattenedRest ==
  ASSUME NEW S, NEW seqs \in Seq(Seq(S)), NEW k \in 0..Len(seqs)
  PROVE  \E rest \in Seq(S) : FlattenSeq(seqs) = Upto(seqs, k) \o rest
<1> DEFINE n == Len(seqs)
           Follows(j) == \E rest \in Seq(S) : FlattenSeq(seqs) = Upto(seqs, j) \o rest
           T == {d \in Nat : d <= n => Follows(n - d)}
<1>1. n \in Nat /\ (\A i \in 1..n : seqs[i] \in Seq(S)) /\ FlattenSeq(seqs) = Upto(seqs, n)
      /\ (\A j \in 0..n : Upto(seqs, j) \in Seq(S))
      /\ (\A j \in 1..n : Upto(seqs, j) = Upto(seqs, j - 1) \o seqs[j])
  <2>1. n \in Nat /\ \A i \in 1..n : seqs[i] \in Seq(S)  OBVIOUS
  <2> QED  BY <2>1, FlattenedPrefixes, Zenon
<1>2. k \in 0..n  OBVIOUS
<1> HIDE DEF n
<1>3. 0 \in T
  <2>1. n - 0 = n /\ n \in 0..n  BY <1>1
  <2>2. Upto(seqs, n) \o <<>> = Upto(seqs, n)  BY <1>1, <2>1, ConcatEmptySeq
  <2>3. <<>> \in Seq(S)  OBVIOUS
  <2>4. Follows(n)  BY <1>1, <2>2, <2>3, Zenon
  <2> HIDE DEF Follows
  <2> QED  BY <2>1, <2>4
<1>4. ASSUME NEW d \in Nat, d \in T PROVE d + 1 \in T
  <2> SUFFICES ASSUME d + 1 <= n PROVE Follows(n - (d + 1))  OBVIOUS
  <2> DEFINE j == n - d
  <2>1. j \in 1..n /\ j - 1 \in 0..n /\ n - (d + 1) = j - 1 /\ d <= n  BY <1>1
  <2>2. PICK rest \in Seq(S) : FlattenSeq(seqs) = Upto(seqs, j) \o rest  BY <1>4, <2>1
  <2> HIDE DEF j
  <2>3. Upto(seqs, j) = Upto(seqs, j - 1) \o seqs[j]  BY <1>1, <2>1
  <2>4. Upto(seqs, j - 1) \in Seq(S) /\ seqs[j] \in Seq(S)  BY <1>1, <2>1
  <2>5. (Upto(seqs, j - 1) \o seqs[j]) \o rest = Upto(seqs, j - 1) \o (seqs[j] \o rest)
    <3> DEFINE p == Upto(seqs, j - 1)
               q == seqs[j]
    <3>1. p \in Seq(S)  BY <2>4
    <3>2. q \in Seq(S)  BY <2>4
    <3> HIDE DEF p, q
    <3>3. (p \o q) \o rest = p \o (q \o rest)  BY <3>1, <3>2, ConcatAssociative
    <3> QED  BY <3>3 DEF p, q
  <2>6. seqs[j] \o rest \in Seq(S)  BY <2>4, ConcatProperties
  <2>7. FlattenSeq(seqs) = Upto(seqs, j - 1) \o (seqs[j] \o rest)  BY <2>2, <2>3, <2>5
  <2>8. Follows(j - 1)  BY <2>6, <2>7
  <2> HIDE DEF Follows
  <2> QED  BY <2>1, <2>8
<1> HIDE DEF Follows
<1>5. T \in SUBSET Nat  OBVIOUS
<1> HIDE DEF T
<1>6. n - k \in Nat /\ n - k <= n /\ n - (n - k) = k  BY <1>1, <1>2
<1>7. n - k \in T  BY <1>3, <1>4, <1>5, <1>6, EveryNumber
<1>8. Follows(k)  BY <1>6, <1>7 DEF T
<1> QED  BY <1>8 DEF Follows

(* Sequences of one length. *)
LEMMA FlattenedLength ==
  ASSUME NEW S, NEW seqs \in Seq(Seq(S)), NEW w \in Nat,
         \A i \in 1..Len(seqs) : Len(seqs[i]) = w
  PROVE  Len(FlattenSeq(seqs)) = Len(seqs) * w
<1> DEFINE n == Len(seqs)
           T == {k \in Nat : k <= n => Len(Upto(seqs, k)) = k * w}
<1>1. n \in Nat /\ (\A i \in 1..n : seqs[i] \in Seq(S)) /\ FlattenSeq(seqs) = Upto(seqs, n)
      /\ Upto(seqs, 0) = <<>>
      /\ (\A j \in 0..n : Upto(seqs, j) \in Seq(S))
      /\ (\A j \in 1..n : Upto(seqs, j) = Upto(seqs, j - 1) \o seqs[j])
  <2>1. n \in Nat /\ \A i \in 1..n : seqs[i] \in Seq(S)  OBVIOUS
  <2> QED  BY <2>1, FlattenedPrefixes, Zenon
<1>2. 0 \in T  BY <1>1
<1>3. ASSUME NEW k \in Nat, k \in T PROVE k + 1 \in T
  <2> SUFFICES ASSUME k + 1 <= n PROVE Len(Upto(seqs, k + 1)) = (k + 1) * w  OBVIOUS
  <2>1. k + 1 \in 1..n /\ k \in 0..n /\ (k + 1) - 1 = k  BY <1>1
  <2>2. Upto(seqs, k + 1) = Upto(seqs, k) \o seqs[k + 1]  BY <1>1, <2>1
  <2>3. Upto(seqs, k) \in Seq(S) /\ seqs[k + 1] \in Seq(S)  BY <1>1, <2>1
  <2>4. Len(Upto(seqs, k + 1)) = Len(Upto(seqs, k)) + Len(seqs[k + 1])
    BY <2>2, <2>3, ConcatProperties
  <2>5. Len(Upto(seqs, k)) = k * w /\ Len(seqs[k + 1]) = w  BY <1>3, <2>1
  <2>6. (k + 1) * w = k * w + w  OBVIOUS
  <2> QED  BY <2>4, <2>5, <2>6
<1>4. T \in SUBSET Nat  OBVIOUS
<1> HIDE DEF T
<1>5. n \in T  BY <1>1, <1>2, <1>3, <1>4, EveryNumber
<1>6. n <= n  BY <1>1
<1> QED  BY <1>1, <1>5, <1>6 DEF T

-----------------------------------------------------------------------------
(* A byte of a field. *)
Octet == Nat \X Nat

LEMMA MemoryOctets ==
  ASSUME NEW widths \in Seq(Widths)
  PROVE  /\ Memory(widths) \in Seq(Seq(Octet)) /\ Len(Memory(widths)) = Len(widths)
         /\ InOrder(widths) \in Seq(Seq(Octet)) /\ Len(InOrder(widths)) = Len(widths)
         /\ \A i \in 1..Len(widths) :
              /\ Memory(widths)[i] \in Seq(Octet) /\ Len(Memory(widths)[i]) = widths[i]
              /\ InOrder(widths)[i] = Reverse(Memory(widths)[i])
              /\ InOrder(widths)[i] \in Seq(Octet) /\ Len(InOrder(widths)[i]) = widths[i]
<1> DEFINE n == Len(widths)
           m == Memory(widths)
           o == InOrder(widths)
<1>1. n \in Nat /\ \A i \in 1..n : widths[i] \in Widths  OBVIOUS
<1>2. \A w \in Widths : w \in Nat  BY DEF Widths
<1>3. m = [i \in 1..n |-> [b \in 1..widths[i] |-> <<i, b>>]]  BY DEF Memory
<1>4. o = [i \in 1..n |-> Reverse(m[i])]  BY DEF InOrder, NetworkOrder
<1> HIDE DEF n, m, o
<1>5. ASSUME NEW i \in 1..n
      PROVE  /\ m[i] \in Seq(Octet) /\ Len(m[i]) = widths[i]
             /\ o[i] = Reverse(m[i]) /\ o[i] \in Seq(Octet) /\ Len(o[i]) = widths[i]
  <2> DEFINE w == widths[i]
  <2>1. w \in Nat /\ i \in Nat  BY <1>1, <1>2
  <2>2. m[i] = [b \in 1..w |-> <<i, b>>]  BY <1>3
  <2> HIDE DEF w
  <2>3. m[i] \in Seq(Octet) /\ Len(m[i]) = w
    <3>1. \A b \in 1..w : <<i, b>> \in Octet  BY <2>1 DEF Octet
    <3> QED  BY <2>1, <2>2, <3>1
  <2>4. o[i] = [b \in 1..w |-> m[i][w - b + 1]]  BY <1>4, <2>3 DEF Reverse
  <2>5. \A b \in 1..w : m[i][w - b + 1] \in Octet
    <3>1. \A b \in 1..w : w - b + 1 \in 1..w  BY <2>1
    <3> QED  BY <2>3, <3>1
  <2>6. o[i] \in Seq(Octet) /\ Len(o[i]) = w  BY <2>1, <2>4, <2>5
  <2> QED  BY <1>4, <2>3, <2>6 DEF w
<1>6. m \in Seq(Seq(Octet)) /\ Len(m) = n  BY <1>1, <1>3, <1>5
<1>7. o \in Seq(Seq(Octet)) /\ Len(o) = n  BY <1>1, <1>4, <1>5
<1> QED  BY <1>5, <1>6, <1>7 DEF n, m, o

(* Reverse turns a sequence round; twice, it gives it back. *)
LEMMA Reversed ==
  ASSUME NEW S, NEW s \in Seq(S)
  PROVE  /\ Reverse(s) \in Seq(S) /\ Len(Reverse(s)) = Len(s)
         /\ \A i \in 1..Len(s) : Reverse(s)[i] = s[Len(s) - i + 1]
         /\ Reverse(Reverse(s)) = s
<1> DEFINE n == Len(s)
           r == Reverse(s)
           rr == Reverse(r)
<1>1. n \in Nat /\ s = [i \in 1..n |-> s[i]] /\ \A i \in 1..n : s[i] \in S  OBVIOUS
<1>2. r = [i \in 1..n |-> s[n - i + 1]]  BY DEF Reverse
<1> HIDE DEF n, r
<1>3. \A i \in 1..n : n - i + 1 \in 1..n /\ n - (n - i + 1) + 1 = i  BY <1>1
<1>4. r \in Seq(S) /\ Len(r) = n
  <2>1. \A i \in 1..n : s[n - i + 1] \in S  BY <1>1, <1>3
  <2>2. n \in Nat  BY <1>1
  <2> QED  BY <1>2, <2>1, <2>2
<1>5. rr = [i \in 1..n |-> r[n - i + 1]]  BY <1>4 DEF Reverse
<1> HIDE DEF rr
<1>6. \A i \in 1..n : r[i] = s[n - i + 1]  BY <1>2
<1>7. \A i \in 1..n : rr[i] = s[i]  BY <1>3, <1>5, <1>6
<1>8. rr = s  BY <1>1, <1>5, <1>7
<1> QED  BY <1>4, <1>6, <1>8 DEF n, r, rr

(* Turned round, what was behind comes first. *)
LEMMA ReversedHalves ==
  ASSUME NEW S, NEW s \in Seq(S), NEW m \in 0..Len(s)
  PROVE  Reverse(SubSeq(s, m + 1, Len(s))) \o Reverse(SubSeq(s, 1, m)) = Reverse(s)
<1> DEFINE n == Len(s)
           low == SubSeq(s, m + 1, n)
           high == SubSeq(s, 1, m)
           rl == Reverse(low)
           rh == Reverse(high)
           r == Reverse(s)
<1>1. n \in Nat /\ m \in Nat /\ m <= n /\ (\A i \in 1..n : s[i] \in S)  OBVIOUS
<1>2. r \in Seq(S) /\ Len(r) = n /\ \A i \in 1..n : r[i] = s[n - i + 1]  BY Reversed
<1> HIDE DEF n, r
<1>3. low \in Seq(S) /\ Len(low) = n - m /\ \A i \in 1..n - m : low[i] = s[m + i]
  <2>1. \A i \in m + 1..n : s[i] \in S  BY <1>1
  <2>2. /\ low \in Seq(S) /\ Len(low) = IF m + 1 <= n THEN n - (m + 1) + 1 ELSE 0
        /\ \A i \in 1..n - (m + 1) + 1 : low[i] = s[m + 1 + i - 1]
    BY <1>1, <2>1, SubSeqProperties
  <2>3. n - (m + 1) + 1 = n - m /\ \A i \in 1..n - m : m + 1 + i - 1 = m + i  BY <1>1
  <2> HIDE DEF low
  <2> QED  BY <1>1, <2>2, <2>3
<1>4. high \in Seq(S) /\ Len(high) = m /\ \A i \in 1..m : high[i] = s[i]
  <2>1. \A i \in 1..m : s[i] \in S  BY <1>1
  <2>2. /\ high \in Seq(S) /\ Len(high) = IF 1 <= m THEN m - 1 + 1 ELSE 0
        /\ \A i \in 1..m - 1 + 1 : high[i] = s[1 + i - 1]
    BY <1>1, <2>1, SubSeqProperties
  <2>3. m - 1 + 1 = m /\ \A i \in 1..m : 1 + i - 1 = i  BY <1>1
  <2> HIDE DEF high
  <2> QED  BY <1>1, <2>2, <2>3
<1> HIDE DEF low, high
<1>5. rl \in Seq(S) /\ Len(rl) = n - m /\ \A i \in 1..n - m : rl[i] = low[n - m - i + 1]
  <2>1. rl \in Seq(S) /\ Len(rl) = Len(low) /\ \A i \in 1..Len(low) : rl[i] = low[Len(low) - i + 1]
    BY <1>3, Reversed
  <2> HIDE DEF rl
  <2> QED  BY <1>3, <2>1
<1>6. rh \in Seq(S) /\ Len(rh) = m /\ \A i \in 1..m : rh[i] = high[m - i + 1]
  <2>1. rh \in Seq(S) /\ Len(rh) = Len(high) /\ \A i \in 1..Len(high) : rh[i] = high[Len(high) - i + 1]
    BY <1>4, Reversed
  <2> HIDE DEF rh
  <2> QED  BY <1>4, <2>1
<1> HIDE DEF rl, rh
<1>7. /\ rl \o rh \in Seq(S) /\ Len(rl \o rh) = n
      /\ \A i \in 1..n : (rl \o rh)[i] = IF i <= n - m THEN rl[i] ELSE rh[i - (n - m)]
  <2>1. n - m + m = n  BY <1>1
  <2>2. /\ rl \o rh \in Seq(S) /\ Len(rl \o rh) = Len(rl) + Len(rh)
        /\ \A i \in 1..Len(rl) + Len(rh) :
             (rl \o rh)[i] = IF i <= Len(rl) THEN rl[i] ELSE rh[i - Len(rl)]
    BY <1>5, <1>6, ConcatProperties
  <2>3. Len(rl) = n - m /\ Len(rh) = m  BY <1>5, <1>6
  <2> QED  BY <2>1, <2>2, <2>3
<1>8. ASSUME NEW i \in 1..n PROVE (rl \o rh)[i] = r[i]
  <2>1. r[i] = s[n - i + 1]  BY <1>2
  <2>2. CASE i <= n - m
    <3>1. i \in 1..n - m /\ n - m - i + 1 \in 1..n - m /\ m + (n - m - i + 1) = n - i + 1
      BY <1>1, <2>2
    <3>2. rl[i] = s[n - i + 1]  BY <1>3, <1>5, <3>1
    <3> QED  BY <1>7, <2>1, <2>2, <3>2
  <2>3. CASE ~(i <= n - m)
    <3> DEFINE j == i - (n - m)
    <3>1. j \in 1..m /\ m - j + 1 \in 1..m /\ m - j + 1 = n - i + 1  BY <1>1, <2>3
    <3>2. (rl \o rh)[i] = rh[j]  BY <1>7, <2>3
    <3> HIDE DEF j
    <3>3. rh[j] = s[n - i + 1]  BY <1>4, <1>6, <3>1
    <3> QED  BY <2>1, <3>2, <3>3
  <2> QED  BY <2>2, <2>3
<1>9. rl \o rh = r  BY <1>2, <1>7, <1>8, SeqEqual
<1> QED  BY <1>9 DEF rl, rh, r, low, high, n

(* write_val turns a value of one, four or eight bytes round. *)
LEMMA WrittenInNetworkOrder ==
  ASSUME NEW S, NEW value \in Seq(S), Len(value) \in {1, 4, 8}
  PROVE  WriteVal(value) = Reverse(value)
<1>1. /\ Reverse(value) \in Seq(S) /\ Len(Reverse(value)) = Len(value)
      /\ \A i \in 1..Len(value) : Reverse(value)[i] = value[Len(value) - i + 1]
  BY Reversed
<1>2. CASE Len(value) = 1
  <2>1. WriteVal(value) = value  BY <1>2 DEF WriteVal
  <2>2. \A i \in 1..Len(value) : Reverse(value)[i] = value[i]
    <3>1. \A i \in 1..Len(value) : Len(value) - i + 1 = i  BY <1>2
    <3> QED  BY <1>1, <3>1
  <2>3. Reverse(value) = value  BY <1>1, <2>2, SeqEqual
  <2> QED  BY <2>1, <2>3
<1>3. CASE Len(value) = 4
  BY <1>3 DEF WriteVal, Htonl
<1>4. CASE Len(value) = 8
  <2>1. 4 \in 0..Len(value)  BY <1>4
  <2>2. Reverse(SubSeq(value, 4 + 1, Len(value))) \o Reverse(SubSeq(value, 1, 4)) = Reverse(value)
    BY <2>1, ReversedHalves
  <2> QED  BY <1>4, <2>2 DEF WriteVal, Htonl
<1> QED  BY <1>2, <1>3, <1>4

-----------------------------------------------------------------------------
(* What has been written is what the first curr fields make in network       *)
(* order; what has been read and what is still to be read make the message.  *)
Writing(m) ==
  /\ curr \in 0..Len(OutMessages[m]) /\ fields = Memory(OutMessages[m])
  /\ bytes = Upto(InOrder(OutMessages[m]), curr)

Reading(m) ==
  /\ curr \in 0..Len(InMessages[m]) /\ bytes \in Seq(Octet)
  /\ fields = SubSeq(Memory(InMessages[m]), 1, curr)
  /\ Upto(InOrder(InMessages[m]), curr) \o bytes = OnTheWire(InMessages[m])

WireInductive ==
  /\ task \in {"idle", "write", "sent", "read", "handled"}
  /\ task \in {"write", "sent"} => id \in 1..Len(OutMessages)
  /\ task \in {"read", "handled"} => id \in 1..Len(InMessages)
  /\ task = "write" => Writing(id)
  /\ task = "sent" => bytes = OnTheWire(OutMessages[id])
  /\ task = "read" => Reading(id)
  /\ task = "handled" => fields = Memory(InMessages[id]) /\ bytes = <<>>

LEMMA OutWidths ==
  ASSUME NEW m \in 1..Len(OutMessages)
  PROVE  /\ OutMessages[m] \in Seq(Widths)
         /\ \A i \in 1..Len(OutMessages[m]) : OutMessages[m][i] \in {1, 4, 8}
<1>1. OutMessages[m] \in Seq({1, 4, 8})  BY MessagesAssumption
<1>2. {1, 4, 8} \subseteq Widths  BY DEF Widths
<1>3. OutMessages[m] \in Seq(Widths)  BY <1>1, <1>2, SeqMonotonic
<1>4. \A i \in 1..Len(OutMessages[m]) : OutMessages[m][i] \in {1, 4, 8}  BY <1>1
<1> QED  BY <1>3, <1>4

LEMMA InWidths ==
  ASSUME NEW m \in 1..Len(InMessages)
  PROVE  InMessages[m] \in Seq(Widths)
<1>1. InMessages[m] \in Seq({1, 2, 4})  BY MessagesAssumption
<1>2. {1, 2, 4} \subseteq Widths  BY DEF Widths
<1> QED  BY <1>1, <1>2, SeqMonotonic

(* A message begins with none of its fields written, or read. *)
LEMMA NothingYet ==
  ASSUME NEW widths \in Seq(Widths)
  PROVE  /\ 0 \in 0..Len(widths) /\ Upto(InOrder(widths), 0) = <<>>
         /\ OnTheWire(widths) \in Seq(Octet) /\ <<>> \o OnTheWire(widths) = OnTheWire(widths)
         /\ SubSeq(Memory(widths), 1, 0) = <<>>
<1> DEFINE o == InOrder(widths)
<1>1. o \in Seq(Seq(Octet)) /\ Len(o) = Len(widths)  BY MemoryOctets
<1>2. Len(widths) \in Nat  OBVIOUS
<1>3. OnTheWire(widths) = FlattenSeq(o)  BY DEF OnTheWire
<1> HIDE DEF o
<1>4. Upto(o, 0) = <<>> /\ Upto(o, Len(o)) = FlattenSeq(o)  BY <1>1, FlattenedPrefixes
<1>5. Upto(o, Len(o)) \in Seq(Octet)
  <2>1. Len(o) \in 0..Len(o)  BY <1>1, <1>2
  <2> QED  BY <1>1, <2>1, FlattenedPrefixes
<1>6. OnTheWire(widths) \in Seq(Octet)  BY <1>3, <1>4, <1>5
<1>7. <<>> \o OnTheWire(widths) = OnTheWire(widths)  BY <1>6, ConcatEmptySeq
<1>8. SubSeq(Memory(widths), 1, 0) = <<>>  BY SubSeqEmpty
<1> QED  BY <1>2, <1>4, <1>6, <1>7, <1>8 DEF o

LEMMA SerializeHolds ==
  ASSUME NEW m \in 1..Len(OutMessages), Serialize(m)
  PROVE  WireInductive'
<1>1. Upto(InOrder(OutMessages[m]), 0) = <<>> /\ 0 \in 0..Len(OutMessages[m])
  BY OutWidths, NothingYet
<1> QED  BY <1>1 DEF Serialize, WireInductive, Writing

LEMMA WriteFieldHolds ==
  ASSUME WireInductive, WriteField
  PROVE  WireInductive'
<1> DEFINE w == OutMessages[id]
           o == InOrder(w)
           v == Memory(w)[curr + 1]
<1>1. task = "write" /\ id \in 1..Len(OutMessages) /\ Writing(id)
  BY DEF WireInductive, WriteField
<1>2. w \in Seq(Widths) /\ (\A i \in 1..Len(w) : w[i] \in {1, 4, 8}) /\ Len(w) \in Nat
  BY <1>1, OutWidths
<1>3. fields = Memory(w) /\ bytes = Upto(o, curr) /\ curr \in 0..Len(w)  BY <1>1 DEF Writing
<1> HIDE DEF w
<1>4. FieldCount(w) = Len(w)  BY <1>2, MessageFieldsAreCounted
<1>5. curr \in Nat /\ curr + 1 \in 1..Len(w) /\ curr \in 0..Len(w) - 1
  BY <1>2, <1>3, <1>4 DEF WriteField, w
<1>6. /\ Memory(w) \in Seq(Seq(Octet)) /\ Len(Memory(w)) = Len(w)
      /\ o \in Seq(Seq(Octet)) /\ Len(o) = Len(w)
  BY <1>2, MemoryOctets
<1>7. v \in Seq(Octet) /\ Len(v) = w[curr + 1] /\ o[curr + 1] = Reverse(v)
  BY <1>2, <1>5, MemoryOctets
<1>8. Get(fields, curr) = v  BY <1>3, <1>5, <1>6, GetIsTheValue
<1> HIDE DEF v, o
<1>9. WriteVal(v) = o[curr + 1]
  <2>1. Len(v) \in {1, 4, 8}  BY <1>2, <1>5, <1>7
  <2> QED  BY <1>7, <2>1, WrittenInNetworkOrder
<1>10. Upto(o, curr + 1) = Upto(o, (curr + 1) - 1) \o o[curr + 1]
  <2> DEFINE k == curr + 1
  <2>1. k \in 1..Len(o)  BY <1>5, <1>6
  <2> HIDE DEF k
  <2>2. Upto(o, k) = Upto(o, k - 1) \o o[k]  BY <1>6, <2>1, FlattenedPrefixes
  <2> QED  BY <2>2 DEF k
<1>11. bytes' = Upto(o, curr + 1)
  <2>1. (curr + 1) - 1 = curr  BY <1>5
  <2>2. bytes' = bytes \o WriteVal(Get(fields, curr))  BY DEF WriteField
  <2> QED  BY <1>3, <1>8, <1>9, <1>10, <2>1, <2>2
<1>12. curr + 1 \in 0..Len(w)  BY <1>2, <1>5
<1>13. task' = "write" /\ id' = id /\ curr' = curr + 1 /\ fields' = fields
  BY <1>1 DEF WriteField
<1>14. Writing(id)'
  BY <1>3, <1>11, <1>12, <1>13 DEF Writing, w, o
<1> QED  BY <1>1, <1>13, <1>14 DEF WireInductive

LEMMA SendHolds ==
  ASSUME WireInductive, Send
  PROVE  WireInductive'
<1> DEFINE w == OutMessages[id]
           o == InOrder(w)
<1>1. task = "write" /\ id \in 1..Len(OutMessages) /\ Writing(id)
  BY DEF WireInductive, Send
<1>2. w \in Seq(Widths)  BY <1>1, OutWidths
<1>3. curr = Len(w)
  <2>1. FieldCount(w) = Len(w)  BY <1>2, MessageFieldsAreCounted
  <2> QED  BY <2>1 DEF Send
<1>4. o \in Seq(Seq(Octet)) /\ Len(o) = Len(w)  BY <1>2, MemoryOctets
<1>5. bytes = Upto(o, Len(o))  BY <1>1, <1>3, <1>4 DEF Writing
<1> HIDE DEF o
<1>6. Upto(o, Len(o)) = FlattenSeq(o)  BY <1>4, FlattenedPrefixes
<1>7. bytes = OnTheWire(OutMessages[id])  BY <1>5, <1>6 DEF OnTheWire, o
<1> QED  BY <1>1, <1>7 DEF Send, WireInductive

(* The first part and the rest of two sequences put together. *)
LEMMA Parted ==
  ASSUME NEW S, NEW s \in Seq(S), NEW r \in Seq(S)
  PROVE  SubSeq(s \o r, 1, Len(s)) = s /\ SubSeq(s \o r, Len(s) + 1, Len(s \o r)) = r
<1> DEFINE c == s \o r
           m == Len(s)
           n == Len(r)
<1>1. m \in Nat /\ n \in Nat  OBVIOUS
<1>2. /\ c \in Seq(S) /\ Len(c) = m + n
      /\ \A i \in 1..m + n : c[i] = IF i <= m THEN s[i] ELSE r[i - m]
  BY ConcatProperties
<1> HIDE DEF c
<1>3. SubSeq(c, 1, m) = s
  <2> DEFINE p == SubSeq(c, 1, m)
  <2>1. \A i \in 1..m : i \in 1..m + n /\ i <= m  BY <1>1
  <2>2. \A i \in 1..m : c[i] \in S /\ c[i] = s[i]  BY <1>2, <2>1
  <2>3. /\ p \in Seq(S) /\ Len(p) = IF 1 <= m THEN m - 1 + 1 ELSE 0
        /\ \A i \in 1..m - 1 + 1 : p[i] = c[1 + i - 1]
    <3> HIDE DEF m
    <3> QED  BY <1>1, <2>2, SubSeqProperties
  <2>4. m - 1 + 1 = m /\ \A i \in 1..m : 1 + i - 1 = i  BY <1>1
  <2> HIDE DEF p
  <2>5. Len(p) = m  BY <1>1, <2>3, <2>4
  <2>6. \A i \in 1..m : p[i] = s[i]  BY <2>2, <2>3, <2>4
  <2>7. p = s  BY <2>3, <2>5, <2>6, SeqEqual
  <2> QED  BY <2>7 DEF p
<1>4. SubSeq(c, m + 1, m + n) = r
  <2> DEFINE p == SubSeq(c, m + 1, m + n)
  <2>1. \A i \in 1..n : m + i \in 1..m + n /\ ~(m + i <= m) /\ m + i - m = i  BY <1>1
  <2>2. \A i \in 1..n : c[m + i] = r[i]  BY <1>2, <2>1
  <2>3. \A i \in m + 1..m + n : c[i] \in S
    <3>1. \A i \in m + 1..m + n : i \in 1..m + n  BY <1>1
    <3> HIDE DEF m, n
    <3>2. \A i \in 1..Len(c) : c[i] \in S  BY <1>2
    <3> QED  BY <1>2, <3>1, <3>2
  <2>4. /\ p \in Seq(S) /\ Len(p) = IF m + 1 <= m + n THEN m + n - (m + 1) + 1 ELSE 0
        /\ \A i \in 1..m + n - (m + 1) + 1 : p[i] = c[m + 1 + i - 1]
    <3> DEFINE first == m + 1
               last == m + n
    <3>1. first \in Int /\ last \in Int /\ \A i \in first..last : c[i] \in S  BY <1>1, <2>3
    <3> HIDE DEF first, last, c
    <3> DEFINE q == SubSeq(c, first, last)
    <3>2. /\ q \in Seq(S) /\ Len(q) = IF first <= last THEN last - first + 1 ELSE 0
          /\ \A i \in 1..last - first + 1 : q[i] = c[first + i - 1]
      BY <3>1, SubSeqProperties
    <3> QED  BY <3>2 DEF first, last, q
  <2>5. m + n - (m + 1) + 1 = n /\ \A i \in 1..n : m + 1 + i - 1 = m + i  BY <1>1
  <2> HIDE DEF p
  <2>6. Len(p) = n
    <3> HIDE DEF m, n
    <3> QED  BY <1>1, <2>4, <2>5
  <2>7. \A i \in 1..n : p[i] = r[i]  BY <2>2, <2>4, <2>5
  <2>8. p = r  BY <2>4, <2>6, <2>7, SeqEqual
  <2> QED  BY <2>8 DEF p
<1> QED  BY <1>2, <1>3, <1>4 DEF c

LEMMA ReceiveHolds ==
  ASSUME NEW m \in 1..Len(InMessages), Receive(m)
  PROVE  WireInductive'
<1> DEFINE w == InMessages[m]
<1>1. /\ Upto(InOrder(w), 0) = <<>> /\ 0 \in 0..Len(w)
      /\ OnTheWire(w) \in Seq(Octet) /\ <<>> \o OnTheWire(w) = OnTheWire(w)
      /\ SubSeq(Memory(w), 1, 0) = <<>>
  BY InWidths, NothingYet
<1> QED  BY <1>1 DEF Receive, WireInductive, Reading

LEMMA ReadFieldHolds ==
  ASSUME WireInductive, ReadField
  PROVE  WireInductive'
<1> DEFINE w == InMessages[id]
           o == InOrder(w)
           k == curr + 1
           v == Memory(w)[k]
<1>1. task = "read" /\ id \in 1..Len(InMessages) /\ Reading(id)
  BY DEF WireInductive, ReadField
<1>2. w \in Seq(Widths) /\ Len(w) \in Nat  BY <1>1, InWidths
<1>3. /\ curr \in 0..Len(w) /\ bytes \in Seq(Octet) /\ fields = SubSeq(Memory(w), 1, curr)
      /\ Upto(o, curr) \o bytes = OnTheWire(w)
  BY <1>1 DEF Reading
<1> HIDE DEF w
<1>4. FieldCount(w) = Len(w)  BY <1>2, MessageFieldsAreCounted
<1>5. curr \in Nat /\ k \in 1..Len(w) /\ curr \in 0..Len(w) - 1 /\ k - 1 = curr
  BY <1>2, <1>3, <1>4 DEF ReadField, w
<1>6. /\ Memory(w) \in Seq(Seq(Octet)) /\ Len(Memory(w)) = Len(w)
      /\ o \in Seq(Seq(Octet)) /\ Len(o) = Len(w)
  BY <1>2, MemoryOctets
<1> HIDE DEF k
<1>7. v \in Seq(Octet) /\ Len(v) = w[k] /\ o[k] = Reverse(v) /\ o[k] \in Seq(Octet) /\ Len(o[k]) = w[k]
  BY <1>2, <1>5, MemoryOctets
<1>8. OnTheWire(w) = FlattenSeq(o)  BY DEF OnTheWire
<1> HIDE DEF v, o
<1>9. k \in 0..Len(o) /\ curr \in 0..Len(o) /\ k \in 1..Len(o)  BY <1>2, <1>5, <1>6
<1>10. PICK rest \in Seq(Octet) : FlattenSeq(o) = Upto(o, k) \o rest
  BY <1>6, <1>9, FlattenedRest
<1>11. Upto(o, k) = Upto(o, curr) \o o[k] /\ Upto(o, curr) \in Seq(Octet)
  <2>1. Upto(o, k) = Upto(o, k - 1) \o o[k]  BY <1>6, <1>9, FlattenedPrefixes
  <2>2. Upto(o, curr) \in Seq(Octet)  BY <1>6, <1>9, FlattenedPrefixes
  <2> QED  BY <1>5, <2>1, <2>2
<1>12. bytes = o[k] \o rest
  <2> DEFINE p == Upto(o, curr)
             q == o[k]
             t == q \o rest
  <2>1. p \in Seq(Octet) /\ q \in Seq(Octet)  BY <1>7, <1>11
  <2>2. p \o bytes = (p \o q) \o rest  BY <1>3, <1>8, <1>10, <1>11
  <2> HIDE DEF p, q
  <2>3. (p \o q) \o rest = p \o t  BY <2>1, ConcatAssociative
  <2>4. t \in Seq(Octet)  BY <2>1, ConcatProperties
  <2> HIDE DEF t
  <2>5. p \o bytes = p \o t  BY <2>2, <2>3
  <2>6. bytes = t  BY <1>3, <2>1, <2>4, <2>5, ConcatSimplifications
  <2> QED  BY <2>6 DEF t, q
<1>13. Get(w, curr) = w[k] /\ w[k] \in Widths
  <2>1. Get(w, curr) = w[curr + 1]  BY <1>2, <1>5, GetIsTheValue
  <2>2. w[k] \in Widths  BY <1>2, <1>5
  <2> QED  BY <2>1, <2>2 DEF k
<1>14. SubSeq(bytes, 1, w[k]) = o[k] /\ SubSeq(bytes, w[k] + 1, Len(bytes)) = rest
  <2> DEFINE q == o[k]
  <2>1. q \in Seq(Octet) /\ Len(q) = w[k] /\ bytes = q \o rest  BY <1>7, <1>12
  <2> HIDE DEF q
  <2>2. SubSeq(q \o rest, 1, Len(q)) = q /\ SubSeq(q \o rest, Len(q) + 1, Len(q \o rest)) = rest
    BY <2>1, Parted
  <2> QED  BY <2>1, <2>2 DEF q
<1>15. ReadVal(w[k]) = v
  <2>1. CASE w[k] = 1
    <3>1. Reverse(v) \in Seq(Octet) /\ Len(Reverse(v)) = 1 /\ Reverse(v)[1] = v[1]
      <4>1. Reverse(v) \in Seq(Octet) /\ Len(Reverse(v)) = Len(v)
            /\ \A i \in 1..Len(v) : Reverse(v)[i] = v[Len(v) - i + 1]
        BY <1>7, Reversed
      <4>2. 1 \in 1..Len(v) /\ Len(v) - 1 + 1 = 1  BY <1>7, <2>1
      <4> QED  BY <1>7, <2>1, <4>1, <4>2
    <3>2. Len(v) = Len(Reverse(v)) /\ \A i \in 1..Len(v) : v[i] = Reverse(v)[i]
      BY <1>7, <2>1, <3>1
    <3>3. v = Reverse(v)  BY <1>7, <3>1, <3>2, SeqEqual
    <3> QED  BY <1>7, <1>14, <2>1, <3>3 DEF ReadVal
  <2>2. CASE w[k] # 1
    <3>1. Reverse(Reverse(v)) = v  BY <1>7, Reversed
    <3> QED  BY <1>7, <1>14, <2>2, <3>1 DEF ReadVal, Htonl
  <2> QED  BY <2>1, <2>2
<1>16. /\ task' = "read" /\ id' = id /\ curr' = k
       /\ fields' = Append(fields, v) /\ bytes' = rest
  BY <1>1, <1>13, <1>14, <1>15 DEF ReadField, w, k
<1>17. Append(fields, v) = SubSeq(Memory(w), 1, k)
  <2>1. 1 \in 1..Len(Memory(w)) /\ k \in 1..Len(Memory(w))  BY <1>2, <1>5, <1>6
  <2>2. SubSeq(Memory(w), 1, k) = SubSeq(Memory(w), 1, k - 1) \o <<Memory(w)[k]>>
    BY <1>6, <2>1, SubSeqRecursiveSecond
  <2>3. fields \in Seq(Seq(Octet))
    <3>1. \A i \in 1..curr : i \in 1..Len(Memory(w))  BY <1>2, <1>5, <1>6
    <3>2. \A i \in 1..curr : Memory(w)[i] \in Seq(Octet)  BY <1>6, <3>1
    <3> QED  BY <1>3, <1>5, <3>2, SubSeqProperties
  <2>4. Append(fields, v) = fields \o <<v>>  BY <1>7, <2>3, AppendIsConcat
  <2> QED  BY <1>3, <1>5, <2>2, <2>4 DEF v
<1>18. Upto(o, k) \o rest = OnTheWire(w)  BY <1>8, <1>10
<1>19. k \in 0..Len(w)  BY <1>6, <1>9
<1>20. Reading(id)'
  BY <1>16, <1>17, <1>18, <1>19 DEF Reading, w, o
<1> QED  BY <1>1, <1>16, <1>20 DEF WireInductive

LEMMA HandleMessageHolds ==
  ASSUME WireInductive, HandleMessage
  PROVE  WireInductive'
<1> DEFINE w == InMessages[id]
           o == InOrder(w)
<1>1. task = "read" /\ id \in 1..Len(InMessages) /\ Reading(id)
  BY DEF WireInductive, HandleMessage
<1>2. w \in Seq(Widths) /\ Len(w) \in Nat  BY <1>1, InWidths
<1>3. curr = Len(w)
  <2>1. FieldCount(w) = Len(w)  BY <1>2, MessageFieldsAreCounted
  <2> QED  BY <2>1 DEF HandleMessage
<1>4. /\ o \in Seq(Seq(Octet)) /\ Len(o) = Len(w)
      /\ Memory(w) \in Seq(Seq(Octet)) /\ Len(Memory(w)) = Len(w)
  BY <1>2, MemoryOctets
<1>5. bytes \in Seq(Octet) /\ fields = SubSeq(Memory(w), 1, Len(w))
      /\ Upto(o, Len(o)) \o bytes = FlattenSeq(o)
  BY <1>1, <1>3, <1>4 DEF Reading, OnTheWire
<1> HIDE DEF o, w
<1>6. fields = Memory(w)  BY <1>4, <1>5, SubSeqFull
<1>7. bytes = <<>>
  <2>1. Len(o) \in 0..Len(o)  BY <1>2, <1>4
  <2>2. Upto(o, Len(o)) = FlattenSeq(o) /\ Upto(o, Len(o)) \in Seq(Octet)
    BY <1>4, <2>1, FlattenedPrefixes
  <2> QED  BY <1>5, <2>2, ConcatEqualIffEmpty
<1> QED  BY <1>1, <1>6, <1>7 DEF HandleMessage, WireInductive, w

THEOREM WireInvariance == WireSpec => []WireInductive
<1>1. WireInit => WireInductive  BY DEF WireInit, WireInductive
<1>2. WireInductive /\ [WireNext]_wireVars => WireInductive'
  <2> SUFFICES ASSUME WireInductive, [WireNext]_wireVars PROVE WireInductive'  OBVIOUS
  <2>1. CASE AnotherMessage  BY <2>1 DEF AnotherMessage, WireInductive
  <2>2. CASE UNCHANGED wireVars
    BY <2>2 DEF wireVars, WireInductive, Writing, Reading
  <2> QED
    BY <2>1, <2>2, SerializeHolds, WriteFieldHolds, SendHolds, ReceiveHolds, ReadFieldHolds,
       HandleMessageHolds DEF WireNext
<1> QED  BY <1>1, <1>2, PTL DEF WireSpec

(* write_struct and read_struct carry every field of every message, in order *)
(* and most significant byte first, and msg_sizes is the size of what comes, *)
(* for any messages of such widths.                                          *)
THEOREM WireAlwaysCarriesFields == WireSpec => []WireCarriesFields
<1>1. WireInductive => WireCarriesFields
  <2> SUFFICES ASSUME WireInductive, task = "handled"
               PROVE  MsgSize(id) = Len(OnTheWire(InMessages[id]))
    BY DEF WireInductive, WireCarriesFields
  <2> DEFINE w == InMessages[id]
             o == InOrder(w)
  <2>1. id \in 1..Len(InMessages)  BY DEF WireInductive
  <2>2. w \in Seq(Widths)  BY <2>1, InWidths
  <2>3. CASE id \in DOMAIN SizeSaid
    <3>1. w = <<>> /\ SizeSaid[id] = 0  BY <2>1, <2>3, MessagesAssumption
    <3>2. InOrder(<<>>) = <<>>  BY DEF InOrder
    <3>3. OnTheWire(w) = <<>>  BY <3>1, <3>2 DEF OnTheWire, FlattenSeq
    <3> QED  BY <2>3, <3>1, <3>3 DEF MsgSize
  <2>4. CASE id \notin DOMAIN SizeSaid
    <3>1. EvenlySized(w)  BY <2>1, <2>4, MessagesAssumption
    <3> HIDE DEF w
    <3>2. MsgSize(id) = Len(w) * w[1]
      BY <2>2, <2>4, <3>1, EvenlySizedStruct DEF MsgSize, w
    <3>3. w[1] \in Nat /\ \A i \in 1..Len(w) : w[i] = w[1]
      BY <2>2, <3>1, RoundedToWidth DEF EvenlySized
    <3>4. o \in Seq(Seq(Octet)) /\ Len(o) = Len(w) /\ \A i \in 1..Len(w) : Len(o[i]) = w[i]
      BY <2>2, MemoryOctets
    <3> HIDE DEF o
    <3>5. Len(FlattenSeq(o)) = Len(o) * w[1]  BY <3>3, <3>4, FlattenedLength
    <3> QED  BY <3>2, <3>4, <3>5 DEF OnTheWire, o, w
  <2> QED  BY <2>3, <2>4
<1> QED  BY WireInvariance, <1>1, PTL

-----------------------------------------------------------------------------
(* A comparison from field i on, counted from zero. *)
Alike(x, y, i) == \A j \in i + 1..Shorter(x, y) : x[j] = y[j]
Wins(op, x, y, i) ==
  \E j \in i + 1..Shorter(x, y) : Holds(op, x[j], y[j]) /\ \A k \in i + 1..j - 1 : x[k] = y[k]
From(op, x, y, i) ==
  IF op = "eq" THEN Alike(x, y, i) /\ Len(x) = Len(y)
  ELSE IF op = "ne" THEN ~Alike(x, y, i) \/ Len(x) # Len(y)
  ELSE Wins(Strict[op], x, y, i) \/ (Alike(x, y, i) /\ Holds(op, Len(x), Len(y)))

LEMMA SameBoolean ==
  ASSUME NEW p \in BOOLEAN, NEW q \in BOOLEAN, p <=> q
  PROVE  p = q
OBVIOUS

LEMMA ShorterLength ==
  ASSUME NEW S, NEW x \in Seq(S), NEW y \in Seq(S)
  PROVE  /\ Shorter(x, y) \in Nat /\ Shorter(x, y) <= Len(x) /\ Shorter(x, y) <= Len(y)
         /\ DOMAIN x \cap DOMAIN y = 1..Shorter(x, y)
         /\ Len(x) = Len(y) => Shorter(x, y) = Len(x)
<1> DEFINE a == Len(x)
           b == Len(y)
<1>1. a \in Nat /\ b \in Nat  OBVIOUS
<1>2. DOMAIN x = 1..a /\ DOMAIN y = 1..b  OBVIOUS
<1>3. Shorter(x, y) = IF a <= b THEN a ELSE b  BY DEF Shorter
<1> HIDE DEF a, b
<1>4. Shorter(x, y) \in Nat /\ Shorter(x, y) <= a /\ Shorter(x, y) <= b
      /\ (a = b => Shorter(x, y) = a)
  BY <1>1, <1>3
<1>5. 1..a \cap 1..b = 1..Shorter(x, y)
  <2>1. CASE a <= b  BY <1>1, <1>3, <2>1
  <2>2. CASE ~(a <= b)  BY <1>1, <1>3, <2>2
  <2> QED  BY <2>1, <2>2
<1>6. DOMAIN x \cap DOMAIN y = 1..Shorter(x, y)  BY <1>2, <1>5, Zenon
<1> QED  BY <1>4, <1>6, Zenon DEF a, b

(* What Decide says, operator by operator. *)
LEMMA Decided ==
  ASSUME NEW op \in Operators, NEW l, NEW r, NEW rest \in BOOLEAN
  PROVE  /\ Decide(op, l, r, rest) \in BOOLEAN
         /\ op = "eq" => (Decide(op, l, r, rest) <=> l = r /\ rest)
         /\ op = "ne" => (Decide(op, l, r, rest) <=> l # r \/ rest)
         /\ op \notin {"eq", "ne"} =>
              (Decide(op, l, r, rest) <=> Holds(Strict[op], l, r) \/ (l = r /\ rest))
<1>1. CASE op = "eq"  BY <1>1, Zenon DEF Decide
<1>2. CASE op = "ne"  BY <1>2, Zenon DEF Decide
<1>3. CASE op \notin {"eq", "ne"}
  <2>1. op # "eq" /\ op # "ne"  BY <1>3
  <2>2. Decide(op, l, r, rest) = (Holds(Strict[op], l, r) \/ (l = r /\ rest))
    BY <2>1, Zenon DEF Decide
  <2>3. (Holds(Strict[op], l, r) \/ (l = r /\ rest)) \in BOOLEAN  OBVIOUS
  <2> QED  BY <1>3, <2>2, <2>3, Zenon
<1> QED  BY <1>1, <1>2, <1>3

LEMMA HoldsIsBoolean ==
  ASSUME NEW op \in Operators, NEW m \in Int, NEW n \in Int
  PROVE  Holds(op, m, n) \in BOOLEAN
<1>1. (m < n) \in BOOLEAN /\ (m <= n) \in BOOLEAN /\ (m > n) \in BOOLEAN /\ (m >= n) \in BOOLEAN
  OBVIOUS
<1>2. CASE op = "eq"  BY <1>2, Zenon DEF Holds
<1>3. CASE op = "ne"  BY <1>3, Zenon DEF Holds
<1>4. CASE op = "lt"  BY <1>1, <1>4, Zenon DEF Holds
<1>5. CASE op = "le"  BY <1>1, <1>5, Zenon DEF Holds
<1>6. CASE op = "gt"  BY <1>1, <1>6, Zenon DEF Holds
<1>7. CASE op = "ge"  BY <1>1, <1>7, Zenon DEF Holds
<1> QED  BY <1>2, <1>3, <1>4, <1>5, <1>6, <1>7, Zenon DEF Operators

(* One field more. *)
LEMMA OneFieldMore ==
  ASSUME NEW x, NEW y, NEW i \in Nat, i < Shorter(x, y), Shorter(x, y) \in Nat, NEW op
  PROVE  /\ Alike(x, y, i) <=> x[i + 1] = y[i + 1] /\ Alike(x, y, i + 1)
         /\ Wins(op, x, y, i) <=> \/ Holds(op, x[i + 1], y[i + 1])
                                  \/ x[i + 1] = y[i + 1] /\ Wins(op, x, y, i + 1)
<1> DEFINE s == Shorter(x, y)
<1>1. s \in Nat /\ i + 1 \in i + 1..s /\ \A j \in i + 1..s : j = i + 1 \/ j \in i + 1 + 1..s
  OBVIOUS
<1>2. \A j \in i + 1 + 1..s : j \in i + 1..s  OBVIOUS
<1> HIDE DEF s
<1>3. Alike(x, y, i) <=> x[i + 1] = y[i + 1] /\ Alike(x, y, i + 1)
  BY <1>1, <1>2, Zenon DEF Alike, s
<1>4. ASSUME Wins(op, x, y, i)
      PROVE  Holds(op, x[i + 1], y[i + 1]) \/ (x[i + 1] = y[i + 1] /\ Wins(op, x, y, i + 1))
  <2>1. PICK j \in i + 1..s : Holds(op, x[j], y[j]) /\ \A k \in i + 1..j - 1 : x[k] = y[k]
    BY <1>4 DEF Wins, s
  <2>2. CASE j = i + 1  BY <2>1, <2>2, Zenon
  <2>3. CASE j \in i + 1 + 1..s
    <3>1. i + 1 \in i + 1..j - 1 /\ \A k \in i + 1 + 1..j - 1 : k \in i + 1..j - 1  BY <1>1, <2>3
    <3>2. x[i + 1] = y[i + 1] /\ \A k \in i + 1 + 1..j - 1 : x[k] = y[k]  BY <2>1, <3>1, Zenon
    <3>3. Wins(op, x, y, i + 1)  BY <2>1, <2>3, <3>2, Zenon DEF Wins, s
    <3> QED  BY <3>2, <3>3
  <2> QED  BY <1>1, <2>2, <2>3
<1>5. ASSUME Holds(op, x[i + 1], y[i + 1]) PROVE Wins(op, x, y, i)
  <2>1. \A k \in i + 1..(i + 1) - 1 : FALSE  OBVIOUS
  <2>2. \A k \in i + 1..(i + 1) - 1 : x[k] = y[k]  BY <2>1, Zenon
  <2> QED  BY <1>1, <1>5, <2>2, Zenon DEF Wins, s
<1>6. ASSUME x[i + 1] = y[i + 1], Wins(op, x, y, i + 1) PROVE Wins(op, x, y, i)
  <2>1. PICK j \in i + 1 + 1..s : Holds(op, x[j], y[j]) /\ \A k \in i + 1 + 1..j - 1 : x[k] = y[k]
    BY <1>6 DEF Wins, s
  <2>2. \A k \in i + 1..j - 1 : k = i + 1 \/ k \in i + 1 + 1..j - 1  OBVIOUS
  <2>3. \A k \in i + 1..j - 1 : x[k] = y[k]  BY <1>6, <2>1, <2>2, Zenon
  <2> QED  BY <1>2, <2>1, <2>3, Zenon DEF Wins, s
<1> QED  BY <1>3, <1>4, <1>5, <1>6, Zenon

(* The recursion's own value is the comparison from its field on. *)
LEMMA FromIsDecided ==
  ASSUME NEW op \in Operators, NEW x \in Seq(Int), NEW y \in Seq(Int), NEW i \in Nat,
         i < Shorter(x, y)
  PROVE  From(op, x, y, i) = Decide(op, x[i + 1], y[i + 1], From(op, x, y, i + 1))
<1> DEFINE l == x[i + 1]
           r == y[i + 1]
           h == Holds(op, Len(x), Len(y))
           same == Len(x) = Len(y)
           rest == From(op, x, y, i + 1)
           a == Alike(x, y, i)
           b == Alike(x, y, i + 1)
<1>1. rest \in BOOLEAN /\ From(op, x, y, i) \in BOOLEAN
  BY Zenon DEF From
<1>2. a <=> l = r /\ b  BY ShorterLength, OneFieldMore
<1>3. ASSUME op \notin {"eq", "ne"}
      PROVE  Wins(Strict[op], x, y, i)
               <=> Holds(Strict[op], l, r) \/ (l = r /\ Wins(Strict[op], x, y, i + 1))
  BY ShorterLength, OneFieldMore
<1> HIDE DEF l, r, rest, a, b, h, same
<1>4. From(op, x, y, i) <=> Decide(op, l, r, rest)
  <2>1. CASE op = "eq"
    <3>1. From(op, x, y, i) <=> a /\ same  BY <2>1, Zenon DEF From, a, same
    <3>2. rest <=> b /\ same  BY <2>1, Zenon DEF From, rest, b, same
    <3>3. Decide(op, l, r, rest) <=> l = r /\ rest  BY <1>1, <2>1, Decided
    <3> QED  BY <1>2, <3>1, <3>2, <3>3, Zenon
  <2>2. CASE op = "ne"
    <3>1. From(op, x, y, i) <=> ~a \/ ~same  BY <2>2, Zenon DEF From, a, same
    <3>2. rest <=> ~b \/ ~same  BY <2>2, Zenon DEF From, rest, b, same
    <3>3. Decide(op, l, r, rest) <=> l # r \/ rest  BY <1>1, <2>2, Decided
    <3> QED  BY <1>2, <3>1, <3>2, <3>3, Zenon
  <2>3. CASE op \notin {"eq", "ne"}
    <3> DEFINE w == Wins(Strict[op], x, y, i)
               v == Wins(Strict[op], x, y, i + 1)
               g == Holds(Strict[op], l, r)
    <3>1. op # "eq" /\ op # "ne"  BY <2>3
    <3>2. From(op, x, y, i) <=> w \/ (a /\ h)  BY <3>1, Zenon DEF From, a, h
    <3>3. rest <=> v \/ (b /\ h)  BY <3>1, Zenon DEF From, rest, b, h
    <3>4. Decide(op, l, r, rest) <=> g \/ (l = r /\ rest)  BY <1>1, <2>3, Decided
    <3>5. w <=> g \/ (l = r /\ v)  BY <1>3, <2>3
    <3> HIDE DEF w, v, g
    <3> QED  BY <1>2, <3>2, <3>3, <3>4, <3>5, Zenon
  <2> QED  BY <2>1, <2>2, <2>3
<1>5. Decide(op, l, r, rest) \in BOOLEAN  BY <1>1, Decided
<1>6. From(op, x, y, i) = Decide(op, l, r, rest)  BY <1>1, <1>4, <1>5, SameBoolean
<1> QED  BY <1>6 DEF l, r, rest

(* After the last common field the sizes decide. *)
LEMMA FromTheEnd ==
  ASSUME NEW op \in Operators, NEW x \in Seq(Int), NEW y \in Seq(Int)
  PROVE  From(op, x, y, Shorter(x, y)) = Holds(op, Len(x), Len(y))
<1> DEFINE s == Shorter(x, y)
<1>1. s \in Nat  BY ShorterLength
<1>2. \A j \in s + 1..s : FALSE  BY <1>1
<1>3. Len(x) \in Int /\ Len(y) \in Int  OBVIOUS
<1>4. Holds(op, Len(x), Len(y)) \in BOOLEAN  BY <1>3, HoldsIsBoolean
<1> HIDE DEF s
<1>5. Alike(x, y, s) = TRUE  BY <1>2, Zenon DEF Alike, s
<1>6. \A o : Wins(o, x, y, s) = FALSE  BY <1>2, Zenon DEF Wins, s
<1>7. From(op, x, y, s) \in BOOLEAN  BY Zenon DEF From
<1>8. From(op, x, y, s) <=> Holds(op, Len(x), Len(y))
  <2>1. CASE op = "eq"  BY <1>5, <2>1, Zenon DEF From, Holds
  <2>2. CASE op = "ne"  BY <1>5, <2>2, Zenon DEF From, Holds
  <2>3. CASE op # "eq" /\ op # "ne"  BY <1>5, <1>6, <2>3, Zenon DEF From
  <2> QED  BY <2>1, <2>2, <2>3
<1>9. From(op, x, y, s) = Holds(op, Len(x), Len(y))  BY <1>4, <1>7, <1>8, SameBoolean
<1> QED  BY <1>9 DEF s

(* From the first field on it is the comparison that is documented. *)
LEMMA FromTheFirst ==
  ASSUME NEW op \in Operators, NEW x \in Seq(Int), NEW y \in Seq(Int)
  PROVE  From(op, x, y, 0) = Documented(op, x, y)
<1> DEFINE s == Shorter(x, y)
           same == \A i \in DOMAIN x \cap DOMAIN y : x[i] = y[i]
           a == Alike(x, y, 0)
<1>1. s \in Nat /\ DOMAIN x \cap DOMAIN y = 1..s /\ (Len(x) = Len(y) => s = Len(x))
  BY ShorterLength
<1>2. 0 + 1 = 1 /\ \A j \in Int : 0 + 1..j - 1 = 1..j - 1  OBVIOUS
<1>3. a <=> same  BY <1>1, <1>2, Zenon DEF Alike
<1>4. ASSUME NEW o PROVE Wins(o, x, y, 0) <=> FirstDifference(x, y, o)
  <2>1. Wins(o, x, y, 0) <=> \E j \in 1..s : Holds(o, x[j], y[j]) /\ \A k \in 1..j - 1 : x[k] = y[k]
    BY <1>2 DEF Wins
  <2> QED  BY <1>1, <2>1, Zenon DEF FirstDifference
<1>5. x = y <=> a /\ Len(x) = Len(y)
  <2>1. ASSUME x = y PROVE a /\ Len(x) = Len(y)
    BY <2>1, Zenon DEF Alike
  <2>2. ASSUME a, Len(x) = Len(y) PROVE x = y
    <3>1. \A i \in 1..Len(x) : x[i] = y[i]  BY <1>1, <1>3, <2>2, Zenon
    <3> QED  BY <2>2, <3>1, SeqEqual
  <2> QED  BY <2>1, <2>2
<1> HIDE DEF s, a, same
<1>6. From(op, x, y, 0) \in BOOLEAN  BY Zenon DEF From
<1>7. CASE op = "eq"
  <2>1. From(op, x, y, 0) <=> a /\ Len(x) = Len(y)  BY <1>7, Zenon DEF From, a
  <2>2. Documented(op, x, y) = (x = y)  BY <1>7, Zenon DEF Documented
  <2>3. (x = y) \in BOOLEAN  BY Zenon
  <2>4. Documented(op, x, y) \in BOOLEAN  BY <2>2, <2>3, Zenon
  <2>5. From(op, x, y, 0) <=> Documented(op, x, y)  BY <1>5, <2>1, <2>2, Zenon
  <2> QED  BY <1>6, <2>4, <2>5, SameBoolean
<1>8. CASE op = "ne"
  <2>1. From(op, x, y, 0) <=> ~a \/ Len(x) # Len(y)  BY <1>8, Zenon DEF From, a
  <2>2. Documented(op, x, y) = (x # y)  BY <1>8, Zenon DEF Documented
  <2>3. (x # y) \in BOOLEAN  BY Zenon
  <2>4. Documented(op, x, y) \in BOOLEAN  BY <2>2, <2>3, Zenon
  <2>5. From(op, x, y, 0) <=> Documented(op, x, y)  BY <1>5, <2>1, <2>2, Zenon
  <2> QED  BY <1>6, <2>4, <2>5, SameBoolean
<1>9. CASE op # "eq" /\ op # "ne"
  <2> DEFINE d == FirstDifference(x, y, Strict[op])
             h == Holds(op, Len(x), Len(y))
  <2>1. From(op, x, y, 0) <=> Wins(Strict[op], x, y, 0) \/ (a /\ h)  BY <1>9, Zenon DEF From, a
  <2>2. Documented(op, x, y) = (d \/ (same /\ h))  BY <1>9, Zenon DEF Documented, same
  <2>3. (d \/ (same /\ h)) \in BOOLEAN  BY Zenon
  <2>4. Wins(Strict[op], x, y, 0) <=> d  BY <1>4
  <2> HIDE DEF d, h
  <2>5. Documented(op, x, y) \in BOOLEAN  BY <2>2, <2>3, Zenon
  <2>6. From(op, x, y, 0) <=> Documented(op, x, y)  BY <1>3, <2>1, <2>2, <2>4, Zenon
  <2> QED  BY <1>6, <2>5, <2>6, SameBoolean
<1> QED  BY <1>7, <1>8, <1>9

(* The six comparisons are the documented ones, of structs of any size. *)
LEMMA ComparedAsDocumented ==
  ASSUME NEW op \in Operators, NEW x \in Seq(Int), NEW y \in Seq(Int)
  PROVE  BinaryVisit(op, x, y) = Documented(op, x, y)
<1> DEFINE s == Shorter(x, y)
           Next(f) == [index \in 0..s |->
             IF index = s THEN Holds(op, Len(x), Len(y))
             ELSE Decide(op, Get(x, index), Get(y, index), f[index + 1])]
           visit == CHOOSE f : f = Next(f)
           found == [index \in 0..s |-> From(op, x, y, index)]
<1>1. s \in Nat /\ s <= Len(x) /\ s <= Len(y) /\ Len(x) \in Nat /\ Len(y) \in Nat  BY ShorterLength
<1>2. BinaryVisit(op, x, y) = visit[0]
  <2>1. BinaryVisit(op, x, y) = Visit(op, x, y)  BY TiedAsTuple DEF BinaryVisit
  <2>2. Visit(op, x, y) = visit[0]  BY Zenon DEF Visit
  <2> QED  BY <2>1, <2>2
<1>3. From(op, x, y, s) = Holds(op, Len(x), Len(y))  BY FromTheEnd
<1>4. ASSUME NEW i \in Nat, i < s
      PROVE  From(op, x, y, i) = Decide(op, Get(x, i), Get(y, i), From(op, x, y, i + 1))
  <2>1. i \in 0..Len(x) - 1 /\ i \in 0..Len(y) - 1  BY <1>1, <1>4
  <2>2. Get(x, i) = x[i + 1] /\ Get(y, i) = y[i + 1]  BY <2>1, GetIsTheValue
  <2> QED  BY <1>4, <2>2, FromIsDecided
<1> HIDE DEF s
<1>5. found = Next(found)
  <2>1. ASSUME NEW i \in 0..s PROVE found[i] = Next(found)[i]
    <3>1. CASE i = s  BY <1>3, <3>1
    <3>2. CASE i # s
      <4>1. i \in Nat /\ i < s /\ i + 1 \in 0..s  BY <1>1, <3>2
      <4>2. found[i + 1] = From(op, x, y, i + 1)  BY <4>1
      <4>3. Next(found)[i] = Decide(op, Get(x, i), Get(y, i), found[i + 1])  BY <3>2
      <4> QED  BY <1>4, <4>1, <4>2, <4>3
    <3> QED  BY <3>1, <3>2
  <2>2. found = [i \in 0..s |-> found[i]] /\ Next(found) = [i \in 0..s |-> Next(found)[i]]  OBVIOUS
  <2> HIDE DEF found, Next
  <2> QED  BY <2>1, <2>2
<1>6. visit = Next(visit)
  <2> HIDE DEF Next, found
  <2> QED  BY <1>5
<1> HIDE DEF visit
<1> DEFINE T == {d \in Nat : d <= s => visit[s - d] = From(op, x, y, s - d)}
<1>7. 0 \in T
  <2>1. s \in 0..s /\ s - 0 = s  BY <1>1
  <2>2. visit[s] = Holds(op, Len(x), Len(y))  BY <1>6, <2>1
  <2> QED  BY <1>3, <2>1, <2>2
<1>8. ASSUME NEW d \in Nat, d \in T PROVE d + 1 \in T
  <2> SUFFICES ASSUME d + 1 <= s PROVE visit[s - (d + 1)] = From(op, x, y, s - (d + 1))  OBVIOUS
  <2> DEFINE i == s - (d + 1)
  <2>1. i \in Nat /\ i < s /\ i \in 0..s /\ i # s /\ i + 1 = s - d /\ d <= s  BY <1>1
  <2> HIDE DEF i
  <2>2. visit[i + 1] = From(op, x, y, i + 1)  BY <1>8, <2>1
  <2>3. visit[i] = Decide(op, Get(x, i), Get(y, i), visit[i + 1])  BY <1>6, <2>1
  <2>4. visit[i] = From(op, x, y, i)  BY <1>4, <2>1, <2>2, <2>3
  <2> QED  BY <2>4 DEF i
<1>9. T \in SUBSET Nat  OBVIOUS
<1> HIDE DEF T
<1>10. T = Nat  BY <1>7, <1>8, <1>9, EveryNumber
<1>11. visit[s - s] = From(op, x, y, s - s)
  <2>1. s \in T /\ s <= s  BY <1>1, <1>10
  <2> QED  BY <2>1 DEF T
<1>12. s - s = 0  BY <1>1
<1> QED  BY <1>2, <1>11, <1>12, FromTheFirst

-----------------------------------------------------------------------------
(* A struct as a stream: place by place, what io_fields writes there. *)
Width(k) == IF k = 0 THEN 1 ELSE 3 * k - 1
Written(x, i) ==
  IF i = 1 THEN Char("{")
  ELSE IF i % 3 = 2 THEN Value(x[(i + 1) \div 3])
  ELSE IF i % 3 = 0 THEN Char(",") ELSE Char(" ")
Begun(x, k) == [i \in 1..Width(k) |-> Written(x, i)]

LEMMA TokenKinds ==
  /\ \A c \in {"{", "}", ",", " "} : Char(c) \in Tokens /\ Char(c)[1] = "char"
  /\ \A v \in Numbers : Value(v) \in Tokens
  /\ \A v : Value(v)[1] = "value" /\ Value(v)[2] = v
  /\ \A t \in Tokens : t[1] = "value" => t[2] \in Numbers /\ t = Value(t[2])
<1>1. \A c : Char(c)[1] = "char" /\ Char(c)[1] # "value"  BY DEF Char
<1>2. \A v : Value(v)[1] = "value" /\ Value(v)[2] = v  BY DEF Value
<1>3. \A c \in {"{", "}", ",", " "} : Char(c) \in Tokens  BY Zenon DEF Tokens
<1>4. \A v \in Numbers : Value(v) \in Tokens  BY Zenon DEF Tokens
<1>5. ASSUME NEW t \in Tokens, t[1] = "value" PROVE t[2] \in Numbers /\ t = Value(t[2])
  <2>1. (\E c \in {"{", "}", ",", " "} : t = Char(c)) \/ \E v \in Numbers : t = Value(v)
    BY Zenon DEF Tokens
  <2>2. PICK v \in Numbers : t = Value(v)  BY <1>1, <1>5, <2>1, Zenon
  <2> QED  BY <1>2, <2>2, Zenon
<1> QED  BY <1>1, <1>2, <1>3, <1>4, <1>5, Zenon

(* A struct begins with "{", and each field is a value, from the second on   *)
(* after a comma and a space.                                                *)
LEMMA WidthOf ==
  ASSUME NEW k \in Nat
  PROVE  /\ Width(k) \in Nat /\ Width(k) >= 1 /\ Width(0) = 1 /\ Width(1) = 2
         /\ k # 0 => Width(k + 1) = Width(k) + 3 /\ Width(k) = 3 * k - 1
BY DEF Width

LEMMA WrittenTokens ==
  ASSUME NEW x \in Seq(Numbers), NEW k \in 0..Len(x), NEW i \in 1..Width(k)
  PROVE  Written(x, i) \in Tokens
<1>1. k \in Nat /\ i \in Nat /\ k <= Len(x) /\ Len(x) \in Nat  OBVIOUS
<1>2. CASE i # 1 /\ i % 3 = 2
  <2>1. (i + 1) \div 3 \in 1..Len(x)
    <3>1. k # 0 /\ i <= 3 * k - 1 /\ i >= 2  BY <1>1, <1>2 DEF Width
    <3>2. (i + 1) \div 3 >= 1 /\ (i + 1) \div 3 <= k  BY <1>1, <3>1
    <3> QED  BY <1>1, <3>2
  <2>2. x[(i + 1) \div 3] \in Numbers  BY <2>1
  <2> QED  BY <1>2, <2>2, TokenKinds DEF Written
<1>3. CASE ~(i # 1 /\ i % 3 = 2)
  BY <1>3, TokenKinds DEF Written
<1> QED  BY <1>2, <1>3

LEMMA OneMore ==
  ASSUME NEW S, NEW a \in Seq(S), NEW v \in S
  PROVE  /\ a \o <<v>> \in Seq(S) /\ Len(a \o <<v>>) = Len(a) + 1
         /\ \A i \in 1..Len(a) : (a \o <<v>>)[i] = a[i]
         /\ (a \o <<v>>)[Len(a) + 1] = v
<1> DEFINE u == <<v>>
<1>1. u \in Seq(S) /\ Len(u) = 1 /\ u[1] = v  OBVIOUS
<1>2. Len(a) \in Nat  OBVIOUS
<1> HIDE DEF u
<1>3. /\ a \o u \in Seq(S) /\ Len(a \o u) = Len(a) + Len(u)
      /\ \A i \in 1..Len(a) + Len(u) : (a \o u)[i] = IF i <= Len(a) THEN a[i] ELSE u[i - Len(a)]
  BY <1>1, ConcatProperties
<1>4. \A i \in 1..Len(a) + 1 : (a \o u)[i] = IF i <= Len(a) THEN a[i] ELSE u[i - Len(a)]
  BY <1>1, <1>3
<1>5. \A n \in Nat : n + 1 \in 1..n + 1 /\ ~(n + 1 <= n) /\ n + 1 - n = 1  OBVIOUS
<1>6. \A i \in 1..Len(a) : i \in 1..Len(a) + 1 /\ i <= Len(a)  BY <1>2
<1>7. (a \o u)[Len(a) + 1] = v
  <2> DEFINE j == Len(a) + 1
  <2>1. j \in 1..j /\ ~(j <= Len(a)) /\ j - Len(a) = 1  BY <1>2, <1>5
  <2>2. \A i \in 1..j : (a \o u)[i] = IF i <= Len(a) THEN a[i] ELSE u[i - Len(a)]  BY <1>4
  <2> HIDE DEF j
  <2>3. (a \o u)[j] = IF j <= Len(a) THEN a[j] ELSE u[j - Len(a)]  BY <2>1, <2>2, Zenon
  <2> QED  BY <1>1, <2>1, <2>3 DEF j
<1>8. \A i \in 1..Len(a) : (a \o u)[i] = a[i]  BY <1>4, <1>6
<1> QED  BY <1>1, <1>3, <1>7, <1>8 DEF u

LEMMA ThreeMore ==
  ASSUME NEW S, NEW a \in Seq(S), NEW u \in S, NEW v \in S, NEW w \in S
  PROVE  /\ (a \o <<u, v>>) \o <<w>> \in Seq(S)
         /\ Len((a \o <<u, v>>) \o <<w>>) = Len(a) + 3
         /\ \A i \in 1..Len(a) : ((a \o <<u, v>>) \o <<w>>)[i] = a[i]
         /\ ((a \o <<u, v>>) \o <<w>>)[Len(a) + 1] = u
         /\ ((a \o <<u, v>>) \o <<w>>)[Len(a) + 2] = v
         /\ ((a \o <<u, v>>) \o <<w>>)[Len(a) + 3] = w
<1> DEFINE b == a \o <<u>>
           c == b \o <<v>>
           d == c \o <<w>>
<1> HIDE DEF d
<1>1. a \o <<u, v>> = c
  <2> DEFINE p == <<u>>
             r == <<v>>
             q == p \o r
             uv == <<u, v>>
  <2>1. p \in Seq(S) /\ Len(p) = 1 /\ p[1] = u /\ r \in Seq(S)  OBVIOUS
  <2>2. uv \in Seq(S) /\ Len(uv) = 2 /\ uv[1] = u /\ uv[2] = v  OBVIOUS
  <2> HIDE DEF p
  <2>3. q \in Seq(S) /\ Len(q) = Len(p) + 1 /\ (\A i \in 1..Len(p) : q[i] = p[i]) /\ q[Len(p) + 1] = v
    BY <2>1, OneMore
  <2> HIDE DEF q, r, uv
  <2>4. Len(q) = 2 /\ q[1] = u /\ q[2] = v  BY <2>1, <2>3
  <2>5. \A i \in 1..Len(uv) : i = 1 \/ i = 2  BY <2>2
  <2>6. uv = q  BY <2>2, <2>3, <2>4, <2>5, SeqEqual
  <2>7. <<u, v>> = <<u>> \o <<v>> /\ <<u>> \in Seq(S) /\ <<v>> \in Seq(S)
    BY <2>1, <2>6 DEF p, q, r, uv
  <2> QED  BY <2>7, ConcatAssociative
<1>2. (a \o <<u, v>>) \o <<w>> = d  BY <1>1 DEF d
<1> HIDE DEF c
<1>3. b \in Seq(S) /\ Len(b) = Len(a) + 1 /\ (\A i \in 1..Len(a) : b[i] = a[i]) /\ b[Len(a) + 1] = u
  BY OneMore
<1> HIDE DEF b
<1>4. c \in Seq(S) /\ Len(c) = Len(b) + 1 /\ (\A i \in 1..Len(b) : c[i] = b[i]) /\ c[Len(b) + 1] = v
  BY <1>3, OneMore DEF c
<1>5. d \in Seq(S) /\ Len(d) = Len(c) + 1 /\ (\A i \in 1..Len(c) : d[i] = c[i]) /\ d[Len(c) + 1] = w
  BY <1>4, OneMore DEF d
<1> DEFINE n == Len(a)
<1>6. n \in Nat  OBVIOUS
<1>7. Len(b) = n + 1 /\ Len(c) = n + 2 /\ Len(d) = n + 3 /\ Len(b) + 1 = n + 2 /\ Len(c) + 1 = n + 3
  BY <1>3, <1>4, <1>5, <1>6
<1> HIDE DEF n
<1>8. \A i \in 1..n : i \in 1..n + 1 /\ i \in 1..n + 2  BY <1>6
<1>9. n + 1 \in 1..n + 1 /\ n + 1 \in 1..n + 2 /\ n + 2 \in 1..n + 2  BY <1>6
<1>10. \A i \in 1..n : d[i] = a[i]  BY <1>3, <1>4, <1>5, <1>7, <1>8 DEF n
<1>11. d[n + 1] = u /\ d[n + 2] = v /\ d[n + 3] = w  BY <1>3, <1>4, <1>5, <1>7, <1>9 DEF n
<1> QED  BY <1>2, <1>5, <1>7, <1>10, <1>11 DEF n

LEMMA BegunTokens ==
  ASSUME NEW x \in Seq(Numbers), NEW k \in 0..Len(x)
  PROVE  /\ Begun(x, k) \in Seq(Tokens) /\ Len(Begun(x, k)) = Width(k)
         /\ \A i \in 1..Width(k) : Begun(x, k)[i] = Written(x, i)
<1>1. k \in Nat /\ Width(k) \in Nat  BY WidthOf
<1>2. \A i \in 1..Width(k) : Written(x, i) \in Tokens  BY WrittenTokens
<1> QED  BY <1>1, <1>2 DEF Begun

LEMMA OneFieldBegun ==
  ASSUME NEW x \in Seq(Numbers), NEW k \in 1..Len(x)
  PROVE  Begun(x, k) = (Begun(x, k - 1) \o (IF k = 1 THEN <<>> ELSE <<Char(","), Char(" ")>>))
                         \o <<Value(x[k])>>
<1> DEFINE a == Begun(x, k - 1)
           m == Width(k - 1)
           c == Begun(x, k)
           v == Value(x[k])
<1>1. k \in Nat /\ k - 1 \in Nat /\ k \in 0..Len(x) /\ k - 1 \in 0..Len(x) /\ Len(x) \in Nat  OBVIOUS
<1>2. m \in Nat /\ Width(k) \in Nat  BY <1>1, WidthOf
<1>3. x[k] \in Numbers  OBVIOUS
<1>4. v \in Tokens  BY <1>3, TokenKinds
<1>5. a \in Seq(Tokens) /\ Len(a) = m /\ \A i \in 1..m : a[i] = Written(x, i)
  BY <1>1, BegunTokens
<1>6. c \in Seq(Tokens) /\ Len(c) = Width(k) /\ \A i \in 1..Width(k) : c[i] = Written(x, i)
  BY <1>1, BegunTokens
<1> HIDE DEF m, v, a, c
<1>7. CASE k = 1
  <2>1. m = 1 /\ Width(k) = 2  BY <1>7, WidthOf DEF m
  <2>2. a \o <<>> = a  BY <1>5, ConcatEmptySeq
  <2> DEFINE t == a \o <<v>>
  <2>3. t \in Seq(Tokens) /\ Len(t) = Len(a) + 1 /\ (\A i \in 1..Len(a) : t[i] = a[i]) /\ t[Len(a) + 1] = v
    BY <1>4, <1>5, OneMore
  <2> HIDE DEF t
  <2>4. Written(x, 2) = v  BY <1>7 DEF Written, v
  <2>5. Len(a) = 1 /\ Len(t) = 2  BY <1>5, <2>1, <2>3
  <2>6. t[1] = a[1] /\ t[2] = v  BY <2>3, <2>5
  <2>7. c[1] = a[1] /\ c[2] = v
    <3>1. 1 \in 1..m /\ 1 \in 1..Width(k) /\ 2 \in 1..Width(k)  BY <2>1
    <3>2. c[1] = Written(x, 1) /\ a[1] = Written(x, 1) /\ c[2] = Written(x, 2)  BY <1>5, <1>6, <3>1
    <3> QED  BY <2>4, <3>2
  <2>8. \A i \in 1..Len(c) : i = 1 \/ i = 2  BY <1>6, <2>1
  <2>9. \A i \in 1..Len(c) : c[i] = t[i]  BY <2>6, <2>7, <2>8
  <2>10. c = t  BY <1>6, <2>1, <2>3, <2>5, <2>9, SeqEqual
  <2> QED  BY <1>7, <2>2, <2>10 DEF a, c, v, t
<1>8. CASE k # 1
  <2> DEFINE comma == Char(",")
             space == Char(" ")
             t == (a \o <<comma, space>>) \o <<v>>
  <2>1. m = 3 * (k - 1) - 1 /\ Width(k) = m + 3  BY <1>1, <1>8 DEF Width, m
  <2>2. comma \in Tokens /\ space \in Tokens  BY TokenKinds
  <2> HIDE DEF comma, space
  <2>3. /\ t \in Seq(Tokens) /\ Len(t) = Len(a) + 3 /\ \A i \in 1..Len(a) : t[i] = a[i]
        /\ t[Len(a) + 1] = comma /\ t[Len(a) + 2] = space /\ t[Len(a) + 3] = v
    BY <1>4, <1>5, <2>2, ThreeMore
  <2> HIDE DEF t
  <2>4. /\ Len(t) = m + 3 /\ \A i \in 1..m : t[i] = a[i]
        /\ t[m + 1] = comma /\ t[m + 2] = space /\ t[m + 3] = v
    BY <1>5, <2>3
  <2>5. Written(x, m + 1) = comma
    <3>1. m + 1 # 1 /\ (m + 1) % 3 = 0 /\ (m + 1) % 3 # 2  BY <1>1, <1>8, <2>1
    <3> QED  BY <3>1, Zenon DEF Written, comma, space
  <2>6. Written(x, m + 2) = space
    <3>1. m + 2 # 1 /\ (m + 2) % 3 # 0 /\ (m + 2) % 3 # 2  BY <1>1, <1>8, <2>1
    <3> QED  BY <3>1, Zenon DEF Written, comma, space
  <2>7. Written(x, m + 3) = v
    <3>1. m + 3 # 1 /\ (m + 3) % 3 = 2 /\ (m + 3 + 1) \div 3 = k  BY <1>1, <1>8, <2>1
    <3> QED  BY <3>1 DEF Written, v
  <2>8. \A i \in 1..m + 3 : c[i] = Written(x, i)  BY <1>6, <2>1
  <2>9. \A i \in 1..m + 3 : i \in 1..m \/ i = m + 1 \/ i = m + 2 \/ i = m + 3  BY <1>2
  <2>10. \A i \in 1..m + 3 : c[i] = t[i]  BY <1>5, <2>4, <2>5, <2>6, <2>7, <2>8, <2>9
  <2>11. c = t  BY <1>6, <2>1, <2>3, <2>4, <2>10, SeqEqual
  <2> QED  BY <1>8, <2>11 DEF a, c, v, t, comma, space
<1> QED  BY <1>7, <1>8

(* printed so far: what the recursion in Printed makes. *)
LEMMA FieldsArePrinted ==
  ASSUME NEW x \in Seq(Numbers)
  PROVE  Printed(x)[Len(x)] = Begun(x, Len(x))
<1> DEFINE n == Len(x)
           Comma(k) == IF k = 1 THEN <<>> ELSE <<Char(","), Char(" ")>>
           Next(f) == [k \in 0..n |->
             IF k = 0 THEN <<Char("{")>>
             ELSE (f[k - 1] \o Comma(k)) \o <<Value(Get(TieAsTuple(x), k - 1))>>]
           print == CHOOSE f : f = Next(f)
           found == [k \in 0..n |-> Begun(x, k)]
<1>1. n \in Nat  OBVIOUS
<1>2. Printed(x) = print  BY Zenon DEF Printed
<1>3. Begun(x, 0) = <<Char("{")>>
  <2> DEFINE a == Begun(x, 0)
             brace == Char("{")
             b == <<brace>>
  <2>1. Width(0) = 1 /\ 0 \in 0..Len(x)  BY WidthOf
  <2>2. a \in Seq(Tokens) /\ Len(a) = 1 /\ \A i \in 1..1 : a[i] = Written(x, i)
    BY <2>1, BegunTokens
  <2>3. brace \in Tokens  BY TokenKinds
  <2>4. Written(x, 1) = brace  BY DEF Written
  <2> HIDE DEF a, brace
  <2>5. b \in Seq(Tokens) /\ Len(b) = 1 /\ b[1] = brace  BY <2>3
  <2> HIDE DEF b
  <2>6. \A i \in 1..1 : i = 1  OBVIOUS
  <2>7. \A i \in 1..Len(a) : a[i] = b[i]  BY <2>2, <2>4, <2>5, <2>6
  <2>8. a = b  BY <2>2, <2>5, <2>7, SeqEqual
  <2> QED  BY <2>8 DEF a, b, brace
<1>4. ASSUME NEW k \in 1..n
      PROVE  Begun(x, k) = (Begun(x, k - 1) \o Comma(k)) \o <<Value(Get(TieAsTuple(x), k - 1))>>
  <2>1. k - 1 \in 0..Len(x) - 1 /\ k - 1 + 1 = k  BY <1>1
  <2>2. Get(TieAsTuple(x), k - 1) = x[k - 1 + 1]  BY <2>1, TiedAsTuple, GetIsTheValue
  <2> HIDE DEF Comma
  <2>3. Get(TieAsTuple(x), k - 1) = x[k]  BY <2>1, <2>2
  <2>4. Begun(x, k) = (Begun(x, k - 1) \o Comma(k)) \o <<Value(x[k])>>
    BY OneFieldBegun DEF Comma, n
  <2> QED  BY <2>3, <2>4
<1> HIDE DEF n, Comma
<1>5. found = Next(found)
  <2>1. ASSUME NEW k \in 0..n PROVE found[k] = Next(found)[k]
    <3>1. CASE k = 0  BY <1>3, <3>1
    <3>2. CASE k # 0
      <4>1. k \in 1..n /\ k - 1 \in 0..n  BY <1>1, <3>2
      <4>2. found[k - 1] = Begun(x, k - 1) /\ found[k] = Begun(x, k)  BY <4>1
      <4>3. Next(found)[k] = (found[k - 1] \o Comma(k)) \o <<Value(Get(TieAsTuple(x), k - 1))>>
        <5> HIDE DEF found
        <5> QED  BY <3>2
      <4> QED  BY <1>4, <4>1, <4>2, <4>3
    <3> QED  BY <3>1, <3>2
  <2>2. found = [k \in 0..n |-> found[k]] /\ Next(found) = [k \in 0..n |-> Next(found)[k]]  OBVIOUS
  <2> HIDE DEF found, Next
  <2> QED  BY <2>1, <2>2
<1>6. print = Next(print)
  <2> HIDE DEF Next, found
  <2> QED  BY <1>5
<1>7. \A k \in 0..n : print[k] = found[k]
  <2> HIDE DEF print, found
  <2>1. \A k \in 1..n : k \in 0..n /\ k # 0  BY <1>1
  <2>2. 0 \in 0..n  BY <1>1
  <2>3. \A f : f = Next(f) =>
          /\ f[0] = <<Char("{")>>
          /\ \A k \in 1..n : f[k] = (f[k - 1] \o Comma(k)) \o <<Value(Get(TieAsTuple(x), k - 1))>>
    BY <2>1, <2>2
  <2> HIDE DEF Next
  <2>4. print[0] = found[0]  BY <1>5, <1>6, <2>3, Zenon
  <2>5. \A k \in 1..n : print[k - 1] = found[k - 1] => print[k] = found[k]
    <3> TAKE k \in 1..n
    <3> HAVE print[k - 1] = found[k - 1]
    <3>1. print[k] = (print[k - 1] \o Comma(k)) \o <<Value(Get(TieAsTuple(x), k - 1))>>
      BY <1>6, <2>3, Zenon
    <3>2. found[k] = (found[k - 1] \o Comma(k)) \o <<Value(Get(TieAsTuple(x), k - 1))>>
      BY <1>5, <2>3, Zenon
    <3> QED  BY <3>1, <3>2
  <2> QED  BY <1>1, <2>4, <2>5, StepByStep
<1>8. n \in 0..n  BY <1>1
<1> HIDE DEF print
<1>9. print[n] = Begun(x, n)  BY <1>7, <1>8
<1> QED  BY <1>2, <1>9 DEF n

(* The whole struct ends with "}". *)
LEMMA OutPlaceByPlace ==
  ASSUME NEW x \in Seq(Numbers)
  PROVE  /\ Out(x) \in Seq(Tokens) /\ Len(Out(x)) = Width(Len(x)) + 1
         /\ \A i \in 1..Width(Len(x)) : Out(x)[i] = Written(x, i)
         /\ Out(x)[Width(Len(x)) + 1] = Char("}")
<1> DEFINE a == Begun(x, Len(x))
           brace == Char("}")
<1>1. Len(x) \in 0..Len(x)  OBVIOUS
<1>2. /\ a \in Seq(Tokens) /\ Len(a) = Width(Len(x))
      /\ \A i \in 1..Width(Len(x)) : a[i] = Written(x, i)
  BY <1>1, BegunTokens
<1>3. brace \in Tokens  BY TokenKinds
<1>4. Out(x) = a \o <<brace>>  BY FieldsArePrinted DEF Out
<1> HIDE DEF a, brace
<1> DEFINE t == a \o <<brace>>
<1>5. t \in Seq(Tokens) /\ Len(t) = Len(a) + 1 /\ (\A i \in 1..Len(a) : t[i] = a[i]) /\ t[Len(a) + 1] = brace
  BY <1>2, <1>3, OneMore
<1> HIDE DEF t
<1>6. Out(x) = t  BY <1>4 DEF t
<1> QED  BY <1>2, <1>5, <1>6 DEF brace

-----------------------------------------------------------------------------
(* Reading: what the stream must hold at each place, and the state of the    *)
(* stream after some fields.                                                 *)
States == [rest : Seq(Tokens), good : BOOLEAN, got : Seq(Numbers)]

Fits(sent, i) ==
  IF i = 1 THEN sent[i] = Char("{")
  ELSE IF i % 3 = 2 THEN sent[i][1] = "value"
  ELSE IF i % 3 = 0 THEN sent[i] = Char(",") ELSE sent[i] = Char(" ")
Fitting(sent, p) == \A i \in 1..p : Fits(sent, i)
Got(sent, k) == [j \in 1..k |-> sent[3 * j - 1][2]]

Reads(st, sent, p, k) ==
  /\ st \in States
  /\ st.good <=> Fitting(sent, p)
  /\ st.good => st.rest = SubSeq(sent, p + 1, Len(sent)) /\ st.got = Got(sent, k)

(* One character, and one value. *)
LEMMA SkipOne ==
  ASSUME NEW in \in States, NEW c
  PROVE  /\ Skip(in, c) \in States
         /\ c \in {"{", "}", ",", " "} =>
              (Skip(in, c).good <=> in.good /\ in.rest # <<>> /\ Head(in.rest) = Char(c))
         /\ Skip(in, c).good => in.good /\ Skip(in, c).rest = Tail(in.rest) /\ Skip(in, c).got = in.got
<1>1. in.rest \in Seq(Tokens) /\ in.good \in BOOLEAN /\ in.got \in Seq(Numbers)  BY DEF States
<1>2. CASE Took(in, "char")
  <2> DEFINE out == [rest |-> Tail(in.rest), good |-> Head(in.rest) = Char(c), got |-> in.got]
  <2>1. Skip(in, c) = out  BY <1>2 DEF Skip, States
  <2>2. in.rest # <<>> /\ in.good  BY <1>2 DEF Took
  <2>3. Tail(in.rest) \in Seq(Tokens)  BY <1>1, <2>2
  <2>4. (Head(in.rest) = Char(c)) \in BOOLEAN  OBVIOUS
  <2>5. out \in States  BY <1>1, <2>3, <2>4 DEF States
  <2>6. out.good <=> Head(in.rest) = Char(c)  BY Zenon
  <2>7. out.rest = Tail(in.rest) /\ out.got = in.got  OBVIOUS
  <2> HIDE DEF out
  <2> QED  BY <2>1, <2>2, <2>5, <2>6, <2>7, Zenon
<1>3. CASE ~Took(in, "char")
  <2> DEFINE out == [rest |-> in.rest, good |-> FALSE, got |-> in.got]
  <2>1. Skip(in, c) = out  BY <1>3 DEF Skip, States
  <2>2. out \in States  BY <1>1 DEF States
  <2>3. ~out.good  OBVIOUS
  <2>4. ASSUME c \in {"{", "}", ",", " "}, in.good, in.rest # <<>>, Head(in.rest) = Char(c) PROVE FALSE
    <3>1. Head(in.rest)[1] = "char"  BY <2>4, TokenKinds
    <3> QED  BY <1>3, <2>4, <3>1 DEF Took
  <2> HIDE DEF out
  <2> QED  BY <2>1, <2>2, <2>3, <2>4, Zenon
<1> QED  BY <1>2, <1>3

LEMMA TakeOne ==
  ASSUME NEW in \in States
  PROVE  /\ TakeValue(in) \in States
         /\ TakeValue(in).good <=> in.good /\ in.rest # <<>> /\ Head(in.rest)[1] = "value"
         /\ TakeValue(in).good =>
              in.good /\ TakeValue(in).rest = Tail(in.rest)
                      /\ TakeValue(in).got = Append(in.got, Head(in.rest)[2])
<1>1. in.rest \in Seq(Tokens) /\ in.good \in BOOLEAN /\ in.got \in Seq(Numbers)  BY DEF States
<1>2. CASE Took(in, "value")
  <2> DEFINE out == [rest |-> Tail(in.rest), good |-> in.good, got |-> Append(in.got, Head(in.rest)[2])]
  <2>1. TakeValue(in) = out  BY <1>2 DEF TakeValue, States
  <2>2. in.rest # <<>> /\ in.good /\ Head(in.rest)[1] = "value"  BY <1>2 DEF Took
  <2>3. Tail(in.rest) \in Seq(Tokens) /\ Head(in.rest) \in Tokens  BY <1>1, <2>2
  <2>4. Head(in.rest)[2] \in Numbers  BY <2>2, <2>3, TokenKinds
  <2> DEFINE v == Head(in.rest)[2]
  <2> HIDE DEF v
  <2>5. Append(in.got, v) \in Seq(Numbers)  BY <1>1, <2>4 DEF v
  <2>6. out \in States  BY <1>1, <2>3, <2>5 DEF States, v
  <2>7. out.good = in.good /\ out.rest = Tail(in.rest) /\ out.got = Append(in.got, Head(in.rest)[2])  OBVIOUS
  <2> HIDE DEF out
  <2> QED  BY <2>1, <2>2, <2>6, <2>7, Zenon
<1>3. CASE ~Took(in, "value")
  <2> DEFINE out == [rest |-> in.rest, good |-> FALSE, got |-> in.got]
  <2>1. TakeValue(in) = out  BY <1>3 DEF TakeValue, States
  <2>2. out \in States  BY <1>1 DEF States
  <2>3. ~out.good  OBVIOUS
  <2>4. ~(in.good /\ in.rest # <<>> /\ Head(in.rest)[1] = "value")  BY <1>3, Zenon DEF Took
  <2> HIDE DEF out
  <2> QED  BY <2>1, <2>2, <2>3, <2>4, Zenon
<1> QED  BY <1>2, <1>3

(* At a place of the stream that is not its end. *)
LEMMA RestOfStream ==
  ASSUME NEW sent \in Seq(Tokens), NEW p \in Nat, p < Len(sent)
  PROVE  /\ SubSeq(sent, p + 1, Len(sent)) # <<>>
         /\ Head(SubSeq(sent, p + 1, Len(sent))) = sent[p + 1]
         /\ Tail(SubSeq(sent, p + 1, Len(sent))) = SubSeq(sent, (p + 1) + 1, Len(sent))
<1> DEFINE m == p + 1
           n == Len(sent)
<1>1. n \in Nat /\ m \in 1..n /\ n \in m..n  OBVIOUS
<1> HIDE DEF m
<1>2. Head(SubSeq(sent, m, n)) = sent[m] /\ Tail(SubSeq(sent, m, n)) = SubSeq(sent, m + 1, n)
  BY <1>1, HeadTailOfSubSeq
<1>3. \A i \in m..n : sent[i] \in Tokens  BY <1>1
<1> HIDE DEF n
<1>4. m <= n /\ m \in Int /\ n \in Int /\ n - m + 1 # 0  BY <1>1
<1>5. Len(SubSeq(sent, m, n)) = n - m + 1
  <2>1. Len(SubSeq(sent, m, n)) = IF m <= n THEN n - m + 1 ELSE 0  BY <1>3, <1>4, SubSeqProperties
  <2> QED  BY <1>4, <2>1
<1>6. SubSeq(sent, m, n) # <<>>  BY <1>4, <1>5
<1> QED  BY <1>2, <1>6 DEF m, n

LEMMA FittingOneMore ==
  ASSUME NEW sent, NEW p \in Nat
  PROVE  Fitting(sent, p + 1) <=> Fitting(sent, p) /\ Fits(sent, p + 1)
<1>1. \A i \in 1..p + 1 : i \in 1..p \/ i = p + 1  OBVIOUS
<1>2. p + 1 \in 1..p + 1 /\ \A i \in 1..p : i \in 1..p + 1  OBVIOUS
<1> QED  BY <1>1, <1>2, Zenon DEF Fitting

LEMMA SkipAt ==
  ASSUME NEW sent \in Seq(Tokens), NEW p \in Nat, p < Len(sent), NEW k \in Nat,
         NEW st, Reads(st, sent, p, k), NEW c \in {"{", "}", ",", " "},
         Fits(sent, p + 1) <=> sent[p + 1] = Char(c)
  PROVE  Reads(Skip(st, c), sent, p + 1, k)
<1> DEFINE out == Skip(st, c)
<1>1. /\ out \in States
      /\ out.good <=> st.good /\ st.rest # <<>> /\ Head(st.rest) = Char(c)
      /\ out.good => st.good /\ out.rest = Tail(st.rest) /\ out.got = st.got
  BY SkipOne DEF Reads
<1> HIDE DEF out
<1>2. /\ st.good <=> Fitting(sent, p)
      /\ st.good => st.rest = SubSeq(sent, p + 1, Len(sent)) /\ st.got = Got(sent, k)
  BY Zenon DEF Reads
<1>3. st.good => st.rest # <<>> /\ Head(st.rest) = sent[p + 1]
                   /\ Tail(st.rest) = SubSeq(sent, (p + 1) + 1, Len(sent))
  BY <1>2, RestOfStream, Zenon
<1>4. out.good <=> Fitting(sent, p + 1)  BY <1>1, <1>2, <1>3, FittingOneMore, Zenon
<1>5. out.good => out.rest = SubSeq(sent, (p + 1) + 1, Len(sent)) /\ out.got = Got(sent, k)
  BY <1>1, <1>2, <1>3, Zenon
<1>6. Reads(out, sent, p + 1, k)  BY <1>1, <1>4, <1>5, Zenon DEF Reads
<1> QED  BY <1>6 DEF out

LEMMA GotOneMore ==
  ASSUME NEW sent, NEW k \in Nat \ {0}, Got(sent, k - 1) \in Seq(Numbers),
         sent[3 * k - 1][2] \in Numbers
  PROVE  Append(Got(sent, k - 1), sent[3 * k - 1][2]) = Got(sent, k)
<1> DEFINE m == k - 1
           At(j) == sent[3 * j - 1][2]
           a == Got(sent, m)
           b == Got(sent, k)
           t == Append(a, At(k))
<1>1. m \in Nat /\ k = m + 1  OBVIOUS
<1> HIDE DEF m, At
<1>2. a = [j \in 1..m |-> At(j)] /\ b = [j \in 1..k |-> At(j)]  BY DEF Got, At
<1> HIDE DEF a, b
<1>3. a \in Seq(Numbers) /\ Len(a) = m /\ \A j \in 1..m : a[j] = At(j)
  BY <1>1, <1>2 DEF a, m
<1>4. At(k) \in Numbers  BY DEF At
<1>5. /\ t \in Seq(Numbers) /\ Len(t) = Len(a) + 1
      /\ (\A i \in 1..Len(a) : t[i] = a[i]) /\ t[Len(a) + 1] = At(k)
  BY <1>3, <1>4, AppendProperties
<1> HIDE DEF t
<1>6. \A j \in 1..m : b[j] = At(j) /\ t[j] = At(j)  BY <1>1, <1>2, <1>3, <1>5
<1>7. b[k] = At(k) /\ t[k] = At(k)  BY <1>1, <1>2, <1>3, <1>5
<1>8. \A j \in 1..k : j \in 1..m \/ j = k  BY <1>1
<1>9. \A j \in 1..k : b[j] \in Numbers  BY <1>3, <1>4, <1>6, <1>7, <1>8
<1>10. b \in Seq(Numbers) /\ Len(b) = k  BY <1>1, <1>2, <1>9
<1>11. \A j \in 1..Len(t) : t[j] = b[j]  BY <1>1, <1>3, <1>5, <1>6, <1>7, <1>8
<1>12. t = b  BY <1>1, <1>3, <1>5, <1>10, <1>11, SeqEqual
<1> QED  BY <1>12 DEF t, a, b, m, At

LEMMA TakeAt ==
  ASSUME NEW sent \in Seq(Tokens), NEW k \in Nat \ {0}, 3 * k - 2 < Len(sent),
         NEW st, Reads(st, sent, 3 * k - 2, k - 1)
  PROVE  Reads(TakeValue(st), sent, 3 * k - 1, k)
<1> DEFINE out == TakeValue(st)
           p == 3 * k - 2
<1>1. p \in Nat /\ 3 * k - 1 = p + 1 /\ p < Len(sent) /\ p + 1 # 1 /\ (p + 1) % 3 = 2  OBVIOUS
<1>2. Fits(sent, p + 1) <=> sent[p + 1][1] = "value"
  <2> HIDE DEF p
  <2> QED  BY <1>1, Zenon DEF Fits
<1>3. p + 1 \in 1..Len(sent) /\ sent[p + 1] \in Tokens  BY <1>1
<1>4. Reads(st, sent, p, k - 1)  OBVIOUS
<1>5. 3 * k - 1 = p + 1  BY <1>1
<1> HIDE DEF p
<1>6. /\ out \in States
      /\ out.good <=> st.good /\ st.rest # <<>> /\ Head(st.rest)[1] = "value"
      /\ out.good => st.good /\ out.rest = Tail(st.rest) /\ out.got = Append(st.got, Head(st.rest)[2])
  BY <1>4, TakeOne DEF Reads
<1> HIDE DEF out
<1>7. /\ st \in States /\ (st.good <=> Fitting(sent, p))
      /\ st.good => st.rest = SubSeq(sent, p + 1, Len(sent)) /\ st.got = Got(sent, k - 1)
  BY <1>4, Zenon DEF Reads
<1>8. st.good => st.rest # <<>> /\ Head(st.rest) = sent[p + 1]
                   /\ Tail(st.rest) = SubSeq(sent, (p + 1) + 1, Len(sent))
  BY <1>1, <1>7, RestOfStream, Zenon
<1>9. out.good <=> Fitting(sent, p + 1)  BY <1>1, <1>2, <1>6, <1>7, <1>8, FittingOneMore, Zenon
<1>10. ASSUME out.good PROVE out.got = Got(sent, k)
  <2>1. sent[p + 1][1] = "value" /\ out.got = Append(st.got, sent[p + 1][2]) /\ st.got = Got(sent, k - 1)
    BY <1>6, <1>7, <1>8, <1>10, Zenon
  <2>2. sent[p + 1][2] \in Numbers  BY <1>3, <2>1, TokenKinds, Zenon
  <2>3. st.got \in Seq(Numbers)  BY <1>7 DEF States
  <2>4. Append(Got(sent, k - 1), sent[3 * k - 1][2]) = Got(sent, k)
    BY <1>5, <2>1, <2>2, <2>3, GotOneMore
  <2> QED  BY <1>5, <2>1, <2>4
<1>11. out.good => out.rest = SubSeq(sent, (p + 1) + 1, Len(sent))  BY <1>6, <1>8, Zenon
<1>12. Reads(out, sent, p + 1, k)  BY <1>6, <1>9, <1>10, <1>11, Zenon DEF Reads
<1> QED  BY <1>5, <1>12 DEF out

-----------------------------------------------------------------------------
(* A field, with what separates it from the last one. *)
OneField(k, st) == TakeValue(IF k = 1 THEN st ELSE Skip(Skip(st, ","), " "))

LEMMA OneFieldState ==
  ASSUME NEW st \in States, NEW k
  PROVE  OneField(k, st) \in States
<1>1. Skip(st, ",") \in States  BY SkipOne
<1>2. Skip(Skip(st, ","), " ") \in States  BY <1>1, SkipOne
<1>3. (IF k = 1 THEN st ELSE Skip(Skip(st, ","), " ")) \in States  BY <1>2
<1> QED  BY <1>3, TakeOne DEF OneField

LEMMA FieldRead ==
  ASSUME NEW sent \in Seq(Tokens), NEW k \in Nat \ {0}, Width(k) < Len(sent),
         NEW st, Reads(st, sent, Width(k - 1), k - 1)
  PROVE  Reads(OneField(k, st), sent, Width(k), k)
<1> DEFINE n == Len(sent)
<1>1. n \in Nat /\ Width(k) = 3 * k - 1 /\ 3 * k - 1 < n /\ 3 * k - 2 < n  BY DEF Width
<1>2. k - 1 \in Nat  OBVIOUS
<1>3. CASE k = 1
  <2>1. Width(k - 1) = 3 * k - 2  BY <1>3 DEF Width
  <2>2. Reads(st, sent, 3 * k - 2, k - 1)  BY <2>1
  <2>3. Reads(TakeValue(st), sent, 3 * k - 1, k)  BY <1>1, <2>2, TakeAt
  <2> QED  BY <1>1, <1>3, <2>3 DEF OneField
<1>4. CASE k # 1
  <2> DEFINE p == Width(k - 1)
             a == Skip(st, ",")
             b == Skip(a, " ")
  <2>1. p = 3 * (k - 1) - 1 /\ p \in Nat  BY <1>4 DEF Width
  <2>2. p < n /\ p + 1 \in Nat /\ p + 1 < n /\ p + 1 + 1 = 3 * k - 2  BY <1>1, <2>1
  <2>3. p + 1 # 1 /\ (p + 1) % 3 = 0 /\ (p + 1) % 3 # 2  BY <1>4, <2>1
  <2>4. p + 1 + 1 # 1 /\ (p + 1 + 1) % 3 # 0 /\ (p + 1 + 1) % 3 # 2
    <3>1. 3 * k - 2 # 1 /\ (3 * k - 2) % 3 = 1  BY <1>4
    <3> QED  BY <2>2, <3>1
  <2> HIDE DEF p, a, b, n
  <2>5. Fits(sent, p + 1) <=> sent[p + 1] = Char(",")  BY <2>3, Zenon DEF Fits
  <2>6. Fits(sent, p + 1 + 1) <=> sent[p + 1 + 1] = Char(" ")  BY <2>4, Zenon DEF Fits
  <2>7. Reads(a, sent, p + 1, k - 1)
    <3>1. Reads(st, sent, p, k - 1)  BY DEF p
    <3> QED  BY <1>2, <2>1, <2>2, <2>5, <3>1, SkipAt DEF a, n
  <2>8. Reads(b, sent, p + 1 + 1, k - 1)
    BY <1>2, <2>2, <2>6, <2>7, SkipAt DEF b, n
  <2>9. Reads(b, sent, 3 * k - 2, k - 1)  BY <2>2, <2>8
  <2>10. Reads(TakeValue(b), sent, 3 * k - 1, k)  BY <1>1, <2>9, TakeAt DEF n
  <2> QED  BY <1>1, <1>4, <2>10 DEF OneField, a, b
<1> QED  BY <1>3, <1>4

LEMMA BraceRead ==
  ASSUME NEW sent \in Seq(Tokens), 0 < Len(sent)
  PROVE  Reads(Skip([rest |-> sent, good |-> TRUE, got |-> <<>>], "{"), sent, 1, 0)
<1> DEFINE st == [rest |-> sent, good |-> TRUE, got |-> <<>>]
           n == Len(sent)
           t == SubSeq(sent, 1, n)
<1>1. st \in States  BY DEF States
<1>2. st.good = TRUE /\ st.rest = sent /\ st.got = <<>>  OBVIOUS
<1>3. Fitting(sent, 0)  BY DEF Fitting
<1>4. Got(sent, 0) = <<>>
  <2>1. \A j \in 1..0 : FALSE  OBVIOUS
  <2> QED  BY DEF Got
<1>5. sent = t
  <2>1. n \in Nat /\ n - 1 + 1 = n /\ 0 < n /\ 1 <= n /\ \A i \in 1..n : sent[i] \in Tokens /\ 1 + i - 1 = i  OBVIOUS
  <2>2. /\ t \in Seq(Tokens) /\ Len(t) = IF 1 <= n THEN n - 1 + 1 ELSE 0
        /\ \A i \in 1..n - 1 + 1 : t[i] = sent[1 + i - 1]
    <3>1. 1 \in Int /\ n \in Int  BY <2>1
    <3> HIDE DEF n
    <3> QED  BY <2>1, <3>1, SubSeqProperties
  <2> HIDE DEF t
  <2>3. Len(t) = n /\ \A i \in 1..n : t[i] = sent[i]
    <3> HIDE DEF n
    <3> QED  BY <2>1, <2>2
  <2> QED  BY <2>2, <2>3, SeqEqual
<1> HIDE DEF st, t
<1>6. SubSeq(sent, 0 + 1, Len(sent)) = sent  BY <1>5 DEF t
<1>7. Reads(st, sent, 0, 0)  BY <1>1, <1>2, <1>3, <1>4, <1>6, Zenon DEF Reads
<1>8. Fits(sent, 0 + 1) <=> sent[0 + 1] = Char("{")  BY DEF Fits
<1>9. Reads(Skip(st, "{"), sent, 0 + 1, 0)  BY <1>7, <1>8, SkipAt
<1>10. 0 + 1 = 1  OBVIOUS
<1> QED  BY <1>9, <1>10, Zenon DEF st

LEMMA FieldsRead ==
  ASSUME NEW sent \in Seq(Tokens), NEW n \in Nat, Width(n) < Len(sent)
  PROVE  Reads(ReadFrom(sent, n)[n], sent, Width(n), n)
<1> DEFINE base == Skip([rest |-> sent, good |-> TRUE, got |-> <<>>], "{")
           Next(f) == [k \in 0..n |->
             IF k = 0 THEN Skip([rest |-> sent, good |-> TRUE, got |-> <<>>], "{")
             ELSE TakeValue(IF k = 1 THEN f[0] ELSE Skip(Skip(f[k - 1], ","), " "))]
           read == CHOOSE f : f = Next(f)
           step == [k \in 1..n |-> [st \in States |-> OneField(k, st)]]
<1>1. ReadFrom(sent, n) = read  BY Zenon DEF ReadFrom
<1>2. 0 < Len(sent)  BY DEF Width
<1>3. Reads(base, sent, 1, 0)  BY <1>2, BraceRead
<1>4. base \in States  BY <1>3, Zenon DEF Reads
<1>5. step \in [1..n -> [States -> States]]  BY OneFieldState
<1>6. PICK f : Recursive(f, base, step, n, States)
  <2>1. Steps(step, n, States)  BY <1>5 DEF Steps
  <2> HIDE DEF step, base
  <2> QED  BY <1>4, <2>1, Recursion, Zenon
<1>7. ASSUME NEW g, NEW k \in 1..n
      PROVE  TakeValue(IF k = 1 THEN g[0] ELSE Skip(Skip(g[k - 1], ","), " ")) = OneField(k, g[k - 1])
  <2>1. CASE k = 1
    <3>1. k - 1 = 0  BY <2>1
    <3> QED  BY <2>1, <3>1 DEF OneField
  <2>2. CASE k # 1  BY <2>2 DEF OneField
  <2> QED  BY <2>1, <2>2
<1>8. f = Next(f)
  <2>1. ASSUME NEW k \in 1..n PROVE f[k] = OneField(k, f[k - 1])
    <3>1. k - 1 \in 0..n  OBVIOUS
    <3>2. f[k - 1] \in States  BY <1>6, <3>1 DEF Recursive
    <3>3. f[k] = step[k][f[k - 1]]  BY <1>6 DEF Recursive
    <3> QED  BY <3>2, <3>3
  <2>2. ASSUME NEW k \in 0..n PROVE f[k] = Next(f)[k]
    <3> HIDE DEF base
    <3>1. CASE k = 0
      <4>1. f[0] = base  BY <1>6 DEF Recursive
      <4> QED  BY <3>1, <4>1 DEF base
    <3>2. CASE k # 0
      <4>1. k \in 1..n  BY <3>2
      <4>2. Next(f)[k] = TakeValue(IF k = 1 THEN f[0] ELSE Skip(Skip(f[k - 1], ","), " "))
        BY <3>2
      <4> HIDE DEF Next
      <4> QED  BY <1>7, <2>1, <4>1, <4>2
    <3> QED  BY <3>1, <3>2
  <2>3. f = [k \in 0..n |-> f[k]]  BY <1>6 DEF Recursive
  <2>4. Next(f) = [k \in 0..n |-> Next(f)[k]]  OBVIOUS
  <2> HIDE DEF step, read, Next
  <2> QED  BY <2>2, <2>3, <2>4
<1>9. read = Next(read)
  <2> HIDE DEF Next
  <2> QED  BY <1>8
<1>10. read[0] = base /\ \A k \in 1..n : read[k] = OneField(k, read[k - 1])
  <2> HIDE DEF read, base
  <2>1. 0 \in 0..n /\ \A k \in 1..n : k \in 0..n /\ k # 0  OBVIOUS
  <2>2. read[0] = base  BY <1>9, <2>1 DEF base
  <2>3. ASSUME NEW k \in 1..n PROVE read[k] = OneField(k, read[k - 1])
    <3>1. read[k] = TakeValue(IF k = 1 THEN read[0] ELSE Skip(Skip(read[k - 1], ","), " "))
      BY <1>9, <2>1
    <3> HIDE DEF Next
    <3> QED  BY <1>7, <3>1
  <2> QED  BY <2>2, <2>3
<1> HIDE DEF read, base, Next
<1> DEFINE T == {k \in Nat : k <= n => Reads(read[k], sent, Width(k), k)}
<1>11. 0 \in T
  <2>1. Width(0) = 1  BY DEF Width
  <2> QED  BY <1>3, <1>10, <2>1
<1>12. ASSUME NEW k \in Nat, k \in T PROVE k + 1 \in T
  <2> SUFFICES ASSUME k + 1 <= n PROVE Reads(read[k + 1], sent, Width(k + 1), k + 1)  OBVIOUS
  <2> DEFINE j == k + 1
  <2>1. j \in 1..n /\ j \in Nat \ {0} /\ k = j - 1 /\ k <= n  OBVIOUS
  <2>2. Width(j) < Len(sent)
    <3>1. Width(j) <= Width(n)  BY <2>1 DEF Width
    <3>2. Width(j) \in Nat /\ Width(n) \in Nat /\ Len(sent) \in Nat
      <4>1. j \in Nat  BY <2>1
      <4> HIDE DEF j
      <4>2. Width(j) \in Nat /\ Width(n) \in Nat  BY <4>1, WidthOf
      <4> QED  BY <4>2
    <3> QED  BY <3>1, <3>2
  <2> HIDE DEF j
  <2>3. Reads(read[j - 1], sent, Width(j - 1), j - 1)  BY <1>12, <2>1
  <2>4. Reads(OneField(j, read[j - 1]), sent, Width(j), j)  BY <2>1, <2>2, <2>3, FieldRead
  <2>5. Reads(read[j], sent, Width(j), j)  BY <1>10, <2>1, <2>4
  <2> QED  BY <2>5 DEF j
<1>13. T \in SUBSET Nat  OBVIOUS
<1> HIDE DEF T
<1>14. n \in T  BY <1>11, <1>12, <1>13, EveryNumber
<1> QED  BY <1>1, <1>14 DEF T

(* Where the values are. *)
LEMMA ValuePlaces ==
  ASSUME NEW n \in Nat
  PROVE  /\ \A j \in 1..n : 3 * j - 1 \in 1..Width(n) /\ 3 * j - 1 # 1 /\ (3 * j - 1) % 3 = 2
         /\ \A i \in 1..Width(n) : i # 1 /\ i % 3 = 2 =>
              (i + 1) \div 3 \in 1..n /\ 3 * ((i + 1) \div 3) - 1 = i
<1>1. ASSUME NEW j \in 1..n
      PROVE  3 * j - 1 \in 1..Width(n) /\ 3 * j - 1 # 1 /\ (3 * j - 1) % 3 = 2
  <2>1. Width(n) = 3 * n - 1  BY DEF Width
  <2> QED  BY <2>1
<1>2. ASSUME NEW i \in 1..Width(n), i # 1, i % 3 = 2
      PROVE  (i + 1) \div 3 \in 1..n /\ 3 * ((i + 1) \div 3) - 1 = i
  <2>1. n # 0 /\ Width(n) = 3 * n - 1  BY <1>2 DEF Width
  <2>2. i \in Nat /\ i <= 3 * n - 1 /\ i >= 2  BY <1>2, <2>1
  <2>3. PICK j \in Nat : i = 3 * j + 2
    <3>1. i = 3 * (i \div 3) + 2 /\ i \div 3 \in Nat  BY <1>2, <2>2
    <3> QED  BY <3>1
  <2>4. (i + 1) \div 3 = j + 1  BY <2>3
  <2> QED  BY <2>1, <2>2, <2>3, <2>4
<1> QED  BY <1>1, <1>2

LEMMA OneLonger ==
  ASSUME NEW w \in Nat
  PROVE  \A i \in 1..w + 1 : i \in 1..w \/ i = w + 1
OBVIOUS

LEMMA SequenceOf ==
  ASSUME NEW S, NEW n \in Nat, NEW x, x = [j \in 1..n |-> x[j]], \A j \in 1..n : x[j] \in S
  PROVE  x \in Seq(S) /\ Len(x) = n
<1>1. x \in [1..n -> S]
  <2> DEFINE D == 1..n
  <2> HIDE DEF D
  <2>1. x = [j \in D |-> x[j]] /\ \A j \in D : x[j] \in S  BY DEF D
  <2>2. x \in [D -> S]  BY <2>1, Zenon
  <2> QED  BY <2>2 DEF D
<1> QED  BY <1>1

LEMMA PlacesOf ==
  ASSUME NEW S, NEW s \in Seq(S), NEW w \in Nat, Len(s) = w + 1
  PROVE  \A i \in 1..w : s[i] \in S
OBVIOUS

(* A stream that fits all the way is the struct whose values it carries. *)
LEMMA StructOfStream ==
  ASSUME NEW sent \in Seq(Tokens), NEW n \in Nat, Len(sent) = Width(n) + 1,
         Fitting(sent, Width(n)), sent[Width(n) + 1] = Char("}")
  PROVE  /\ Got(sent, n) \in Seq(Numbers) /\ Len(Got(sent, n)) = n
         /\ Out(Got(sent, n)) = sent
<1> DEFINE x == Got(sent, n)
           w == Width(n)
           At(j) == sent[3 * j - 1][2]
<1>1. w \in Nat /\ \A i \in 1..w : sent[i] \in Tokens
  <2>1. w \in Nat  BY WidthOf
  <2> HIDE DEF w
  <2> QED  BY <2>1, PlacesOf DEF w
<1>2. ASSUME NEW j \in 1..n PROVE At(j) \in Numbers
  <2> DEFINE i == 3 * j - 1
  <2>1. i \in 1..w /\ i # 1 /\ i % 3 = 2  BY ValuePlaces
  <2> HIDE DEF i, w
  <2>2. Fits(sent, i)  BY <2>1 DEF Fitting, w
  <2>3. sent[i][1] = "value"  BY <2>1, <2>2, Zenon DEF Fits
  <2>4. sent[i] \in Tokens  BY <1>1, <2>1
  <2> QED  BY <2>3, <2>4, TokenKinds DEF i
<1>3. x \in Seq(Numbers) /\ Len(x) = n /\ \A j \in 1..n : x[j] = At(j)
  <2> HIDE DEF At
  <2>1. x = [j \in 1..n |-> At(j)]  BY DEF Got, At
  <2> HIDE DEF x
  <2>2. \A j \in 1..n : x[j] = At(j)  BY <2>1
  <2>3. \A j \in 1..n : x[j] \in Numbers  BY <1>2, <2>2
  <2>4. x = [j \in 1..n |-> x[j]]  BY <2>1
  <2> QED  BY <2>2, <2>3, <2>4, SequenceOf
<1>4. /\ Out(x) \in Seq(Tokens) /\ Len(Out(x)) = Width(Len(x)) + 1
      /\ \A i \in 1..Width(Len(x)) : Out(x)[i] = Written(x, i)
      /\ Out(x)[Width(Len(x)) + 1] = Char("}")
  BY <1>3, OutPlaceByPlace
<1>5. /\ Len(Out(x)) = w + 1 /\ (\A i \in 1..w : Out(x)[i] = Written(x, i))
      /\ Out(x)[w + 1] = Char("}")
  BY <1>3, <1>4
<1>6. ASSUME NEW i \in 1..w PROVE Written(x, i) = sent[i]
  <2>1. Fits(sent, i)  BY DEF Fitting
  <2>2. CASE i # 1 /\ i % 3 = 2
    <3> DEFINE j == (i + 1) \div 3
    <3>1. j \in 1..n /\ 3 * j - 1 = i  BY <2>2, ValuePlaces
    <3> HIDE DEF j
    <3>2. x[j] = sent[i][2]  BY <1>3, <3>1
    <3>3. sent[i][1] = "value"  BY <2>1, <2>2, Zenon DEF Fits
    <3>4. sent[i] \in Tokens  BY <1>1
    <3>5. sent[i] = Value(sent[i][2])  BY <3>3, <3>4, TokenKinds
    <3>6. Written(x, i) = Value(x[j])  BY <2>2, Zenon DEF Written, j
    <3> QED  BY <3>2, <3>5, <3>6
  <2>3. CASE ~(i # 1 /\ i % 3 = 2)  BY <2>1, <2>3, Zenon DEF Fits, Written
  <2> QED  BY <2>2, <2>3
<1> HIDE DEF w
<1>7. Len(sent) = w + 1 /\ sent[w + 1] = Char("}")  BY DEF w
<1>8. \A i \in 1..w + 1 : i \in 1..w \/ i = w + 1  BY <1>1, OneLonger
<1>9. \A i \in 1..w + 1 : Out(x)[i] = sent[i]  BY <1>5, <1>6, <1>7, <1>8
<1>10. Out(x) = sent  BY <1>4, <1>5, <1>7, <1>9, SeqEqual
<1> QED  BY <1>3, <1>10 DEF x

(* And a struct that was written fits. *)
LEMMA StructFits ==
  ASSUME NEW x \in Seq(Numbers)
  PROVE  Fitting(Out(x), Width(Len(x)))
<1> DEFINE w == Width(Len(x))
<1>1. \A i \in 1..w : Out(x)[i] = Written(x, i)  BY OutPlaceByPlace
<1>2. \A v : Value(v)[1] = "value"  BY TokenKinds
<1>3. ASSUME NEW i \in 1..w PROVE Fits(Out(x), i)
  <2>1. Out(x)[i] = Written(x, i)  BY <1>1
  <2> QED  BY <1>2, <2>1, Zenon DEF Fits, Written
<1> QED  BY <1>3 DEF Fitting

(* So a stream is read if and only if it is that of a struct, which is then  *)
(* given back.                                                               *)
LEMMA StreamedBack ==
  ASSUME NEW x \in Structs, NEW sent \in Seq(Tokens), Len(sent) = Len(Out(x))
  PROVE  /\ In(sent, Len(x)).good <=> \E y \in Structs : Len(y) = Len(x) /\ Out(y) = sent
         /\ In(sent, Len(x)).good => Out(In(sent, Len(x)).got) = sent
<1> DEFINE n == Len(x)
           st == ReadFrom(sent, n)[n]
           in == Skip(st, "}")
<1>1. \A y \in Structs : y \in Seq(Numbers) /\ Len(y) <= MaxFields  BY FieldsAssumption DEF Structs
<1>2. n \in Nat /\ n <= MaxFields /\ Len(Out(x)) = Width(n) + 1
  <2>1. x \in Seq(Numbers) /\ n <= MaxFields  BY <1>1
  <2>2. Len(Out(x)) = Width(n) + 1  BY <2>1, OutPlaceByPlace, Zenon
  <2>3. n \in Nat  BY <2>1
  <2> QED  BY <2>1, <2>2, <2>3
<1>3. Len(sent) = Width(n) + 1 /\ Width(n) \in Nat /\ Width(n) < Len(sent)
  <2>1. Width(n) \in Nat  BY <1>2, WidthOf
  <2>2. Len(sent) = Width(n) + 1  BY <1>2
  <2> QED  BY <2>1, <2>2
<1>4. In(sent, n) = in  BY DEF In
<1>5. Reads(st, sent, Width(n), n)  BY <1>2, <1>3, FieldsRead
<1> HIDE DEF st, n
<1>6. /\ st \in States /\ (st.good <=> Fitting(sent, Width(n)))
      /\ st.good => st.rest = SubSeq(sent, Width(n) + 1, Len(sent)) /\ st.got = Got(sent, n)
  BY <1>5, Zenon DEF Reads
<1>7. /\ in.good <=> st.good /\ st.rest # <<>> /\ Head(st.rest) = Char("}")
      /\ in.good => in.got = st.got
  BY <1>6, SkipOne
<1>8. st.good => st.rest # <<>> /\ Head(st.rest) = sent[Width(n) + 1]
  BY <1>3, <1>6, RestOfStream, Zenon
<1> HIDE DEF in
<1>9. in.good <=> Fitting(sent, Width(n)) /\ sent[Width(n) + 1] = Char("}")
  BY <1>6, <1>7, <1>8, Zenon
<1>10. ASSUME in.good
       PROVE  /\ in.got \in Structs /\ Len(in.got) = n /\ Out(in.got) = sent
  <2>1. Got(sent, n) \in Seq(Numbers) /\ Len(Got(sent, n)) = n /\ Out(Got(sent, n)) = sent
    BY <1>2, <1>3, <1>9, <1>10, StructOfStream
  <2>2. in.got = Got(sent, n)  BY <1>6, <1>7, <1>10, Zenon
  <2>3. Got(sent, n) \in [1..n -> Numbers]  BY <2>1
  <2>4. n \in 0..MaxFields  BY <1>2, FieldsAssumption
  <2>5. Got(sent, n) \in Structs  BY <2>3, <2>4, Zenon DEF Structs
  <2> QED  BY <2>1, <2>2, <2>5
<1>11. ASSUME NEW y \in Structs, Len(y) = n, Out(y) = sent PROVE in.good
  <2>1. y \in Seq(Numbers)  BY <1>1
  <2>2. Fitting(Out(y), Width(Len(y))) /\ Out(y)[Width(Len(y)) + 1] = Char("}")
    BY <2>1, StructFits, OutPlaceByPlace
  <2> QED  BY <1>9, <1>11, <2>2
<1> QED  BY <1>4, <1>10, <1>11, Zenon DEF n

-----------------------------------------------------------------------------
(* The questions. *)
LEMMA BytesAreCounted ==
  ASSUME NEW n \in Nat, NEW least \in 0..n
  PROVE  FieldsCount(StructSize([i \in 1..n |-> 1], [i \in 1..n |-> 1]), least..n) = n
<1> DEFINE ones == [i \in 1..n |-> 1]
           size == StructSize(ones, ones)
<1>1. ones \in Seq(Widths) /\ Len(ones) = n /\ \A i \in 1..n : ones[i] = 1  BY DEF Widths
<1> HIDE DEF ones
<1>2. size \in Nat  BY <1>1, StructSizeIsANumber
<1>3. CASE least = 0
  <2> HIDE DEF size
  <2>1. least \in Nat /\ least <= n  OBVIOUS
  <2> QED  BY <1>2, <1>3, <2>1, FieldsAreCounted DEF size, ones
<1>4. CASE least # 0
  <2>1. n # 0 /\ least \in Nat /\ least <= n /\ 1 \in 1..n  BY <1>4
  <2>2. ones # <<>>  BY <1>1, <2>1
  <2>3. EvenlySized(ones)  BY <1>1, <2>1, <2>2 DEF EvenlySized
  <2>4. size = Len(ones) * ones[1]  BY <1>1, <2>3, EvenlySizedStruct
  <2>5. size = n  BY <1>1, <2>1, <2>4
  <2>6. n <= n * 8  OBVIOUS
  <2>7. FieldsCount(n, least..n) = n  BY <2>1, <2>6, FieldsAreCounted
  <2> QED  BY <2>5, <2>7 DEF size, ones
<1> QED  BY <1>3, <1>4

LEMMA TiedAndVisited ==
  ASSUME NEW n \in Nat
  PROVE  ForEachField([i \in 1..n |-> i]) = [i \in 1..n |-> i]
<1>1. [i \in 1..n |-> i] \in Seq(Nat)  OBVIOUS
<1> QED  BY <1>1, EveryFieldIsVisited

LEMMA Compared ==
  ASSUME NEW op \in Operators, NEW x \in Structs, NEW y \in Structs
  PROVE  BinaryVisit(op, x, y) = Documented(op, x, y)
<1>1. x \in Seq(Int) /\ y \in Seq(Int)  BY FieldsAssumption, NumbersAssumption DEF Structs
<1> QED  BY <1>1, ComparedAsDocumented

(* The reflection of structs does what it promises, for structs of every     *)
(* length and fields of every value: whatever is asked of fields_count,      *)
(* structure_tie, for_each_field, the six comparisons and io_fields.         *)
THEOREM ReflectionAlwaysAgrees == ReflectionSpec => []ReflectionAgrees
<1>1. ReflectionInit => ReflectionAgrees  BY DEF ReflectionInit, ReflectionAgrees, Asks
<1>2. ReflectionAgrees /\ [ReflectionNext]_reflectionVars => ReflectionAgrees'
  <2> SUFFICES ASSUME ReflectionAgrees, [ReflectionNext]_reflectionVars PROVE ReflectionAgrees'
    OBVIOUS
  <2>1. ASSUME NEW n \in 0..MaxTied, Tie(n) PROVE ReflectionAgrees'
    <3>1. question' = [of |-> "tie", n |-> n] /\ answer' = [i \in 1..n |-> i]
      <4>1. n \in Nat  BY FieldsAssumption
      <4> QED  BY <2>1, <4>1, TiedAndVisited DEF Tie, Asked
    <3>2. question'.of = "tie" /\ question'.n = n  BY <3>1
    <3> QED  BY <3>1, <3>2, Zenon DEF ReflectionAgrees
  <2>2. ASSUME NEW n \in 0..MaxCounted, NEW least \in 0..n, CountFields(n, least)
        PROVE  ReflectionAgrees'
    <3>1. question' = [of |-> "count", n |-> n] /\ answer' = n
      <4>1. n \in Nat  BY FieldsAssumption
      <4> QED  BY <2>2, <4>1, BytesAreCounted DEF CountFields, Asked
    <3>2. question'.of = "count" /\ question'.n = n  BY <3>1
    <3> QED  BY <3>1, <3>2, Zenon DEF ReflectionAgrees
  <2>3. ASSUME NEW op \in Operators, NEW x \in Structs, NEW y \in Structs, Compare(op, x, y)
        PROVE  ReflectionAgrees'
    <3>1. /\ question' = [of |-> "compare", op |-> op, x |-> x, y |-> y]
          /\ answer' = Documented(op, x, y)
      BY <2>3, Compared, Zenon DEF Compare, Asked
    <3>2. question'.of = "compare" /\ question'.op = op /\ question'.x = x /\ question'.y = y
      BY <3>1
    <3> QED  BY <3>1, <3>2, Zenon DEF ReflectionAgrees
  <2>4. ASSUME NEW x \in Structs, NEW place \in 0..Len(Out(x)), NEW token \in Tokens,
               Stream(x, place, token)
        PROVE  ReflectionAgrees'
    <3> DEFINE sent == IF place = 0 THEN Out(x) ELSE [Out(x) EXCEPT ![place] = token]
    <3>1. question' = [of |-> "stream", x |-> x, sent |-> sent] /\ answer' = In(sent, Len(x))
      BY <2>4 DEF Stream, Asked
    <3>2. x \in Seq(Numbers)  BY FieldsAssumption DEF Structs
    <3>3. Out(x) \in Seq(Tokens)  BY <3>2, OutPlaceByPlace
    <3>4. sent \in Seq(Tokens) /\ Len(sent) = Len(Out(x))  BY <3>3
    <3> HIDE DEF sent
    <3>5. /\ In(sent, Len(x)).good <=> \E y \in Structs : Len(y) = Len(x) /\ Out(y) = sent
          /\ In(sent, Len(x)).good => Out(In(sent, Len(x)).got) = sent
      BY <3>4, StreamedBack
    <3>6. question'.of = "stream" /\ question'.x = x /\ question'.sent = sent  BY <3>1
    <3>7. /\ answer'.good <=>
               \E y \in Structs : Len(y) = Len(question'.x) /\ Out(y) = question'.sent
          /\ answer'.good => Out(answer'.got) = question'.sent
      BY <3>1, <3>5, <3>6, Zenon
    <3> QED  BY <3>6, <3>7, Zenon DEF ReflectionAgrees
  <2>5. CASE AskAgain  BY <2>5 DEF AskAgain, ReflectionAgrees, Asks
  <2>6. CASE UNCHANGED reflectionVars  BY <2>6 DEF reflectionVars, ReflectionAgrees
  <2> QED  BY <2>1, <2>2, <2>3, <2>4, <2>5, <2>6, Zenon DEF ReflectionNext, Question
<1> QED  BY <1>1, <1>2, PTL DEF ReflectionSpec
=============================================================================
