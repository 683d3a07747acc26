---------------------------- MODULE FilterProofs -----------------------------
(***************************************************************************)
(* What Keeping computes, for every sequence.  The induction over its      *)
(* length takes the least number at which the claim would fail.            *)
(***************************************************************************)
EXTENDS Filters, SequencesExt, WellFoundedInduction, TLAPS

(* A set of numbers that is not empty has a least element. *)
LEMMA LeastNat ==
  ASSUME NEW T, T \subseteq Nat, T # {}
  PROVE  \E x \in T : \A y \in T : x <= y
<1> DEFINE R == {ss \in Nat \X Nat : ss[1] < ss[2]}
<1>1. IsWellFoundedOn(R, Nat)
  BY NatLessThanWellFounded, Zenon DEF OpToRel
<1> HIDE DEF R
<1>2. \E x \in T : \A y \in T : ~(<<y, x>> \in R)
  BY <1>1, WFMin, Zenon
<1>3. \A x, y \in Nat : y < x => <<y, x>> \in R
  BY DEF R
<1>4. PICK x \in T : \A y \in T : ~(<<y, x>> \in R)
  BY <1>2
<1>5. \A y \in T : ~(y < x)
  BY <1>3, <1>4, Zenon
<1> QED
  BY <1>5

(* It is the minimum. *)
LEMMA MinOfNats ==
  ASSUME NEW T, T \subseteq Nat, T # {}
  PROVE  Min(T) \in T /\ \A n \in T : Min(T) <= n
  BY LeastNat DEF Min

(* The smaller of two numbers. *)
LEMMA MinOfTwo ==
  ASSUME NEW a \in Nat, NEW b \in Nat
  PROVE  Min({a, b}) \in Nat /\ Min({a, b}) <= a /\ Min({a, b}) <= b
<1>1. {a, b} \subseteq Nat /\ {a, b} # {}
  OBVIOUS
<1> QED
  BY <1>1, MinOfNats

(* Induction from 0 to n, for the set of numbers that have the property. *)
LEMMA UpTo ==
  ASSUME NEW n \in Nat, NEW G, 0 \in G, \A i \in 0..(n - 1) : i \in G => i + 1 \in G
  PROVE  0..n \subseteq G
<1> SUFFICES ASSUME ~(0..n \subseteq G) PROVE FALSE
  OBVIOUS
<1> DEFINE T == (0..n) \ G
<1>1. T \subseteq Nat /\ T # {}
  OBVIOUS
<1>2. PICK x \in T : \A y \in T : x <= y
  BY <1>1, LeastNat
<1>3. x # 0 /\ x \in 1..n
  OBVIOUS
<1>4. x - 1 \in G
  BY <1>2, <1>3
<1>5. (x - 1) + 1 \in G
  BY <1>3, <1>4
<1> QED
  BY <1>3, <1>5

(* The function that Keeping defines on the prefixes of s up to n. *)
KeptStep(f, s, S, i) ==
  IF i = 0 THEN <<>> ELSE IF s[i] \in S THEN Append(f[i - 1], s[i]) ELSE f[i - 1]
KeptBy(f, s, S, n) == f = [i \in 0..n |-> KeptStep(f, s, S, i)]

(* The recursion has a solution for every prefix. *)
LEMMA KeptExists ==
  ASSUME NEW D, NEW s \in Seq(D), NEW S
  PROVE  \E f : KeptBy(f, s, S, Len(s))
<1> DEFINE G == {n \in Nat : \E f : KeptBy(f, s, S, n)}
<1>1. 0 \in G
  <2>1. KeptBy([i \in 0..0 |-> <<>>], s, S, 0)
    BY DEF KeptBy, KeptStep
  <2> QED
    BY <2>1
<1>2. ASSUME NEW n \in 0..(Len(s) - 1), n \in G PROVE n + 1 \in G
  <2>1. PICK f : KeptBy(f, s, S, n)
    BY <1>2
  <2> DEFINE g == [i \in 0..(n + 1) |-> IF i = n + 1 THEN KeptStep(f, s, S, i) ELSE f[i]]
  <2>2. \A i \in 0..n : f[i] = KeptStep(f, s, S, i)
    BY <2>1, Zenon DEF KeptBy
  <2>3. ASSUME NEW i \in 0..(n + 1) PROVE g[i] = KeptStep(g, s, S, i)
    <3>1. i # 0 => i - 1 \in 0..n /\ g[i - 1] = f[i - 1]
      OBVIOUS
    <3>2. g[i] = KeptStep(f, s, S, i)
      BY <2>2
    <3> HIDE DEF g
    <3> QED
      BY <3>1, <3>2 DEF KeptStep
  <2>4. KeptBy(g, s, S, n + 1)
    <3>1. g = [i \in 0..(n + 1) |-> g[i]]
      OBVIOUS
    <3> HIDE DEF g
    <3> QED
      BY <2>3, <3>1, Zenon DEF KeptBy
  <2>5. n + 1 \in Nat
    OBVIOUS
  <2> QED
    BY <2>4, <2>5
<1>3. Len(s) \in Nat
  OBVIOUS
<1>4. \A n \in 0..(Len(s) - 1) : n \in G => n + 1 \in G
  BY <1>2
<1> HIDE DEF G
<1>5. 0..Len(s) \subseteq G
  BY <1>1, <1>3, <1>4, UpTo
<1>6. Len(s) \in G
  BY <1>3, <1>5
<1> QED
  BY <1>6 DEF G

(* Keeping takes the solution's last value. *)
LEMMA KeepingBy ==
  ASSUME NEW D, NEW s \in Seq(D), NEW S
  PROVE  \E f : /\ \A i \in 0..Len(s) : f[i] = KeptStep(f, s, S, i)
                /\ Keeping(s, S) = f[Len(s)]
<1> DEFINE kept == CHOOSE f : KeptBy(f, s, S, Len(s))
<1>1. KeptBy(kept, s, S, Len(s))
  BY KeptExists, Zenon
<1>2. Keeping(s, S) = kept[Len(s)]
  BY Zenon DEF Keeping, KeptBy, KeptStep
<1> HIDE DEF kept
<1>3. \A i \in 0..Len(s) : kept[i] = KeptStep(kept, s, S, i)
  BY <1>1, Zenon DEF KeptBy
<1> QED
  BY <1>2, <1>3

(* Elements of a sequence after one more is appended. *)
LEMMA AppendElements ==
  ASSUME NEW D, NEW t \in Seq(D), NEW x \in D
  PROVE  /\ Append(t, x) \in Seq(D) /\ Len(Append(t, x)) = Len(t) + 1
         /\ \A k \in 1..Len(t) : Append(t, x)[k] = t[k]
         /\ Append(t, x)[Len(t) + 1] = x
  OBVIOUS

(* t is what the first n elements of s leave: exactly those in S, no more  *)
(* of them than s has, and none twice that s has once.                     *)
KeptOf(t, D, s, S, n) ==
  /\ t \in Seq(D) /\ Len(t) <= n
  /\ \A k \in 1..Len(t) : t[k] \in S /\ \E j \in 1..n : t[k] = s[j]
  /\ \A j \in 1..n : s[j] \in S => \E k \in 1..Len(t) : t[k] = s[j]
  /\ (\A i, j \in 1..Len(s) : s[i] = s[j] => i = j) =>
       \A k, l \in 1..Len(t) : t[k] = t[l] => k = l

(* One more element of s that is in S is appended, ... *)
LEMMA KeptOfAppend ==
  ASSUME NEW D, NEW s \in Seq(D), NEW S, NEW i \in Nat, i + 1 \in 1..Len(s),
         NEW t, KeptOf(t, D, s, S, i), s[i + 1] \in S
  PROVE  KeptOf(Append(t, s[i + 1]), D, s, S, i + 1)
<1> DEFINE x == s[i + 1]
           u == Append(t, x)
<1>1. t \in Seq(D) /\ x \in D /\ Len(t) \in Nat /\ Len(t) <= i
  BY DEF KeptOf
<1>2. /\ u \in Seq(D) /\ Len(u) = Len(t) + 1
      /\ \A k \in 1..Len(t) : u[k] = t[k]
      /\ u[Len(t) + 1] = x
  <2> HIDE DEF x
  <2> QED
    BY <1>1, AppendElements
<1> HIDE DEF u
<1>3. \A k \in 1..Len(u) : k \in 1..Len(t) \/ k = Len(t) + 1
  BY <1>1, <1>2
<1>4. \A j \in 1..(i + 1) : j \in 1..i \/ j = i + 1
  OBVIOUS
<1>5. \A j \in 1..i : j \in 1..(i + 1) /\ j \in 1..Len(s) /\ j # i + 1
  OBVIOUS
<1>6. \A k \in 1..Len(u) : u[k] \in S /\ \E j \in 1..(i + 1) : u[k] = s[j]
  <2> SUFFICES ASSUME NEW k \in 1..Len(u)
               PROVE  u[k] \in S /\ \E j \in 1..(i + 1) : u[k] = s[j]
    OBVIOUS
  <2>1. CASE k \in 1..Len(t)
    <3>1. u[k] = t[k] /\ t[k] \in S /\ \E j \in 1..i : t[k] = s[j]
      BY <1>2, <2>1, Zenon DEF KeptOf
    <3> QED
      BY <1>5, <3>1, Zenon
  <2>2. CASE k = Len(t) + 1
    <3>1. i + 1 \in 1..(i + 1)
      OBVIOUS
    <3> QED
      BY <1>2, <2>2, <3>1
  <2> QED
    BY <1>3, <2>1, <2>2
<1>7. \A j \in 1..(i + 1) : s[j] \in S => \E k \in 1..Len(u) : u[k] = s[j]
  <2> SUFFICES ASSUME NEW j \in 1..(i + 1), s[j] \in S PROVE \E k \in 1..Len(u) : u[k] = s[j]
    OBVIOUS
  <2>1. CASE j \in 1..i
    <3>1. PICK k \in 1..Len(t) : t[k] = s[j]
      BY <2>1 DEF KeptOf
    <3>2. k \in 1..Len(u) /\ u[k] = t[k]
      BY <1>1, <1>2
    <3> QED
      BY <3>1, <3>2
  <2>2. CASE j = i + 1
    <3>1. Len(t) + 1 \in 1..Len(u)
      BY <1>1, <1>2
    <3> QED
      BY <1>2, <2>2, <3>1
  <2> QED
    BY <1>4, <2>1, <2>2
<1>8. ASSUME \A k, l \in 1..Len(s) : s[k] = s[l] => k = l
      PROVE  \A k, l \in 1..Len(u) : u[k] = u[l] => k = l
  <2>1. \A k \in 1..Len(t) : t[k] # x
    <3> SUFFICES ASSUME NEW k \in 1..Len(t), t[k] = x PROVE FALSE
      OBVIOUS
    <3>1. PICK j \in 1..i : t[k] = s[j]
      BY DEF KeptOf
    <3> QED
      BY <1>5, <1>8, <3>1
  <2>2. \A k, l \in 1..Len(t) : t[k] = t[l] => k = l
    BY <1>8, Zenon DEF KeptOf
  <2> HIDE DEF x
  <2> QED
    BY <1>2, <1>3, <2>1, <2>2
<1>9. Len(u) <= i + 1
  BY <1>1, <1>2
<1>10. KeptOf(u, D, s, S, i + 1)
  BY <1>2, <1>6, <1>7, <1>8, <1>9, Zenon DEF KeptOf
<1> QED
  BY <1>10 DEF u

(* ... and one that is not is left out. *)
LEMMA KeptOfSkip ==
  ASSUME NEW D, NEW s \in Seq(D), NEW S, NEW i \in Nat,
         NEW t, KeptOf(t, D, s, S, i), s[i + 1] \notin S
  PROVE  KeptOf(t, D, s, S, i + 1)
<1>1. t \in Seq(D) /\ Len(t) <= i + 1
  BY DEF KeptOf
<1>2. \A j \in 1..(i + 1) : j \in 1..i \/ j = i + 1
  OBVIOUS
<1>3. \A j \in 1..i : j \in 1..(i + 1)
  OBVIOUS
<1>4. \A k \in 1..Len(t) : t[k] \in S /\ \E j \in 1..(i + 1) : t[k] = s[j]
  BY <1>3, Zenon DEF KeptOf
<1>5. \A j \in 1..(i + 1) : s[j] \in S => \E k \in 1..Len(t) : t[k] = s[j]
  BY <1>2, Zenon DEF KeptOf
<1> QED
  BY <1>1, <1>4, <1>5, Zenon DEF KeptOf

(* What Keeping leaves. *)
LEMMA KeepingElements ==
  ASSUME NEW D, NEW s \in Seq(D), NEW S
  PROVE  KeptOf(Keeping(s, S), D, s, S, Len(s))
<1>1. PICK f : /\ \A i \in 0..Len(s) : f[i] = KeptStep(f, s, S, i)
               /\ Keeping(s, S) = f[Len(s)]
  BY KeepingBy
<1> DEFINE G == {i \in 0..Len(s) : KeptOf(f[i], D, s, S, i)}
<1>2. Len(s) \in Nat
  OBVIOUS
<1>3. 0 \in G
  <2>1. f[0] = <<>>
    BY <1>1, <1>2 DEF KeptStep
  <2>2. KeptOf(<<>>, D, s, S, 0)
    BY DEF KeptOf
  <2> QED
    BY <1>2, <2>1, <2>2
<1>4. ASSUME NEW i \in 0..(Len(s) - 1), i \in G PROVE i + 1 \in G
  <2>1. i \in Nat /\ i + 1 \in 1..Len(s) /\ i + 1 \in 0..Len(s) /\ (i + 1) - 1 = i
    BY <1>2
  <2>2. KeptOf(f[i], D, s, S, i)
    BY <1>4
  <2>3. f[i + 1] = IF s[i + 1] \in S THEN Append(f[i], s[i + 1]) ELSE f[i]
    BY <1>1, <2>1 DEF KeptStep
  <2>4. KeptOf(f[i + 1], D, s, S, i + 1)
    <3>1. CASE s[i + 1] \in S
      BY <2>1, <2>2, <2>3, <3>1, KeptOfAppend
    <3>2. CASE s[i + 1] \notin S
      BY <2>1, <2>2, <2>3, <3>2, KeptOfSkip
    <3> QED
      BY <3>1, <3>2
  <2> QED
    BY <2>1, <2>4
<1>5. 0..Len(s) \subseteq G
  <2> HIDE DEF G
  <2> QED
    BY <1>2, <1>3, <1>4, UpTo
<1>6. KeptOf(f[Len(s)], D, s, S, Len(s))
  BY <1>2, <1>5
<1> QED
  BY <1>1, <1>6, Zenon

-----------------------------------------------------------------------------
(***************************************************************************)
(* The elements of a sequence as a set.                                    *)
(***************************************************************************)

(* The elements are the values at the positions. *)
LEMMA ToSetElements ==
  ASSUME NEW D, NEW s \in Seq(D)
  PROVE  /\ ToSet(s) \subseteq D
         /\ \A x : x \in ToSet(s) <=> \E i \in 1..Len(s) : s[i] = x
  BY DEF ToSet

(* Appending adds one element. *)
LEMMA ToSetAppend ==
  ASSUME NEW D, NEW s \in Seq(D), NEW x \in D
  PROVE  Append(s, x) \in Seq(D) /\ ToSet(Append(s, x)) = ToSet(s) \cup {x}
<1> DEFINE t == Append(s, x)
<1>1. /\ t \in Seq(D) /\ Len(t) = Len(s) + 1 /\ Len(s) \in Nat
      /\ \A k \in 1..Len(s) : t[k] = s[k]
      /\ t[Len(s) + 1] = x
  BY AppendElements
<1> HIDE DEF t
<1>2. \A k \in 1..Len(t) : k \in 1..Len(s) \/ k = Len(s) + 1
  BY <1>1
<1>3. Len(s) + 1 \in 1..Len(t) /\ \A k \in 1..Len(s) : k \in 1..Len(t)
  BY <1>1
<1>4. \A y : y \in ToSet(t) <=> y \in ToSet(s) \/ y = x
  <2>1. /\ \A y : y \in ToSet(t) <=> \E i \in 1..Len(t) : t[i] = y
        /\ \A y : y \in ToSet(s) <=> \E i \in 1..Len(s) : s[i] = y
    BY <1>1, ToSetElements
  <2> QED
    BY <1>1, <1>2, <1>3, <2>1, Zenon
<1>5. ToSet(t) = ToSet(s) \cup {x}
  BY <1>4, Zenon
<1> QED
  BY <1>1, <1>5 DEF t

(* Concatenation joins the elements. *)
LEMMA ToSetConcat ==
  ASSUME NEW D, NEW s \in Seq(D), NEW t \in Seq(D)
  PROVE  s \o t \in Seq(D) /\ ToSet(s \o t) = ToSet(s) \cup ToSet(t)
<1> DEFINE u == s \o t
<1>1. /\ u \in Seq(D) /\ Len(u) = Len(s) + Len(t) /\ Len(s) \in Nat /\ Len(t) \in Nat
      /\ \A k \in 1..Len(s) : u[k] = s[k]
      /\ \A k \in 1..Len(t) : u[Len(s) + k] = t[k]
  OBVIOUS
<1> HIDE DEF u
<1>2. \A k \in 1..Len(u) : k \in 1..Len(s) \/ (k - Len(s) \in 1..Len(t) /\ Len(s) + (k - Len(s)) = k)
  BY <1>1
<1>3. /\ \A k \in 1..Len(s) : k \in 1..Len(u)
      /\ \A k \in 1..Len(t) : Len(s) + k \in 1..Len(u)
  BY <1>1
<1>4. \A y : y \in ToSet(u) <=> y \in ToSet(s) \/ y \in ToSet(t)
  <2>1. /\ \A y : y \in ToSet(u) <=> \E i \in 1..Len(u) : u[i] = y
        /\ \A y : y \in ToSet(s) <=> \E i \in 1..Len(s) : s[i] = y
        /\ \A y : y \in ToSet(t) <=> \E i \in 1..Len(t) : t[i] = y
    BY <1>1, ToSetElements
  <2>2. ASSUME NEW i \in 1..Len(u) PROVE u[i] \in ToSet(s) \/ u[i] \in ToSet(t)
    <3>1. CASE i \in 1..Len(s)
      BY <1>1, <2>1, <3>1, Zenon
    <3>2. CASE i - Len(s) \in 1..Len(t) /\ Len(s) + (i - Len(s)) = i
      <4>1. u[i] = t[i - Len(s)]
        BY <1>1, <3>2
      <4> QED
        BY <2>1, <3>2, <4>1
    <3> QED
      BY <1>2, <3>1, <3>2
  <2>3. ASSUME NEW i \in 1..Len(s) PROVE s[i] \in ToSet(u)
    BY <1>1, <1>3, <2>1, Zenon
  <2>4. ASSUME NEW i \in 1..Len(t) PROVE t[i] \in ToSet(u)
    BY <1>1, <1>3, <2>1, Zenon
  <2> QED
    BY <2>1, <2>2, <2>3, <2>4, Zenon
<1>5. ToSet(u) = ToSet(s) \cup ToSet(t)
  BY <1>4, Zenon
<1> QED
  BY <1>1, <1>5 DEF u

(* A prefix has some of the elements. *)
LEMMA ToSetPrefix ==
  ASSUME NEW D, NEW s \in Seq(D), NEW n \in Nat, n <= Len(s)
  PROVE  SubSeq(s, 1, n) \in Seq(D) /\ ToSet(SubSeq(s, 1, n)) \subseteq ToSet(s)
<1> DEFINE u == SubSeq(s, 1, n)
<1>1. u \in Seq(D) /\ Len(u) = n /\ \A k \in 1..n : u[k] = s[k]
  OBVIOUS
<1> HIDE DEF u
<1>2. \A k \in 1..n : k \in 1..Len(s)
  OBVIOUS
<1>3. ToSet(u) \subseteq ToSet(s)
  BY <1>1, <1>2, ToSetElements
<1> QED
  BY <1>1, <1>3 DEF u

(* Keeping intersects. *)
LEMMA ToSetKeeping ==
  ASSUME NEW D, NEW s \in Seq(D), NEW S
  PROVE  /\ Keeping(s, S) \in Seq(D) /\ Len(Keeping(s, S)) <= Len(s)
         /\ ToSet(Keeping(s, S)) = ToSet(s) \cap S
<1> DEFINE t == Keeping(s, S)
<1>1. KeptOf(t, D, s, S, Len(s))
  BY KeepingElements
<1> HIDE DEF t
<1>2. t \in Seq(D) /\ Len(t) <= Len(s)
  BY <1>1 DEF KeptOf
<1>3. \A y : y \in ToSet(t) <=> y \in ToSet(s) /\ y \in S
  <2>1. /\ \A y : y \in ToSet(t) <=> \E i \in 1..Len(t) : t[i] = y
        /\ \A y : y \in ToSet(s) <=> \E i \in 1..Len(s) : s[i] = y
    BY <1>2, ToSetElements
  <2>2. ASSUME NEW k \in 1..Len(t) PROVE t[k] \in ToSet(s) /\ t[k] \in S
    BY <1>1, <2>1, Zenon DEF KeptOf
  <2>3. ASSUME NEW j \in 1..Len(s), s[j] \in S PROVE s[j] \in ToSet(t)
    BY <1>1, <2>1, <2>3, Zenon DEF KeptOf
  <2> QED
    BY <2>1, <2>2, <2>3
<1>4. ToSet(t) = ToSet(s) \cap S
  BY <1>3, Zenon
<1> QED
  BY <1>2, <1>4 DEF t
=============================================================================
