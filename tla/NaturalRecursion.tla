-------------------------- MODULE NaturalRecursion --------------------------
(***************************************************************************)
(* Induction over the natural numbers, functions defined by recursion,     *)
(* what a selection collects, and division with remainder.  Induction and  *)
(* recursion are stated with sets and functions in place of predicates and *)
(* operators: the property of an induction is the set of numbers that have *)
(* it, and the step of a recursion is a function.  Both rest on            *)
(* NatLessThanWellFounded and WFMin of the library.                        *)
(***************************************************************************)
EXTENDS Selection, SequenceTheorems, WellFoundedInduction, TLAPS

Below == {ss \in Nat \X Nat : ss[1] < ss[2]}

LEMMA SmallestMember ==
  ASSUME NEW T, T \subseteq Nat, T # {}
  PROVE  \E x \in T : \A y \in T : x <= y
<1>1. IsWellFoundedOn(Below, Nat)
  BY NatLessThanWellFounded DEF OpToRel, Below
<1>2. PICK x \in T : \A y \in T : <<y, x>> \notin Below
  BY <1>1, WFMin
<1>3. ASSUME NEW y \in T PROVE x <= y
  <2>1. x \in Nat /\ y \in Nat
    OBVIOUS
  <2>2. y < x => <<y, x>> \in Below
    BY <2>1 DEF Below
  <2>3. QED
    BY <1>2, <2>1, <2>2
<1>4. QED
  BY <1>3

LEMMA LargestMember ==
  ASSUME NEW len \in Nat, NEW T, T \subseteq 0 .. len, T # {}
  PROVE  \E x \in T : \A y \in T : y <= x
<1> DEFINE rest == {len - y : y \in T}
<1>1. rest \subseteq Nat /\ rest # {}
  <2>1. ASSUME NEW y \in T PROVE len - y \in Nat
    <3>1. y \in 0 .. len
      OBVIOUS
    <3>2. QED
      BY <3>1
  <2>2. QED
    BY <2>1
<1>2. PICK r \in rest : \A q \in rest : r <= q
  BY <1>1, SmallestMember
<1>3. PICK x \in T : r = len - x
  OBVIOUS
<1>4. ASSUME NEW y \in T PROVE y <= x
  <2>1. len - x <= len - y /\ x \in 0 .. len /\ y \in 0 .. len
    BY <1>2, <1>3
  <2>2. QED
    BY <2>1
<1>5. QED
  BY <1>4

(* Induction: a set with 0 and every successor has all of them, ...        *)
LEMMA Induction ==
  ASSUME NEW T, 0 \in T, \A n \in Nat : n \in T => n + 1 \in T
  PROVE  \A n \in Nat : n \in T
<1> DEFINE missing == {n \in Nat : n \notin T}
<1> SUFFICES ASSUME missing # {} PROVE FALSE
  OBVIOUS
<1>1. PICK x \in missing : \A y \in missing : x <= y
  BY SmallestMember
<1>2. x # 0 /\ x \in Nat
  OBVIOUS
<1>3. x - 1 \in Nat /\ x - 1 \notin missing
  BY <1>1, <1>2
<1>4. QED
  BY <1>2, <1>3

(* ... and so has one that has every number whose predecessors it has.     *)
LEMMA StrongInduction ==
  ASSUME NEW T, \A n \in Nat : (\A m \in 0 .. n - 1 : m \in T) => n \in T
  PROVE  \A n \in Nat : n \in T
<1> DEFINE missing == {n \in Nat : n \notin T}
<1> SUFFICES ASSUME missing # {} PROVE FALSE
  OBVIOUS
<1>1. PICK x \in missing : \A y \in missing : x <= y
  BY SmallestMember
<1>2. \A m \in 0 .. x - 1 : m \in T
  BY <1>1
<1>3. QED
  BY <1>2

-----------------------------------------------------------------------------
(* The steps of a recursion with values in S: from n and the value there   *)
(* to the value at n + 1.                                                  *)
StepOn(S) == [Nat \X S -> S]

(* What a recursion has computed up to n.                                  *)
UpTo(h, n, S, c, g) ==
  /\ h \in [0 .. n -> S] /\ h[0] = c
  /\ \A m \in 0 .. n - 1 : h[m + 1] = g[<<m, h[m]>>]

LEMMA UpToExists ==
  ASSUME NEW S, NEW c \in S, NEW g \in StepOn(S)
  PROVE  \A n \in Nat : \E h : UpTo(h, n, S, c, g)
<1> DEFINE T == {n \in Nat : \E h : UpTo(h, n, S, c, g)}
<1>1. 0 \in T
  <2>1. UpTo([i \in 0 .. 0 |-> c], 0, S, c, g)
    BY DEF UpTo
  <2>2. QED
    BY <2>1
<1>2. ASSUME NEW n \in Nat, n \in T PROVE n + 1 \in T
  <2>1. PICK h : UpTo(h, n, S, c, g)
    BY <1>2
  <2> DEFINE next == [i \in 0 .. n + 1 |-> IF i = n + 1 THEN g[<<n, h[n]>>] ELSE h[i]]
  <2>2. h \in [0 .. n -> S] /\ h[n] \in S /\ <<n, h[n]>> \in Nat \X S
    BY <2>1 DEF UpTo
  <2>3. g[<<n, h[n]>>] \in S
    BY <2>2 DEF StepOn
  <2>4. \A i \in 0 .. n + 1 : i # n + 1 => i \in 0 .. n
    OBVIOUS
  <2>5. next \in [0 .. n + 1 -> S]
    BY <2>2, <2>3, <2>4
  <2>6. next[0] = c
    BY <2>1 DEF UpTo
  <2>7. ASSUME NEW m \in 0 .. n PROVE next[m + 1] = g[<<m, next[m]>>]
    <3>1. m \in Nat /\ next[m] = h[m]
      OBVIOUS
    <3>2. CASE m = n
      <4>1. next[m + 1] = g[<<n, h[n]>>]
        BY <3>2
      <4>2. QED
        BY <3>1, <3>2, <4>1
    <3>3. CASE m # n
      <4>1. m \in 0 .. n - 1 /\ m + 1 \in 0 .. n /\ m + 1 # n + 1
        BY <3>3
      <4>2. next[m + 1] = h[m + 1]
        BY <4>1
      <4>3. QED
        BY <2>1, <3>1, <4>1, <4>2 DEF UpTo
    <3>4. QED
      BY <3>2, <3>3
  <2> HIDE DEF next
  <2>8. UpTo(next, n + 1, S, c, g)
    <3>1. (n + 1) - 1 = n
      OBVIOUS
    <3>2. QED
      BY <2>5, <2>6, <2>7, <3>1 DEF UpTo
  <2>9. QED
    BY <2>8
<1> HIDE DEF T
<1>3. \A n \in Nat : n \in T
  BY <1>1, <1>2, Induction
<1>4. QED
  BY <1>3 DEF T

LEMMA UpToUnique ==
  ASSUME NEW S, NEW c, NEW g, NEW n \in Nat, NEW h, UpTo(h, n, S, c, g),
         NEW m \in Nat, NEW f, UpTo(f, m, S, c, g), n <= m
  PROVE  h[n] = f[n]
<1> DEFINE T == {i \in Nat : i <= n => h[i] = f[i]}
<1>1. 0 \in T
  BY DEF UpTo
<1>2. ASSUME NEW i \in Nat, i \in T PROVE i + 1 \in T
  <2> SUFFICES ASSUME i + 1 <= n PROVE h[i + 1] = f[i + 1]
    OBVIOUS
  <2>1. i \in 0 .. n - 1 /\ i \in 0 .. m - 1
    OBVIOUS
  <2>2. h[i] = f[i]
    BY <1>2
  <2>3. QED
    BY <2>1, <2>2 DEF UpTo
<1> HIDE DEF T
<1>3. n \in T
  BY <1>1, <1>2, Induction
<1>4. QED
  BY <1>3 DEF T

(* A function defined by recursion exists.                                 *)
LEMMA Recursion ==
  ASSUME NEW S, NEW c \in S, NEW g \in StepOn(S)
  PROVE  \E f \in [Nat -> S] : f[0] = c /\ \A n \in Nat : f[n + 1] = g[<<n, f[n]>>]
<1> DEFINE part(n) == CHOOSE h : UpTo(h, n, S, c, g)
           f       == [n \in Nat |-> part(n)[n]]
<1>1. \A n \in Nat : UpTo(part(n), n, S, c, g)
  BY UpToExists
<1> HIDE DEF part
<1>2. f \in [Nat -> S]
  <2>1. ASSUME NEW n \in Nat PROVE part(n)[n] \in S
    <3>1. part(n) \in [0 .. n -> S] /\ n \in 0 .. n
      BY <1>1 DEF UpTo
    <3>2. QED
      BY <3>1
  <2>2. QED
    BY <2>1
<1>3. f[0] = c
  BY <1>1 DEF UpTo
<1>4. ASSUME NEW n \in Nat PROVE f[n + 1] = g[<<n, f[n]>>]
  <2>1. UpTo(part(n + 1), n + 1, S, c, g) /\ UpTo(part(n), n, S, c, g)
    BY <1>1
  <2>2. part(n)[n] = part(n + 1)[n]
    <3>1. n + 1 \in Nat /\ n <= n + 1
      OBVIOUS
    <3>2. QED
      BY <2>1, <3>1, UpToUnique
  <2>3. part(n + 1)[n + 1] = g[<<n, part(n + 1)[n]>>]
    <3>1. n \in 0 .. (n + 1) - 1
      OBVIOUS
    <3>2. QED
      BY <2>1, <3>1 DEF UpTo
  <2>4. QED
    BY <2>2, <2>3
<1>5. QED
  BY <1>2, <1>3, <1>4

-----------------------------------------------------------------------------
(* Selections.                                                             *)

(* What the loop of a selection has collected after k elements.            *)
Collecting(s, chosen, f) ==
  [k \in Nat |-> IF k = 0 THEN <<>>
                 ELSE IF k \in chosen THEN Append(f[k - 1], s[k]) ELSE f[k - 1]]

Collected(s, chosen) == CHOOSE f : f = Collecting(s, chosen, f)

LEMMA SelectedIsCollected ==
  ASSUME NEW s, NEW chosen
  PROVE  Selected(s, chosen) = Collected(s, chosen)[Len(s)]
BY Zenon DEF Selected, Collecting, Collected

LEMMA CollectedSteps ==
  ASSUME NEW R, NEW s \in Seq(R), NEW chosen \in SUBSET DOMAIN s
  PROVE  /\ Collected(s, chosen)[0] = <<>>
         /\ \A j \in Nat :
              Collected(s, chosen)[j + 1] = IF j + 1 \in chosen
                                            THEN Append(Collected(s, chosen)[j], s[j + 1])
                                            ELSE Collected(s, chosen)[j]
         /\ \A j \in Nat : Collected(s, chosen)[j] \in Seq(R)
<1> DEFINE S == Seq(R)
           c == <<>>
           g == [x \in Nat \X S |->
                   IF x[1] + 1 \in chosen THEN Append(x[2], s[x[1] + 1]) ELSE x[2]]
<1>1. \A j \in Nat : j \in chosen => s[j] \in R
  <2>1. \A j \in DOMAIN s : s[j] \in R
    BY ElementOfSeq
  <2>2. QED
    BY <2>1
<1>2. \A j \in Nat, t \in S :
        g[<<j, t>>] = IF j + 1 \in chosen THEN Append(t, s[j + 1]) ELSE t
  OBVIOUS
<1>3. c \in S
  OBVIOUS
<1>4. g \in StepOn(S)
  <2>1. ASSUME NEW x \in Nat \X S
        PROVE  (IF x[1] + 1 \in chosen THEN Append(x[2], s[x[1] + 1]) ELSE x[2]) \in S
    <3>1. x[1] + 1 \in Nat /\ x[2] \in S
      OBVIOUS
    <3>2. x[1] + 1 \in chosen => s[x[1] + 1] \in R
      BY <1>1, <3>1
    <3>3. \A r \in R : Append(x[2], r) \in S
      BY <3>1, AppendProperties
    <3>4. QED
      BY <3>1, <3>2, <3>3
  <2>2. QED
    BY <2>1 DEF StepOn
<1> HIDE DEF g, S, c
<1>5. PICK f \in [Nat -> S] : f[0] = c /\ \A j \in Nat : f[j + 1] = g[<<j, f[j]>>]
  BY <1>3, <1>4, Recursion
<1>6. f = Collecting(s, chosen, f)
  <2>1. ASSUME NEW k \in Nat
        PROVE  f[k] = IF k = 0 THEN <<>>
                      ELSE IF k \in chosen THEN Append(f[k - 1], s[k]) ELSE f[k - 1]
    <3>1. CASE k = 0
      BY <1>5, <3>1 DEF c
    <3>2. CASE k # 0
      <4>1. PICK m \in Nat : k = m + 1 /\ k - 1 = m
        BY <3>2
      <4>2. f[m + 1] = g[<<m, f[m]>>] /\ f[m] \in S
        BY <1>5
      <4>3. f[m + 1] = IF m + 1 \in chosen THEN Append(f[m], s[m + 1]) ELSE f[m]
        BY <1>2, <4>2
      <4>4. QED
        BY <3>2, <4>1, <4>3
    <3>3. QED
      BY <3>1, <3>2
  <2>2. QED
    BY <2>1 DEF Collecting
<1> DEFINE h == Collected(s, chosen)
<1>7. h = Collecting(s, chosen, h)
  BY <1>6, Zenon DEF Collected
<1> HIDE DEF h
<1>8. /\ h[0] = <<>>
      /\ \A j \in Nat : h[j + 1] = IF j + 1 \in chosen THEN Append(h[j], s[j + 1])
                                   ELSE h[j]
  <2>1. \A k \in Nat : h[k] = IF k = 0 THEN <<>>
                              ELSE IF k \in chosen THEN Append(h[k - 1], s[k])
                              ELSE h[k - 1]
    BY <1>7 DEF Collecting
  <2>2. \A j \in Nat : j + 1 \in Nat /\ j + 1 # 0 /\ (j + 1) - 1 = j
    OBVIOUS
  <2>3. QED
    BY <2>1, <2>2
<1> DEFINE T == {j \in Nat : h[j] \in Seq(R)}
<1>9. 0 \in T
  <2>1. <<>> \in Seq(R)
    OBVIOUS
  <2>2. QED
    BY <1>8, <2>1
<1>10. ASSUME NEW j \in Nat, j \in T PROVE j + 1 \in T
  <2>1. h[j] \in Seq(R)
    BY <1>10
  <2>2. \A r \in R : Append(h[j], r) \in Seq(R)
    BY <2>1, AppendProperties
  <2>3. j + 1 \in chosen => s[j + 1] \in R
    BY <1>1
  <2>4. h[j + 1] \in Seq(R)
    BY <1>8, <2>1, <2>2, <2>3
  <2>5. QED
    BY <2>4
<1> HIDE DEF T
<1>11. \A j \in Nat : j \in T
  BY <1>9, <1>10, Induction
<1>12. QED
  BY <1>8, <1>11 DEF T, h

LEMMA SelectedIsSeq ==
  ASSUME NEW R, NEW s \in Seq(R), NEW chosen \in SUBSET DOMAIN s
  PROVE  Selected(s, chosen) \in Seq(R)
<1>1. Len(s) \in Nat
  BY LenProperties
<1>2. QED
  BY <1>1, CollectedSteps, SelectedIsCollected

(* Where nothing is chosen nothing is added, ...                           *)
LEMMA CollectedSame ==
  ASSUME NEW R, NEW s \in Seq(R), NEW chosen \in SUBSET DOMAIN s, NEW k \in Nat, NEW d \in Nat,
         \A j \in k + 1 .. k + d : j \notin chosen
  PROVE  Collected(s, chosen)[k + d] = Collected(s, chosen)[k]
<1> DEFINE h == Collected(s, chosen)
           T == {e \in Nat : e <= d => h[k + e] = h[k]}
<1>1. /\ h[0] = <<>>
      /\ \A j \in Nat : h[j + 1] = IF j + 1 \in chosen THEN Append(h[j], s[j + 1]) ELSE h[j]
      /\ \A j \in Nat : h[j] \in Seq(R)
  BY CollectedSteps
<1> HIDE DEF h
<1>2. 0 \in T
  OBVIOUS
<1>3. ASSUME NEW e \in Nat, e \in T PROVE e + 1 \in T
  <2> SUFFICES ASSUME e + 1 <= d PROVE h[k + (e + 1)] = h[k]
    OBVIOUS
  <2>1. h[k + e] = h[k]
    BY <1>3
  <2>2. PICK m \in Nat : m = k + e /\ k + (e + 1) = m + 1
    OBVIOUS
  <2>3. m + 1 \notin chosen
    BY <2>2
  <2>4. h[m + 1] = h[m]
    BY <1>1, <2>3
  <2>5. QED
    BY <2>1, <2>2, <2>4
<1> HIDE DEF T
<1>4. d \in T
  BY <1>2, <1>3, Induction
<1>5. QED
  BY <1>4 DEF T, h

(* ... and what has been collected stays in front.                         *)
Begins(one, other) == /\ Len(one) <= Len(other)
                      /\ \A j \in 1 .. Len(one) : other[j] = one[j]

LEMMA CollectedStays ==
  ASSUME NEW R, NEW s \in Seq(R), NEW chosen \in SUBSET DOMAIN s, NEW k \in Nat, NEW d \in Nat
  PROVE  Begins(Collected(s, chosen)[k], Collected(s, chosen)[k + d])
<1> DEFINE h == Collected(s, chosen)
<1>1. /\ \A j \in Nat : h[j + 1] = IF j + 1 \in chosen THEN Append(h[j], s[j + 1]) ELSE h[j]
      /\ \A j \in Nat : h[j] \in Seq(R)
  BY CollectedSteps
<1>2. \A j \in Nat : j \in chosen => s[j] \in R
  <2>1. \A j \in DOMAIN s : s[j] \in R
    BY ElementOfSeq
  <2>2. QED
    BY <2>1
<1> HIDE DEF h
<1> DEFINE Stays(e) == /\ Len(h[k]) <= Len(h[e])
                       /\ \A j \in 1 .. Len(h[k]) : h[e][j] = h[k][j]
           T == {e \in Nat : Stays(k + e)}
<1>3. \A j \in Nat : Len(h[j]) \in Nat
  BY <1>1, LenProperties
<1>4. 0 \in T
  BY <1>3
<1>5. ASSUME NEW e \in Nat, e \in T PROVE e + 1 \in T
  <2> DEFINE m == k + e
  <2>1. m \in Nat /\ k + (e + 1) = m + 1 /\ Stays(m)
    BY <1>5
  <2> HIDE DEF m
  <2>2. CASE m + 1 \in chosen
    <3>1. m + 1 \in Nat
      BY <2>1
    <3>2. s[m + 1] \in R
      BY <1>2, <2>2, <3>1
    <3>3. h[m + 1] = Append(h[m], s[m + 1]) /\ h[m] \in Seq(R)
      BY <1>1, <2>1, <2>2
    <3>4. /\ Len(h[m + 1]) = Len(h[m]) + 1
          /\ \A j \in 1 .. Len(h[m]) : h[m + 1][j] = h[m][j]
      BY <3>2, <3>3, AppendProperties
    <3>5. Stays(m + 1)
      BY <1>3, <2>1, <3>4
    <3>6. QED
      BY <2>1, <3>5
  <2>3. CASE m + 1 \notin chosen
    <3>1. h[m + 1] = h[m]
      BY <1>1, <2>1, <2>3
    <3>2. QED
      BY <2>1, <3>1
  <2>4. QED
    BY <2>2, <2>3
<1> HIDE DEF T
<1>6. d \in T
  BY <1>4, <1>5, Induction
<1>7. QED
  BY <1>6 DEF T, h, Begins

-----------------------------------------------------------------------------
(* The chosen places of 1 .. n in order: those among the first k, all of   *)
(* them, and the one after the h-th, or n + 1.                             *)
Marks(n, chosen, k)     == Collected([j \in 1 .. n |-> j], chosen)[k]
AllMarks(n, chosen)     == Marks(n, chosen, n)
MarkAfter(n, chosen, h) == IF h < Len(AllMarks(n, chosen)) THEN AllMarks(n, chosen)[h + 1]
                           ELSE n + 1

LEMMA NumbersAreSeq ==
  ASSUME NEW n \in Nat, NEW chosen \in SUBSET (1 .. n)
  PROVE  /\ [j \in 1 .. n |-> j] \in Seq(Nat) /\ Len([j \in 1 .. n |-> j]) = n
         /\ chosen \in SUBSET DOMAIN [j \in 1 .. n |-> j]
<1>1. [j \in 1 .. n |-> j] \in [1 .. n -> Nat]
  OBVIOUS
<1>2. [j \in 1 .. n |-> j] \in Seq(Nat)
  BY <1>1, IsASeq
<1>3. DOMAIN [j \in 1 .. n |-> j] = 1 .. n
  OBVIOUS
<1>4. Len([j \in 1 .. n |-> j]) = n
  BY <1>1, <1>2, <1>3, LenProperties
<1>5. QED
  BY <1>2, <1>3, <1>4

LEMMA PlacesAreMarks ==
  ASSUME NEW n \in Nat, NEW chosen \in SUBSET (1 .. n)
  PROVE  Places(chosen, n) = AllMarks(n, chosen)
<1>1. Len([j \in 1 .. n |-> j]) = n
  BY NumbersAreSeq
<1>2. QED
  BY <1>1, SelectedIsCollected DEF Places, AllMarks, Marks

LEMMA MarksSteps ==
  ASSUME NEW n \in Nat, NEW chosen \in SUBSET (1 .. n)
  PROVE  /\ Marks(n, chosen, 0) = <<>>
         /\ \A k \in Nat : Marks(n, chosen, k + 1) = IF k + 1 \in chosen
                                                     THEN Append(Marks(n, chosen, k), k + 1)
                                                     ELSE Marks(n, chosen, k)
         /\ \A k \in Nat : Marks(n, chosen, k) \in Seq(Nat)
         /\ \A k \in Nat : Len(Marks(n, chosen, k)) \in Nat
<1> DEFINE s == [j \in 1 .. n |-> j]
<1>1. s \in Seq(Nat) /\ chosen \in SUBSET DOMAIN s
  BY NumbersAreSeq
<1>2. \A k \in chosen : s[k] = k
  OBVIOUS
<1>3. \A k : Marks(n, chosen, k) = Collected(s, chosen)[k]
  BY DEF Marks
<1> HIDE DEF s
<1>4. /\ Collected(s, chosen)[0] = <<>>
      /\ \A j \in Nat :
           Collected(s, chosen)[j + 1] = IF j + 1 \in chosen
                                         THEN Append(Collected(s, chosen)[j], s[j + 1])
                                         ELSE Collected(s, chosen)[j]
      /\ \A j \in Nat : Collected(s, chosen)[j] \in Seq(Nat)
  BY <1>1, CollectedSteps
<1>5. ASSUME NEW k \in Nat
      PROVE  Marks(n, chosen, k + 1) = IF k + 1 \in chosen
                                       THEN Append(Marks(n, chosen, k), k + 1)
                                       ELSE Marks(n, chosen, k)
  <2>1. /\ Marks(n, chosen, k) = Collected(s, chosen)[k]
        /\ Marks(n, chosen, k + 1) = Collected(s, chosen)[k + 1]
    BY <1>3
  <2>2. Collected(s, chosen)[k + 1] = IF k + 1 \in chosen
                                      THEN Append(Collected(s, chosen)[k], s[k + 1])
                                      ELSE Collected(s, chosen)[k]
    BY <1>4
  <2>3. k + 1 \in chosen => s[k + 1] = k + 1
    BY <1>2
  <2>4. QED
    BY <2>1, <2>2, <2>3
<1>6. \A k \in Nat : Marks(n, chosen, k) \in Seq(Nat)
  BY <1>3, <1>4
<1>7. \A k \in Nat : Len(Marks(n, chosen, k)) \in Nat
  BY <1>6, LenProperties
<1>8. QED
  BY <1>3, <1>4, <1>5, <1>6, <1>7

LEMMA MarksStay ==
  ASSUME NEW n \in Nat, NEW chosen \in SUBSET (1 .. n), NEW k \in Nat, NEW d \in Nat
  PROVE  Begins(Marks(n, chosen, k), Marks(n, chosen, k + d))
<1>1. [j \in 1 .. n |-> j] \in Seq(Nat) /\ chosen \in SUBSET DOMAIN [j \in 1 .. n |-> j]
  BY NumbersAreSeq
<1> DEFINE s == [j \in 1 .. n |-> j]
<1>2. s \in Seq(Nat) /\ chosen \in SUBSET DOMAIN s
  BY <1>1
<1>3. \A j : Marks(n, chosen, j) = Collected(s, chosen)[j]
  BY DEF Marks
<1> HIDE DEF s
<1>4. Begins(Collected(s, chosen)[k], Collected(s, chosen)[k + d])
  BY <1>2, CollectedStays
<1>5. QED
  BY <1>3, <1>4

LEMMA NoMarks ==
  ASSUME NEW n \in Nat, NEW chosen \in SUBSET (1 .. n), NEW k \in Nat, NEW d \in Nat,
         \A j \in k + 1 .. k + d : j \notin chosen
  PROVE  Marks(n, chosen, k + d) = Marks(n, chosen, k)
<1> DEFINE s == [j \in 1 .. n |-> j]
<1>1. s \in Seq(Nat) /\ chosen \in SUBSET DOMAIN s
  BY NumbersAreSeq
<1>2. \A j : Marks(n, chosen, j) = Collected(s, chosen)[j]
  BY DEF Marks
<1> HIDE DEF s
<1>3. Collected(s, chosen)[k + d] = Collected(s, chosen)[k]
  BY <1>1, CollectedSame
<1>4. QED
  BY <1>2, <1>3

(* A chosen place is the next of all of them.                              *)
LEMMA MarkMet ==
  ASSUME NEW n \in Nat, NEW chosen \in SUBSET (1 .. n), NEW k \in Nat, k + 1 \in chosen,
         NEW h \in Nat, Len(Marks(n, chosen, k)) = h
  PROVE  /\ Len(Marks(n, chosen, k + 1)) = h + 1
         /\ h < Len(AllMarks(n, chosen)) /\ AllMarks(n, chosen)[h + 1] = k + 1
         /\ Len(AllMarks(n, chosen)) \in Nat
<1>1. k + 1 \in 1 .. n
  OBVIOUS
<1>2. Marks(n, chosen, k + 1) = Append(Marks(n, chosen, k), k + 1) /\ Marks(n, chosen, k) \in Seq(Nat)
  BY MarksSteps
<1>3. PICK m \in Nat, d \in Nat : m = k + 1 /\ n = m + d
  <2>1. k + 1 \in Nat /\ n - (k + 1) \in Nat /\ n = (k + 1) + (n - (k + 1))
    BY <1>1
  <2>2. QED
    BY <2>1
<1>4. Len(Marks(n, chosen, m)) = h + 1 /\ Marks(n, chosen, m)[h + 1] = m
  BY <1>2, <1>3, AppendProperties
<1>5. Begins(Marks(n, chosen, m), Marks(n, chosen, m + d))
  BY MarksStay
<1>6. Len(AllMarks(n, chosen)) \in Nat /\ AllMarks(n, chosen) = Marks(n, chosen, m + d)
  BY <1>3, MarksSteps DEF AllMarks
<1>7. h + 1 \in 1 .. Len(Marks(n, chosen, m))
  BY <1>4
<1>8. /\ Len(Marks(n, chosen, m)) <= Len(AllMarks(n, chosen))
      /\ AllMarks(n, chosen)[h + 1] = m
  BY <1>4, <1>5, <1>6, <1>7 DEF Begins
<1>9. QED
  BY <1>3, <1>4, <1>6, <1>8

LEMMA NoMarkMet ==
  ASSUME NEW n \in Nat, NEW chosen \in SUBSET (1 .. n), NEW k \in Nat, k + 1 \notin chosen
  PROVE  Marks(n, chosen, k + 1) = Marks(n, chosen, k)
<1>1. \A j \in Nat : Marks(n, chosen, j + 1) = IF j + 1 \in chosen
                                                THEN Append(Marks(n, chosen, j), j + 1)
                                                ELSE Marks(n, chosen, j)
  BY MarksSteps
<1>2. QED
  BY <1>1

(* Every mark among the first k is one of the first k numbers.             *)
LEMMA MarksBehind ==
  ASSUME NEW n \in Nat, NEW chosen \in SUBSET (1 .. n)
  PROVE  \A k \in Nat : \A j \in 1 .. Len(Marks(n, chosen, k)) :
           Marks(n, chosen, k)[j] \in 1 .. k /\ Marks(n, chosen, k)[j] \in chosen
<1> DEFINE M(k) == Marks(n, chosen, k)
           Behind(k) == \A j \in 1 .. Len(M(k)) : M(k)[j] \in 1 .. k /\ M(k)[j] \in chosen
           T == {k \in Nat : Behind(k)}
<1>1. /\ M(0) = <<>>
      /\ \A k \in Nat : M(k + 1) = IF k + 1 \in chosen THEN Append(M(k), k + 1) ELSE M(k)
      /\ \A k \in Nat : M(k) \in Seq(Nat)
      /\ \A k \in Nat : Len(M(k)) \in Nat
  BY MarksSteps
<1> HIDE DEF M
<1>2. 0 \in T
  BY <1>1
<1>3. ASSUME NEW k \in Nat, k \in T PROVE k + 1 \in T
  <2>1. Behind(k)
    BY <1>3
  <2>2. CASE k + 1 \in chosen
    <3>1. M(k + 1) = Append(M(k), k + 1) /\ M(k) \in Seq(Nat) /\ Len(M(k)) \in Nat
      BY <1>1, <2>2
    <3>2. PICK m \in Nat : m = k + 1
      OBVIOUS
    <3>3. /\ Len(M(m)) = Len(M(k)) + 1
          /\ \A j \in 1 .. Len(M(k)) : M(m)[j] = M(k)[j]
          /\ M(m)[Len(M(k)) + 1] = m
      BY <3>1, <3>2, AppendProperties
    <3>4. ASSUME NEW j \in 1 .. Len(M(m)) PROVE M(m)[j] \in 1 .. m /\ M(m)[j] \in chosen
      <4>1. CASE j = Len(M(k)) + 1
        BY <2>2, <3>2, <3>3, <4>1
      <4>2. CASE j # Len(M(k)) + 1
        <5>1. j \in 1 .. Len(M(k))
          BY <3>1, <3>3, <4>2
        <5>2. M(k)[j] \in 1 .. k /\ M(k)[j] \in chosen
          BY <2>1, <5>1
        <5>3. QED
          BY <3>2, <3>3, <5>1, <5>2
      <4>3. QED
        BY <4>1, <4>2
    <3>5. QED
      BY <3>2, <3>4
  <2>3. CASE k + 1 \notin chosen
    <3>1. M(k + 1) = M(k)
      BY <1>1, <2>3
    <3>2. Behind(k + 1)
      BY <2>1, <3>1
    <3>3. QED
      BY <3>2
  <2>4. QED
    BY <2>2, <2>3
<1> HIDE DEF T
<1>4. \A k \in Nat : k \in T
  BY <1>2, <1>3, Induction
<1>5. QED
  BY <1>4 DEF T, M

LEMMA MarksInOrder ==
  ASSUME NEW n \in Nat, NEW chosen \in SUBSET (1 .. n), NEW k \in 0 .. n, NEW h \in Nat,
         Len(Marks(n, chosen, k)) = h
  PROVE  /\ Len(AllMarks(n, chosen)) \in Nat /\ h <= Len(AllMarks(n, chosen))
         /\ h > 0 => AllMarks(n, chosen)[h] \in 1 .. k
<1>1. PICK d \in Nat : n = k + d
  <2>1. n - k \in Nat /\ n = k + (n - k)
    OBVIOUS
  <2>2. QED
    BY <2>1
<1>2. k \in Nat
  OBVIOUS
<1>3. Begins(Marks(n, chosen, k), Marks(n, chosen, k + d))
  BY <1>2, MarksStay
<1>4. Begins(Marks(n, chosen, k), AllMarks(n, chosen)) /\ Len(AllMarks(n, chosen)) \in Nat
  BY <1>1, <1>3, MarksSteps DEF AllMarks
<1>5. ASSUME h > 0 PROVE Marks(n, chosen, k)[h] \in 1 .. k /\ h \in 1 .. Len(Marks(n, chosen, k))
  <2>1. h \in 1 .. Len(Marks(n, chosen, k))
    BY <1>5
  <2>2. QED
    BY <1>2, <2>1, MarksBehind
<1>6. QED
  BY <1>4, <1>5 DEF Begins

(* The mark after the h-th is the first chosen place beyond those that the *)
(* first h are among.                                                      *)
IsNextMark(n, chosen, k, h, x) ==
  /\ x \in k + 1 .. n + 1
  /\ \A j \in k + 1 .. x - 1 : j \notin chosen
  /\ x <= n => /\ x \in chosen
               /\ Len(Marks(n, chosen, x)) = h + 1
               /\ h < Len(AllMarks(n, chosen))
  /\ x = n + 1 => Len(AllMarks(n, chosen)) = h

LEMMA NextMark ==
  ASSUME NEW n \in Nat, NEW chosen \in SUBSET (1 .. n), NEW k \in 0 .. n, NEW h \in Nat,
         Len(Marks(n, chosen, k)) = h
  PROVE  IsNextMark(n, chosen, k, h, MarkAfter(n, chosen, h))
<1> DEFINE ahead == {j \in k + 1 .. n : j \in chosen}
<1>1. k \in Nat /\ k <= n
  OBVIOUS
<1>2. ASSUME NEW d \in Nat, \A j \in k + 1 .. k + d : j \notin chosen
      PROVE  Marks(n, chosen, k + d) = Marks(n, chosen, k)
  BY <1>1, <1>2, NoMarks
<1>3. CASE ahead = {}
  <2>1. PICK d \in Nat : n = k + d
    <3>1. n - k \in Nat /\ n = k + (n - k)
      OBVIOUS
    <3>2. QED
      BY <3>1
  <2>2. \A j \in k + 1 .. k + d : j \notin chosen
    BY <1>3, <2>1
  <2>3. Marks(n, chosen, k + d) = Marks(n, chosen, k)
    BY <1>2, <2>2
  <2>4. Len(AllMarks(n, chosen)) = h
    BY <2>1, <2>3 DEF AllMarks
  <2>5. MarkAfter(n, chosen, h) = n + 1
    BY <2>4 DEF MarkAfter
  <2>6. QED
    BY <1>1, <1>3, <2>4, <2>5 DEF IsNextMark
<1>4. CASE ahead # {}
  <2>1. PICK m \in ahead : \A j \in ahead : m <= j
    <3>1. ahead \subseteq Nat
      BY <1>1
    <3>2. QED
      BY <1>4, <3>1, SmallestMember
  <2>2. m \in k + 1 .. n /\ m \in chosen
    OBVIOUS
  <2>3. PICK p \in Nat : m = p + 1 /\ k <= p
    <3>1. m - 1 \in Nat /\ m = (m - 1) + 1 /\ k <= m - 1
      BY <1>1, <2>2
    <3>2. QED
      BY <3>1
  <2>4. \A j \in k + 1 .. m - 1 : j \notin chosen
    BY <1>1, <2>1, <2>2
  <2>5. PICK d \in Nat : p = k + d
    <3>1. p - k \in Nat /\ p = k + (p - k)
      BY <1>1, <2>3
    <3>2. QED
      BY <3>1
  <2> HIDE DEF ahead
  <2>6. Marks(n, chosen, k + d) = Marks(n, chosen, k)
    <3>1. \A j \in k + 1 .. k + d : j \notin chosen
      BY <2>3, <2>4, <2>5
    <3>2. QED
      BY <1>2, <3>1
  <2>7. Len(Marks(n, chosen, p)) = h /\ p + 1 \in chosen
    BY <2>2, <2>3, <2>5, <2>6
  <2>8. /\ Len(Marks(n, chosen, p + 1)) = h + 1
        /\ h < Len(AllMarks(n, chosen)) /\ AllMarks(n, chosen)[h + 1] = p + 1
        /\ Len(AllMarks(n, chosen)) \in Nat
    BY <2>7, MarkMet
  <2>9. MarkAfter(n, chosen, h) = m
    BY <2>3, <2>8 DEF MarkAfter
  <2>10. m # n + 1 /\ m \in k + 1 .. n + 1
    BY <1>1, <2>2
  <2>11. QED
    BY <2>2, <2>3, <2>4, <2>8, <2>9, <2>10 DEF IsNextMark
<1>5. QED
  BY <1>3, <1>4

-----------------------------------------------------------------------------
(* Sums of words: a byte at an odd place counts base times.  The part of   *)
(* byte k, and the sum of the first k bytes.                               *)

WordPart(base, m, k) ==
  IF k \in DOMAIN m THEN IF k % 2 = 1 THEN m[k] * base ELSE m[k] ELSE 0

SumTo(base, m) == CHOOSE f \in [Nat -> Nat] :
                    f[0] = 0 /\ \A k \in Nat : f[k + 1] = f[k] + WordPart(base, m, k + 1)

LEMMA WordPartNat ==
  ASSUME NEW base \in Nat, NEW m \in Seq(Nat), NEW k \in Nat
  PROVE  WordPart(base, m, k) \in Nat
<1>1. CASE k \in DOMAIN m
  <2>1. m[k] \in Nat
    BY <1>1, ElementOfSeq
  <2>2. m[k] * base \in Nat
    BY <2>1
  <2>3. QED
    BY <2>1, <2>2 DEF WordPart
<1>2. QED
  BY <1>1 DEF WordPart

LEMMA SumToSteps ==
  ASSUME NEW base \in Nat, NEW m \in Seq(Nat)
  PROVE  /\ SumTo(base, m) \in [Nat -> Nat] /\ SumTo(base, m)[0] = 0
         /\ \A k \in Nat : SumTo(base, m)[k + 1] = SumTo(base, m)[k] + WordPart(base, m, k + 1)
<1> DEFINE S == Nat
           c == 0
           g == [x \in Nat \X Nat |-> x[2] + WordPart(base, m, x[1] + 1)]
<1>1. g \in StepOn(S) /\ c \in S
  <2>1. ASSUME NEW x \in Nat \X Nat PROVE x[2] + WordPart(base, m, x[1] + 1) \in Nat
    <3>1. x[1] + 1 \in Nat /\ x[2] \in Nat
      OBVIOUS
    <3>2. WordPart(base, m, x[1] + 1) \in Nat
      BY <3>1, WordPartNat
    <3>3. QED
      BY <3>1, <3>2
  <2>2. QED
    BY <2>1 DEF StepOn
<1>2. \A n \in Nat, s \in Nat : g[<<n, s>>] = s + WordPart(base, m, n + 1)
  OBVIOUS
<1> HIDE DEF g, S, c
<1>3. PICK f \in [Nat -> S] : f[0] = c /\ \A n \in Nat : f[n + 1] = g[<<n, f[n]>>]
  BY <1>1, Recursion
<1>4. f \in [Nat -> Nat] /\ f[0] = 0
  BY <1>3 DEF S, c
<1>5. \A n \in Nat : f[n + 1] = f[n] + WordPart(base, m, n + 1)
  BY <1>2, <1>3, <1>4
<1>6. QED
  BY <1>4, <1>5 DEF SumTo

LEMMA OctetsAreNat ==
  ASSUME NEW base \in Nat, NEW m \in Seq(0 .. base - 1)
  PROVE  m \in Seq(Nat)
<1>1. m \in [1 .. Len(m) -> Nat] /\ Len(m) \in Nat
  <2>1. /\ Len(m) \in Nat /\ DOMAIN m = 1 .. Len(m) /\ m = [k \in DOMAIN m |-> m[k]]
        /\ \A k \in 1 .. Len(m) : m[k] \in 0 .. base - 1
    BY LenProperties, ElementOfSeq
  <2>2. QED
    BY <2>1
<1>2. QED
  BY <1>1, IsASeq

(* The sum by halves of a range, from the sums h of other ranges.          *)
Halves(m) == (1 .. Len(m) + 1) \X (0 .. Len(m))

InHalves(base, m, h) ==
  [r \in Halves(m) |->
     LET middle == (r[1] + r[2]) \div 2
     IN  IF r[1] > r[2] THEN 0
         ELSE IF r[1] = r[2] THEN IF r[1] % 2 = 1 THEN m[r[1]] * base ELSE m[r[1]]
         ELSE h[<<r[1], middle>>] + h[<<middle + 1, r[2]>>]]

LEMMA SumOfSequence ==
  ASSUME NEW base \in Nat, NEW m \in Seq(Nat)
  PROVE  /\ \A k \in 0 .. Len(m) : SumTo(base, m)[k] \in Nat
         /\ \A k \in 1 .. Len(m) :
              /\ WordPart(base, m, k) \in Nat
              /\ WordPart(base, m, k) = IF k % 2 = 1 THEN m[k] * base ELSE m[k]
              /\ SumTo(base, m)[k] = SumTo(base, m)[k - 1] + WordPart(base, m, k)
<1>0. Len(m) \in Nat /\ DOMAIN m = 1 .. Len(m)
  BY LenProperties
<1>1. ASSUME NEW k \in 1 .. Len(m)
      PROVE  /\ WordPart(base, m, k) \in Nat
             /\ WordPart(base, m, k) = IF k % 2 = 1 THEN m[k] * base ELSE m[k]
             /\ SumTo(base, m)[k] = SumTo(base, m)[k - 1] + WordPart(base, m, k)
  <2>1. k \in Nat /\ k - 1 \in Nat /\ (k - 1) + 1 = k
    BY <1>0
  <2>2. WordPart(base, m, k) \in Nat
    BY <2>1, WordPartNat
  <2>3. SumTo(base, m)[(k - 1) + 1] = SumTo(base, m)[k - 1] + WordPart(base, m, (k - 1) + 1)
    BY <2>1, SumToSteps
  <2>4. WordPart(base, m, k) = IF k % 2 = 1 THEN m[k] * base ELSE m[k]
    BY <1>0 DEF WordPart
  <2>5. QED
    BY <2>1, <2>2, <2>3, <2>4
<1>2. \A k \in 0 .. Len(m) : SumTo(base, m)[k] \in Nat
  BY <1>0, SumToSteps
<1>3. QED
  BY <1>1, <1>2

LEMMA InHalvesAt ==
  ASSUME NEW base \in Nat, NEW m \in Seq(Nat), NEW h, NEW a \in 1 .. Len(m) + 1, NEW b \in 0 .. Len(m)
  PROVE  /\ a > b => InHalves(base, m, h)[<<a, b>>] = 0
         /\ a = b => InHalves(base, m, h)[<<a, b>>] = WordPart(base, m, a)
         /\ a < b => \A middle : middle = (a + b) \div 2 =>
              InHalves(base, m, h)[<<a, b>>] = h[<<a, middle>>] + h[<<middle + 1, b>>]
<1>0. Len(m) \in Nat /\ DOMAIN m = 1 .. Len(m)
  BY LenProperties
<1>1. \A r : r = <<a, b>> => r \in Halves(m) /\ r[1] = a /\ r[2] = b
  BY DEF Halves
<1>2. InHalves(base, m, h)[<<a, b>>] =
        IF a > b THEN 0
        ELSE IF a = b THEN IF a % 2 = 1 THEN m[a] * base ELSE m[a]
        ELSE h[<<a, (a + b) \div 2>>] + h[<<((a + b) \div 2) + 1, b>>]
  BY <1>1 DEF InHalves
<1>3. a = b => a \in 1 .. Len(m) /\ ~(a > b)
  BY <1>0
<1>4. a = b => WordPart(base, m, a) = IF a % 2 = 1 THEN m[a] * base ELSE m[a]
  BY <1>3, SumOfSequence
<1>5. a < b => ~(a > b) /\ a # b
  BY <1>0
<1>6. QED
  BY <1>1, <1>2, <1>3, <1>4, <1>5

LEMMA HalvesSum ==
  ASSUME NEW base \in Nat, NEW m \in Seq(Nat)
  PROVE  (CHOOSE h : h = InHalves(base, m, h))[<<1, Len(m)>>] = SumTo(base, m)[Len(m)]
<1> DEFINE L == Len(m)
           P == SumTo(base, m)
           W == [r \in Halves(m) |-> IF r[1] > r[2] THEN 0 ELSE P[r[2]] - P[r[1] - 1]]
<1>0. L \in Nat
  BY LenProperties
<1>1. /\ \A k \in 0 .. L : P[k] \in Nat
      /\ \A k \in 1 .. L : WordPart(base, m, k) \in Nat /\ P[k] = P[k - 1] + WordPart(base, m, k)
  BY SumOfSequence
<1> HIDE DEF P
<1>2. \A a \in 1 .. L + 1, b \in 0 .. L :
        W[<<a, b>>] = IF a > b THEN 0 ELSE P[b] - P[a - 1]
  BY DEF Halves
<1>3. \A r \in Halves(m) : r = <<r[1], r[2]>> /\ r[1] \in 1 .. L + 1 /\ r[2] \in 0 .. L
  BY DEF Halves
<1>4. W = [r \in Halves(m) |-> W[r]]
  OBVIOUS
<1> HIDE DEF W
<1>h. \A h : \A a \in 1 .. L + 1, b \in 0 .. L :
        /\ a > b => InHalves(base, m, h)[<<a, b>>] = 0
        /\ a = b => InHalves(base, m, h)[<<a, b>>] = WordPart(base, m, a)
        /\ a < b => \A middle : middle = (a + b) \div 2 =>
             InHalves(base, m, h)[<<a, b>>] = h[<<a, middle>>] + h[<<middle + 1, b>>]
  BY InHalvesAt
(* W meets the equation of the recursion ...                               *)
<1>5. \A h : h = W => h = InHalves(base, m, h)
  <2>1. ASSUME NEW a \in 1 .. L + 1, NEW b \in 0 .. L
        PROVE  W[<<a, b>>] = InHalves(base, m, W)[<<a, b>>]
    <3>1. CASE a > b
      BY <1>0, <1>2, <3>1, <1>h
    <3>2. CASE a = b
      <4>1. a \in 1 .. L /\ a - 1 \in 0 .. L
        BY <1>0, <3>2
      <4>2. W[<<a, b>>] = P[a] - P[a - 1] /\ P[a] \in Nat /\ P[a - 1] \in Nat
        BY <1>0, <1>1, <1>2, <3>2, <4>1
      <4>3. InHalves(base, m, W)[<<a, b>>] = WordPart(base, m, a)
        BY <1>h, <3>2
      <4>4. QED
        BY <1>1, <4>1, <4>2, <4>3
    <3>3. CASE a < b
      <4>1. PICK middle \in Int : middle = (a + b) \div 2
        BY <1>0
      <4>2. middle >= a /\ middle + 1 <= b
        BY <1>0, <3>3, <4>1
      <4>3. InHalves(base, m, W)[<<a, b>>] = W[<<a, middle>>] + W[<<middle + 1, b>>]
        BY <3>3, <4>1, <1>h
      <4>4. /\ middle \in 0 .. L /\ middle + 1 \in 1 .. L + 1 /\ a - 1 \in 0 .. L
            /\ (middle + 1) - 1 = middle
        BY <1>0, <3>3, <4>2
      <4>5. W[<<a, middle>>] = P[middle] - P[a - 1]
        BY <1>2, <4>2, <4>4
      <4>6. W[<<middle + 1, b>>] = P[b] - P[middle]
        BY <1>2, <4>2, <4>4
      <4>7. W[<<a, b>>] = P[b] - P[a - 1]
        BY <1>2, <3>3
      <4>8. P[middle] \in Nat /\ P[a - 1] \in Nat /\ P[b] \in Nat
        BY <1>1, <4>4
      <4>9. QED
        BY <4>3, <4>5, <4>6, <4>7, <4>8
    <3>4. QED
      BY <1>0, <3>1, <3>2, <3>3
  <2>2. \A r \in Halves(m) : W[r] = InHalves(base, m, W)[r]
    BY <1>3, <2>1
  <2>3. InHalves(base, m, W) = [r \in Halves(m) |-> InHalves(base, m, W)[r]]
    BY DEF InHalves
  <2>4. QED
    BY <1>4, <2>2, <2>3
(* ... and whatever meets it is the sum of the bytes of a range.           *)
<1>6. ASSUME NEW h, h = InHalves(base, m, h)
      PROVE  \A n \in Nat : \A a \in 1 .. L + 1, b \in 0 .. L :
               b - a < n => h[<<a, b>>] = W[<<a, b>>]
  <2> DEFINE T == {n \in Nat : \A a \in 1 .. L + 1, b \in 0 .. L :
                                 b - a < n => h[<<a, b>>] = W[<<a, b>>]}
  <2>0. \A a \in 1 .. L + 1, b \in 0 .. L : b <= a => h[<<a, b>>] = W[<<a, b>>]
    <3> SUFFICES ASSUME NEW a \in 1 .. L + 1, NEW b \in 0 .. L, b <= a
                 PROVE  h[<<a, b>>] = W[<<a, b>>]
      OBVIOUS
    <3>1. CASE a > b
      BY <1>0, <1>2, <1>6, <3>1, <1>h
    <3>2. CASE a = b
      <4>1. a \in 1 .. L /\ a - 1 \in 0 .. L
        BY <1>0, <3>2
      <4>2. W[<<a, b>>] = P[a] - P[a - 1] /\ P[a] \in Nat /\ P[a - 1] \in Nat
        BY <1>0, <1>1, <1>2, <3>2, <4>1
      <4>3. h[<<a, b>>] = WordPart(base, m, a)
        BY <1>h, <1>6, <3>2
      <4>4. QED
        BY <1>1, <4>1, <4>2, <4>3
    <3>3. QED
      BY <1>0, <3>1, <3>2
  <2>1. 0 \in T
    BY <1>0, <2>0
  <2>2. ASSUME NEW n \in Nat, n \in T PROVE n + 1 \in T
    <3> SUFFICES ASSUME NEW a \in 1 .. L + 1, NEW b \in 0 .. L, b - a < n + 1
                 PROVE  h[<<a, b>>] = W[<<a, b>>]
      OBVIOUS
    <3>1. CASE a < b
      <4>1. PICK middle \in Int : middle = (a + b) \div 2
        BY <1>0
      <4>2. middle >= a /\ middle + 1 <= b /\ middle - a < n /\ b - (middle + 1) < n
        BY <1>0, <3>1, <4>1
      <4>3. \A k : k = h => k[<<a, b>>] = h[<<a, middle>>] + h[<<middle + 1, b>>]
        <5>1. InHalves(base, m, h)[<<a, b>>] = h[<<a, middle>>] + h[<<middle + 1, b>>]
          BY <3>1, <4>1, <1>h
        <5>2. QED
          BY <1>6, <5>1
      <4>4. \A k : k = W => k[<<a, b>>] = W[<<a, middle>>] + W[<<middle + 1, b>>]
        BY <1>0, <1>5, <3>1, <4>1, <1>h
      <4>5. middle \in 0 .. L /\ middle + 1 \in 1 .. L + 1
        BY <1>0, <3>1, <4>2
      <4>6. /\ h[<<a, middle>>] = W[<<a, middle>>]
            /\ h[<<middle + 1, b>>] = W[<<middle + 1, b>>]
        BY <2>2, <4>2, <4>5
      <4>7. QED
        BY <4>3, <4>4, <4>6
    <3>2. QED
      BY <1>0, <2>0, <3>1
  <2> HIDE DEF T
  <2>3. \A n \in Nat : n \in T
    BY <2>1, <2>2, Induction
  <2>4. QED
    BY <2>3 DEF T
<1>7. (CHOOSE h : h = InHalves(base, m, h)) = InHalves(base, m, CHOOSE h : h = InHalves(base, m, h))
  BY <1>5
<1>8. 1 \in 1 .. L + 1 /\ L \in 0 .. L /\ L + 1 \in Nat /\ L - 1 < L + 1
  BY <1>0
<1>9. (CHOOSE h : h = InHalves(base, m, h))[<<1, L>>] = W[<<1, L>>]
  BY <1>6, <1>7, <1>8
<1>10. W[<<1, L>>] = P[L]
  <2>1. P[0] = 0
    BY SumToSteps DEF P
  <2>2. QED
    BY <1>0, <1>1, <1>2, <1>8, <2>1
<1>11. QED
  BY <1>9, <1>10 DEF P

(* Two sequences that agree from some place on have the same rest.         *)
LEMMA SameRest ==
  ASSUME NEW base \in Nat, NEW m \in Seq(Nat), NEW o \in Seq(Nat), Len(o) = Len(m),
         NEW k \in 0 .. Len(m), \A j \in k + 1 .. Len(m) : o[j] = m[j]
  PROVE  \E rest \in Nat : /\ SumTo(base, m)[Len(m)] = SumTo(base, m)[k] + rest
                           /\ SumTo(base, o)[Len(o)] = SumTo(base, o)[k] + rest
<1> DEFINE L == Len(m)
           P == SumTo(base, m)
           Q == SumTo(base, o)
           T == {d \in Nat : k + d <= L =>
                   \E rest \in Nat : P[k + d] = P[k] + rest /\ Q[k + d] = Q[k] + rest}
<1>0. L \in Nat /\ DOMAIN m = 1 .. L /\ DOMAIN o = 1 .. L /\ k \in Nat /\ k <= L
  BY LenProperties
<1>1. /\ \A j \in 0 .. L : P[j] \in Nat /\ Q[j] \in Nat
      /\ \A j \in 1 .. L : /\ WordPart(base, m, j) \in Nat
                         /\ P[j] = P[j - 1] + WordPart(base, m, j)
                         /\ Q[j] = Q[j - 1] + WordPart(base, o, j)
  BY SumOfSequence
<1>2. \A j \in k + 1 .. L : WordPart(base, o, j) = WordPart(base, m, j)
  <2>1. \A j \in k + 1 .. L : j \in DOMAIN m /\ j \in DOMAIN o /\ o[j] = m[j]
    BY <1>0
  <2>2. QED
    BY <2>1 DEF WordPart
<1> HIDE DEF P, Q
<1>3. 0 \in T
  <2>1. P[k] = P[k] + 0 /\ Q[k] = Q[k] + 0 /\ k + 0 = k
    BY <1>0, <1>1
  <2>2. QED
    BY <2>1
<1>4. ASSUME NEW d \in Nat, d \in T PROVE d + 1 \in T
  <2> SUFFICES ASSUME k + (d + 1) <= L
               PROVE  \E rest \in Nat : /\ P[k + (d + 1)] = P[k] + rest
                                       /\ Q[k + (d + 1)] = Q[k] + rest
    OBVIOUS
  <2>1. PICK j \in Nat : j = k + (d + 1) /\ j - 1 = k + d /\ j \in 1 .. L /\ j \in k + 1 .. L
    BY <1>0
  <2>2. PICK rest \in Nat : P[j - 1] = P[k] + rest /\ Q[j - 1] = Q[k] + rest
    BY <1>0, <1>4, <2>1
  <2>3. PICK w \in Nat : w = WordPart(base, m, j)
    BY <1>1, <2>1
  <2>4. P[j] = P[k] + (rest + w) /\ Q[j] = Q[k] + (rest + w)
    <3>1. P[j] = P[j - 1] + w /\ Q[j] = Q[j - 1] + w
      BY <1>1, <1>2, <2>1, <2>3
    <3>2. PICK x \in Nat, y \in Nat : x = P[k] /\ y = Q[k]
      BY <1>0, <1>1
    <3>3. P[j] = (x + rest) + w /\ Q[j] = (y + rest) + w
      BY <2>2, <3>1, <3>2
    <3>4. P[j] = x + (rest + w) /\ Q[j] = y + (rest + w)
      BY <3>3
    <3>5. QED
      BY <3>2, <3>4
  <2>5. QED
    BY <2>1, <2>4
<1> HIDE DEF T
<1>5. L - k \in Nat /\ k + (L - k) = L
  BY <1>0
<1>6. \A d \in Nat : d \in T
  BY <1>3, <1>4, Induction
<1>7. \E rest \in Nat : P[L] = P[k] + rest /\ Q[L] = Q[k] + rest
  <2>1. PICK d \in Nat : d = L - k /\ k + d = L /\ k + d <= L
    BY <1>0, <1>5
  <2>2. d \in T
    BY <1>6
  <2> HIDE DEF L
  <2>3. QED
    BY <2>1, <2>2 DEF T
<1>8. QED
  BY <1>7 DEF P, Q

-----------------------------------------------------------------------------
(* Division with remainder.                                                *)

LEMMA Division ==
  ASSUME NEW a \in Int, NEW b \in Nat, b > 0
  PROVE  /\ a \div b \in Int /\ a % b \in 0 .. b - 1
         /\ a = b * (a \div b) + (a % b)
OBVIOUS

LEMMA RemainderUnique ==
  ASSUME NEW b \in Nat, b > 0, NEW q \in Int, NEW r \in 0 .. b - 1,
         NEW x \in Int, x = b * q + r
  PROVE  x \div b = q /\ x % b = r
OBVIOUS
=============================================================================
