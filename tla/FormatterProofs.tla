--------------------------- MODULE FormatterProofs ---------------------------
(***************************************************************************)
(* The formatter writes a fingerprint whole or not at all, and the parser  *)
(* of the search reads every line it completes as the fields that were     *)
(* written: whichever are left out, whatever their values, and for a buffer*)
(* of any size.                                                            *)
(***************************************************************************)
EXTENDS TextProofs

-----------------------------------------------------------------------------
(* Sums.                                                                   *)

(* The sum of the first n numbers.                                         *)
Summing(numbers, f) == [n \in 0 .. Len(numbers) |-> IF n = 0 THEN 0 ELSE f[n - 1] + numbers[n]]
Summed(numbers)     == CHOOSE f : f = Summing(numbers, f)

LEMMA SumIsSummed == ASSUME NEW s PROVE SumOf(s) = Summed(s)[Len(s)]
BY Zenon DEF SumOf, Summing, Summed

LEMMA SumSteps ==
  ASSUME NEW s \in Seq(Nat)
  PROVE  /\ Summed(s)[0] = 0
         /\ \A n \in Nat : n < Len(s) => Summed(s)[n + 1] = Summed(s)[n] + s[n + 1]
         /\ \A n \in 0 .. Len(s) : Summed(s)[n] \in Nat
<1> DEFINE S == Nat
           c == 0
           g == [x \in Nat \X S |-> IF x[1] + 1 \in 1 .. Len(s) THEN x[2] + s[x[1] + 1] ELSE x[2]]
<1>1. Len(s) \in Nat /\ \A n \in 1 .. Len(s) : s[n] \in Nat
  BY ElementOfSeq
<1>2. \A j \in Nat, t \in S : g[<<j, t>>] = IF j + 1 \in 1 .. Len(s) THEN t + s[j + 1] ELSE t
  OBVIOUS
<1>3. c \in S
  OBVIOUS
<1>4. g \in StepOn(S)
  <2>1. ASSUME NEW x \in Nat \X S
        PROVE  (IF x[1] + 1 \in 1 .. Len(s) THEN x[2] + s[x[1] + 1] ELSE x[2]) \in S
    <3>1. x[2] \in Nat
      OBVIOUS
    <3>2. QED
      BY <1>1, <3>1
  <2>2. QED
    BY <2>1 DEF StepOn
<1>5. S = Nat /\ c = 0
  OBVIOUS
<1> HIDE DEF g, S, c
<1>6. PICK f \in [Nat -> S] : f[0] = c /\ \A j \in Nat : f[j + 1] = g[<<j, f[j]>>]
  BY <1>3, <1>4, Recursion
<1> DEFINE h == [n \in 0 .. Len(s) |-> f[n]]
<1>7. \A j \in Nat : j < Len(s) => f[j + 1] = f[j] + s[j + 1]
  <2> SUFFICES ASSUME NEW j \in Nat, j < Len(s) PROVE f[j + 1] = f[j] + s[j + 1]
    OBVIOUS
  <2>1. j + 1 \in 1 .. Len(s) /\ f[j] \in S
    BY <1>1, <1>6
  <2>2. f[j + 1] = g[<<j, f[j]>>]
    BY <1>6
  <2>3. QED
    BY <1>2, <2>1, <2>2
<1>8. h = Summing(s, h)
  <2>1. ASSUME NEW n \in 0 .. Len(s)
        PROVE  h[n] = IF n = 0 THEN 0 ELSE h[n - 1] + s[n]
    <3>1. CASE n = 0
      BY <1>1, <1>5, <1>6, <3>1
    <3>2. CASE n # 0
      <4>1. PICK m \in Nat : n = m + 1 /\ n - 1 = m /\ m \in 0 .. Len(s) /\ m < Len(s)
        <5>1. n - 1 \in Nat /\ n = (n - 1) + 1 /\ n - 1 \in 0 .. Len(s) /\ n - 1 < Len(s)
          BY <1>1, <3>2
        <5>2. QED
          BY <5>1
      <4>2. f[n] = f[m] + s[n]
        BY <1>7, <4>1
      <4>3. h[n] = f[n] /\ h[n - 1] = f[m]
        BY <4>1
      <4>4. QED
        BY <3>2, <4>2, <4>3
    <3>3. QED
      BY <3>1, <3>2
  <2>2. QED
    BY <2>1 DEF Summing
<1> HIDE DEF h
<1>9. Summed(s) = Summing(s, Summed(s))
  BY <1>8 DEF Summed
<1> DEFINE u == Summed(s)
<1>10. \A n \in 0 .. Len(s) : u[n] = IF n = 0 THEN 0 ELSE u[n - 1] + s[n]
  BY <1>9 DEF Summing
<1> HIDE DEF u
<1>11. u[0] = 0
  BY <1>1, <1>10
<1>12. \A n \in Nat : n < Len(s) => u[n + 1] = u[n] + s[n + 1]
  <2> SUFFICES ASSUME NEW n \in Nat, n < Len(s) PROVE u[n + 1] = u[n] + s[n + 1]
    OBVIOUS
  <2>1. n + 1 \in 0 .. Len(s) /\ (n + 1) - 1 = n /\ n + 1 # 0
    BY <1>1
  <2>2. QED
    BY <1>10, <2>1
<1> DEFINE T == {n \in Nat : n <= Len(s) => u[n] \in Nat}
<1>13. 0 \in T
  BY <1>11
<1>14. ASSUME NEW n \in Nat, n \in T PROVE n + 1 \in T
  <2> SUFFICES ASSUME n + 1 <= Len(s) PROVE u[n + 1] \in Nat
    OBVIOUS
  <2>1. n < Len(s) /\ n <= Len(s) /\ n + 1 \in 1 .. Len(s)
    BY <1>1
  <2>2. u[n] \in Nat /\ s[n + 1] \in Nat /\ u[n + 1] = u[n] + s[n + 1]
    BY <1>1, <1>12, <1>14, <2>1
  <2>3. QED
    BY <2>2
<1> HIDE DEF T
<1>15. \A n \in Nat : n \in T
  BY <1>13, <1>14, Induction
<1>16. \A n \in 0 .. Len(s) : u[n] \in Nat
  BY <1>1, <1>15 DEF T
<1>17. QED
  BY <1>11, <1>12, <1>16 DEF u

LEMMA SumIsNat == ASSUME NEW s \in Seq(Nat) PROVE SumOf(s) \in Nat
<1>1. Len(s) \in 0 .. Len(s)
  OBVIOUS
<1>2. QED
  BY <1>1, SumSteps, SumIsSummed

(* Greater numbers have a greater sum.                                     *)
LEMMA SumGrows ==
  ASSUME NEW s \in Seq(Nat), NEW t \in Seq(Nat), Len(s) = Len(t),
         \A k \in 1 .. Len(s) : s[k] <= t[k]
  PROVE  SumOf(s) <= SumOf(t)
<1> DEFINE T == {n \in Nat : n <= Len(s) => Summed(s)[n] <= Summed(t)[n]}
<1>1. Len(s) \in Nat
  OBVIOUS
<1>2. 0 \in T
  BY SumSteps
<1>3. ASSUME NEW n \in Nat, n \in T PROVE n + 1 \in T
  <2> SUFFICES ASSUME n + 1 <= Len(s) PROVE Summed(s)[n + 1] <= Summed(t)[n + 1]
    OBVIOUS
  <2>1. n < Len(s) /\ n \in 0 .. Len(s) /\ n + 1 \in 1 .. Len(s) /\ n <= Len(s)
    BY <1>1
  <2>2. Summed(s)[n + 1] = Summed(s)[n] + s[n + 1] /\ Summed(t)[n + 1] = Summed(t)[n] + t[n + 1]
    BY <2>1, SumSteps
  <2>3. Summed(s)[n] \in Nat /\ Summed(t)[n] \in Nat /\ s[n + 1] \in Nat /\ t[n + 1] \in Nat
    BY <2>1, SumSteps, ElementOfSeq
  <2>4. Summed(s)[n] <= Summed(t)[n] /\ s[n + 1] <= t[n + 1]
    BY <1>3, <2>1
  <2>5. QED
    BY <2>2, <2>3, <2>4
<1> HIDE DEF T
<1>4. Len(s) \in T
  BY <1>1, <1>2, <1>3, Induction
<1>5. QED
  BY <1>1, <1>4, SumIsSummed DEF T

(* What comes later adds to the sum.                                       *)
LEMMA SumsInOrder ==
  ASSUME NEW s \in Seq(Nat), NEW m \in Nat, NEW n \in Nat, m <= n, n <= Len(s)
  PROVE  Summed(s)[m] <= Summed(s)[n] /\ Summed(s)[m] \in Nat /\ Summed(s)[n] \in Nat
<1> DEFINE T == {d \in Nat : m + d <= Len(s) => Summed(s)[m] <= Summed(s)[m + d]}
<1>1. Len(s) \in Nat /\ m \in 0 .. Len(s) /\ n \in 0 .. Len(s)
  OBVIOUS
<1>2. Summed(s)[m] \in Nat /\ Summed(s)[n] \in Nat
  BY <1>1, SumSteps
<1>3. 0 \in T
  BY <1>2
<1>4. ASSUME NEW d \in Nat, d \in T PROVE d + 1 \in T
  <2> SUFFICES ASSUME m + (d + 1) <= Len(s) PROVE Summed(s)[m] <= Summed(s)[m + (d + 1)]
    OBVIOUS
  <2>1. PICK k \in Nat : k = m + d /\ k + 1 = m + (d + 1)
    OBVIOUS
  <2>2. k < Len(s) /\ k \in 0 .. Len(s) /\ k + 1 \in 1 .. Len(s) /\ k <= Len(s)
    BY <1>1, <2>1
  <2>3. Summed(s)[k + 1] = Summed(s)[k] + s[k + 1]
    BY <2>2, SumSteps
  <2>4. Summed(s)[k] \in Nat /\ s[k + 1] \in Nat
    BY <2>2, SumSteps, ElementOfSeq
  <2>5. Summed(s)[m] <= Summed(s)[k]
    BY <1>4, <2>1, <2>2
  <2>6. QED
    BY <1>2, <2>1, <2>3, <2>4, <2>5
<1> HIDE DEF T
<1>5. PICK d \in Nat : n = m + d
  <2>1. n - m \in Nat /\ n = m + (n - m)
    OBVIOUS
  <2>2. QED
    BY <2>1
<1>6. d \in T
  BY <1>3, <1>4, Induction
<1>7. QED
  BY <1>2, <1>5, <1>6 DEF T

(* Two parts together sum to the sum of their sums.                        *)
LEMMA SumOfBoth ==
  ASSUME NEW s \in Seq(Nat), NEW t \in Seq(Nat)
  PROVE  SumOf(s \o t) = SumOf(s) + SumOf(t)
<1> DEFINE w == s \o t
           u == Summed(w)
<1>1. w \in Seq(Nat) /\ Len(w) = Len(s) + Len(t) /\ Len(s) \in Nat /\ Len(t) \in Nat
  BY ConcatProperties
<1>2. /\ \A k \in 1 .. Len(s) : w[k] = s[k]
      /\ \A k \in 1 .. Len(t) : w[Len(s) + k] = t[k]
  BY ConcatProperties
<1> HIDE DEF w
<1>3. u[0] = 0 /\ \A n \in Nat : n < Len(w) => u[n + 1] = u[n] + w[n + 1]
  BY <1>1, SumSteps
<1> DEFINE T == {n \in Nat : n <= Len(s) => u[n] = Summed(s)[n]}
           V == {n \in Nat : n <= Len(t) => u[Len(s) + n] = SumOf(s) + Summed(t)[n]}
<1> HIDE DEF u
<1>4. 0 \in T
  BY <1>3, SumSteps
<1>5. ASSUME NEW n \in Nat, n \in T PROVE n + 1 \in T
  <2> SUFFICES ASSUME n + 1 <= Len(s) PROVE u[n + 1] = Summed(s)[n + 1]
    OBVIOUS
  <2>1. n < Len(s) /\ n <= Len(s) /\ n + 1 \in 1 .. Len(s) /\ n < Len(w)
    BY <1>1
  <2>2. Summed(s)[n + 1] = Summed(s)[n] + s[n + 1]
    BY <2>1, SumSteps
  <2>3. u[n + 1] = u[n] + s[n + 1]
    BY <1>2, <1>3, <2>1
  <2>4. QED
    BY <1>5, <2>1, <2>2, <2>3
<1> HIDE DEF T
<1>6. Len(s) \in T
  BY <1>1, <1>4, <1>5, Induction
<1>7. u[Len(s)] = SumOf(s)
  <2>1. Len(s) <= Len(s)
    BY <1>1
  <2>2. u[Len(s)] = Summed(s)[Len(s)]
    BY <1>6, <2>1 DEF T
  <2>3. QED
    BY <2>2, SumIsSummed
<1>8. 0 \in V
  <2>1. Len(s) + 0 = Len(s) /\ Summed(t)[0] = 0 /\ SumOf(s) + 0 = SumOf(s)
    BY <1>1, SumSteps, SumIsNat
  <2>2. QED
    BY <1>7, <2>1
<1>9. ASSUME NEW n \in Nat, n \in V PROVE n + 1 \in V
  <2> SUFFICES ASSUME n + 1 <= Len(t)
               PROVE  u[Len(s) + (n + 1)] = SumOf(s) + Summed(t)[n + 1]
    OBVIOUS
  <2>1. PICK k \in Nat : k = Len(s) + n /\ k + 1 = Len(s) + (n + 1)
    <3>1. Len(s) + n \in Nat /\ (Len(s) + n) + 1 = Len(s) + (n + 1)
      BY <1>1
    <3>2. QED
      BY <3>1
  <2>2. n < Len(t) /\ n <= Len(t) /\ n + 1 \in 1 .. Len(t) /\ k < Len(w) /\ n \in 0 .. Len(t)
    BY <1>1, <2>1
  <2>3. Summed(t)[n + 1] = Summed(t)[n] + t[n + 1]
    BY <2>2, SumSteps
  <2>4. u[k + 1] = u[k] + t[n + 1]
    <3>1. u[k + 1] = u[k] + w[k + 1]
      BY <1>3, <2>2
    <3>2. w[Len(s) + (n + 1)] = t[n + 1]
      BY <1>2, <2>2
    <3>3. QED
      BY <2>1, <3>1, <3>2
  <2>5. u[k] = SumOf(s) + Summed(t)[n]
    BY <1>9, <2>1, <2>2
  <2>6. SumOf(s) \in Nat /\ Summed(t)[n] \in Nat /\ t[n + 1] \in Nat
    BY <2>2, SumSteps, SumIsNat, ElementOfSeq
  <2>7. QED
    BY <2>1, <2>3, <2>4, <2>5, <2>6
<1> HIDE DEF V
<1>10. Len(t) \in V
  BY <1>1, <1>8, <1>9, Induction
<1>11. u[Len(s) + Len(t)] = SumOf(s) + SumOf(t)
  BY <1>1, <1>10, SumIsSummed DEF V
<1>12. SumOf(w) = u[Len(w)]
  BY SumIsSummed DEF u
<1>13. QED
  BY <1>1, <1>11, <1>12 DEF w

LEMMA FirstSums ==
  ASSUME NEW s \in Seq(Nat)
  PROVE  /\ Len(s) = 0 => SumOf(s) = 0
         /\ Len(s) = 1 => SumOf(s) = s[1]
         /\ Len(s) = 2 => SumOf(s) = s[1] + s[2]
         /\ Len(s) = 3 => SumOf(s) = s[1] + s[2] + s[3]
         /\ Len(s) = 4 => SumOf(s) = s[1] + s[2] + s[3] + s[4]
         /\ Len(s) = 7 => SumOf(s) = s[1] + s[2] + s[3] + s[4] + s[5] + s[6] + s[7]
         /\ Len(s) = 10 => SumOf(s) = s[1] + s[2] + s[3] + s[4] + s[5] + s[6] + s[7]
                                        + s[8] + s[9] + s[10]
<1> DEFINE u == Summed(s)
<1>1. u[0] = 0 /\ \A n \in Nat : n < Len(s) => u[n + 1] = u[n] + s[n + 1]
  BY SumSteps
<1>2. \A n \in 1 .. Len(s) : s[n] \in Nat
  BY ElementOfSeq
<1> HIDE DEF u
<1>3. SumOf(s) = u[Len(s)]
  BY SumIsSummed DEF u
<1>4. Len(s) \in Nat
  OBVIOUS
<1>5. /\ 0 < Len(s) => u[1] = s[1]
      /\ 1 < Len(s) => u[2] = u[1] + s[2]
      /\ 2 < Len(s) => u[3] = u[2] + s[3]
      /\ 3 < Len(s) => u[4] = u[3] + s[4]
      /\ 4 < Len(s) => u[5] = u[4] + s[5]
      /\ 5 < Len(s) => u[6] = u[5] + s[6]
      /\ 6 < Len(s) => u[7] = u[6] + s[7]
      /\ 7 < Len(s) => u[8] = u[7] + s[8]
      /\ 8 < Len(s) => u[9] = u[8] + s[9]
      /\ 9 < Len(s) => u[10] = u[9] + s[10]
  <2>1. 0 < Len(s) => u[0 + 1] = 0 + s[0 + 1] /\ s[1] \in Nat
    BY <1>1, <1>2, <1>4
  <2>2. \A n \in Nat : n < Len(s) => u[n + 1] = u[n] + s[n + 1]
    BY <1>1
  <2>3. QED
    BY <2>1, <2>2
<1>6. Len(s) = 0 => SumOf(s) = 0
  BY <1>1, <1>3
<1>7. /\ Len(s) = 1 => SumOf(s) = s[1]
      /\ Len(s) = 2 => SumOf(s) = s[1] + s[2]
      /\ Len(s) = 3 => SumOf(s) = s[1] + s[2] + s[3]
      /\ Len(s) = 4 => SumOf(s) = s[1] + s[2] + s[3] + s[4]
  <2>1. Len(s) = 1 => SumOf(s) = s[1]
    BY <1>3, <1>5
  <2>2. Len(s) = 2 => SumOf(s) = s[1] + s[2]
    BY <1>3, <1>5
  <2>3. Len(s) = 3 => SumOf(s) = s[1] + s[2] + s[3]
    BY <1>3, <1>5
  <2>4. Len(s) = 4 => SumOf(s) = s[1] + s[2] + s[3] + s[4]
    BY <1>3, <1>5
  <2>5. QED
    BY <2>1, <2>2, <2>3, <2>4
<1>8. Len(s) = 7 => SumOf(s) = s[1] + s[2] + s[3] + s[4] + s[5] + s[6] + s[7]
  BY <1>3, <1>5
<1>9. Len(s) = 10 => SumOf(s) = s[1] + s[2] + s[3] + s[4] + s[5] + s[6] + s[7]
                                  + s[8] + s[9] + s[10]
  BY <1>3, <1>5
<1>10. QED
  BY <1>6, <1>7, <1>8, <1>9

-----------------------------------------------------------------------------
(* The characters a piece takes at most.                                   *)

Most(name)     == Letters(name) + MaxWidth(name)
Mosts(names)   == [k \in DOMAIN names |-> Most(names[k])]
Longest(names) == 2 * Len(names) - 1 + SumOf(Mosts(names))

(* The line end belongs to the last piece of a line, its name to the first *)
(* one; where fields are left out the first one is not known in advance,   *)
(* and the close has room for the three letters of the name.               *)
Cost(p) ==
  IF p.op = "close" THEN 5
  ELSE Longest(p.names) + (IF p.op \in {"whole", "head"} THEN Letters(p.group) + 1 ELSE 1)
         + (IF p.op \in {"whole", "tail"} THEN 2 ELSE 0)

Costs(pieces) == [k \in DOMAIN pieces |-> Cost(pieces[k])]

Words == {"SEQ", "SP", "GCD", "ISR", "TI", "CI", "II", "SS", "TS",
          "OPS", "O1", "O2", "O3", "O4", "O5", "O6", "WIN", "W1", "W2", "W3", "W4", "W5", "W6",
          "ECN", "R", "DF", "T", "TG", "W", "O", "CC", "Q", "S", "A", "F", "RD",
          "T1", "T2", "T3", "T4", "T5", "T6", "T7",
          "U1", "IPL", "UN", "RIPL", "RID", "RIPCK", "RUCK", "RUD", "IE", "DFI", "CD"}

GoodPieces ==
  {p \in [op : {"optional", "close", "whole", "head", "middle", "tail"},
          group : Words, names : Seq(Words)] :
     /\ p.op = "optional" => Letters(p.group) = 3
     /\ p.op # "close" => Len(p.names) >= 1
     /\ p.op \in {"whole", "head"} => Len(p.names) >= 3}

LEMMA Widest ==
  ASSUME NEW name
  PROVE  /\ Letters(name) \in Nat /\ Letters(name) >= 1
         /\ MaxWidth(name) \in Nat /\ MinWidth(name) \in Nat
         /\ MinWidth(name) <= MaxWidth(name) /\ Most(name) \in Nat
<1>1. Letters(name) \in Nat /\ Letters(name) >= 1
  BY DEF Letters
<1>2. MaxWidth(name) \in Nat /\ MinWidth(name) \in Nat /\ MinWidth(name) <= MaxWidth(name)
  BY CapacityAssumption DEF MaxWidth, MinWidth
<1>3. QED
  BY <1>1, <1>2 DEF Most

LEMMA MostsAreNumbers ==
  ASSUME NEW names \in Seq(Words)
  PROVE  /\ Mosts(names) \in Seq(Nat) /\ Len(Mosts(names)) = Len(names)
         /\ \A k \in 1 .. Len(names) : Mosts(names)[k] = Most(names[k])
<1>1. DOMAIN names = 1 .. Len(names) /\ Len(names) \in Nat
  OBVIOUS
<1>2. Mosts(names) \in [1 .. Len(names) -> Nat]
  BY <1>1, Widest DEF Mosts
<1>3. QED
  BY <1>1, <1>2 DEF Mosts

LEMMA LongestIs ==
  /\ \A a \in Words : Longest(<<a>>) = 1 + Most(a)
  /\ \A a \in Words, b \in Words : Longest(<<a, b>>) = 3 + Most(a) + Most(b)
  /\ \A a \in Words, b \in Words, c \in Words :
       Longest(<<a, b, c>>) = 5 + Most(a) + Most(b) + Most(c)
<1>1. ASSUME NEW a \in Words PROVE Longest(<<a>>) = 1 + Most(a)
  <2> DEFINE s == <<a>>
  <2>1. s \in Seq(Words) /\ Len(s) = 1 /\ s[1] = a
    OBVIOUS
  <2> HIDE DEF s
  <2>2. Mosts(s) \in Seq(Nat) /\ Len(Mosts(s)) = 1 /\ Mosts(s)[1] = Most(a)
    BY <2>1, MostsAreNumbers
  <2>3. SumOf(Mosts(s)) = Most(a)
    BY <2>2, FirstSums
  <2>4. Most(a) \in Nat
    BY Widest
  <2>5. Longest(s) = 1 + Most(a)
    <3>1. Longest(s) = 2 * Len(s) - 1 + SumOf(Mosts(s))
      BY DEF Longest
    <3>2. QED
      BY <2>1, <2>3, <2>4, <3>1
  <2>6. QED
    BY <2>5 DEF s
<1>2. ASSUME NEW a \in Words, NEW b \in Words
      PROVE  Longest(<<a, b>>) = 3 + Most(a) + Most(b)
  <2> DEFINE s == <<a, b>>
  <2>1. s \in Seq(Words) /\ Len(s) = 2 /\ s[1] = a /\ s[2] = b
    OBVIOUS
  <2> HIDE DEF s
  <2>2. /\ Mosts(s) \in Seq(Nat) /\ Len(Mosts(s)) = 2
        /\ Mosts(s)[1] = Most(a) /\ Mosts(s)[2] = Most(b)
    BY <2>1, MostsAreNumbers
  <2>3. SumOf(Mosts(s)) = Most(a) + Most(b)
    BY <2>2, FirstSums
  <2>4. Most(a) \in Nat /\ Most(b) \in Nat
    BY Widest
  <2>5. Longest(s) = 3 + Most(a) + Most(b)
    <3>1. Longest(s) = 2 * Len(s) - 1 + SumOf(Mosts(s))
      BY DEF Longest
    <3>2. QED
      BY <2>1, <2>3, <2>4, <3>1
  <2>6. QED
    BY <2>5 DEF s
<1>3. ASSUME NEW a \in Words, NEW b \in Words, NEW c \in Words
      PROVE  Longest(<<a, b, c>>) = 5 + Most(a) + Most(b) + Most(c)
  <2> DEFINE s == <<a, b, c>>
  <2>1. s \in Seq(Words) /\ Len(s) = 3 /\ s[1] = a /\ s[2] = b /\ s[3] = c
    OBVIOUS
  <2> HIDE DEF s
  <2>2. /\ Mosts(s) \in Seq(Nat) /\ Len(Mosts(s)) = 3
        /\ Mosts(s)[1] = Most(a) /\ Mosts(s)[2] = Most(b) /\ Mosts(s)[3] = Most(c)
    BY <2>1, MostsAreNumbers
  <2>3. SumOf(Mosts(s)) = Most(a) + Most(b) + Most(c)
    BY <2>2, FirstSums
  <2>4. Most(a) \in Nat /\ Most(b) \in Nat /\ Most(c) \in Nat
    BY Widest
  <2>5. Longest(s) = 5 + Most(a) + Most(b) + Most(c)
    <3>1. Longest(s) = 2 * Len(s) - 1 + SumOf(Mosts(s))
      BY DEF Longest
    <3>2. QED
      BY <2>1, <2>3, <2>4, <3>1
  <2>6. QED
    BY <2>5 DEF s
<1>4. QED
  BY <1>1, <1>2, <1>3

LEMMA LongestIsNat ==
  ASSUME NEW names \in Seq(Words), Len(names) >= 1
  PROVE  Longest(names) \in Nat /\ Longest(names) >= 2 * Len(names) - 1
<1>1. SumOf(Mosts(names)) \in Nat
  BY MostsAreNumbers, SumIsNat
<1>2. Len(names) \in Nat
  OBVIOUS
<1>3. QED
  BY <1>1, <1>2 DEF Longest

LEMMA CostIsNat == ASSUME NEW p \in GoodPieces PROVE Cost(p) \in Nat
<1>1. p.names \in Seq(Words) /\ (p.op # "close" => Len(p.names) >= 1)
  BY DEF GoodPieces
<1>2. Letters(p.group) \in Nat
  BY Widest
<1>3. p.op # "close" => Longest(p.names) \in Nat
  BY <1>1, LongestIsNat
<1>4. QED
  BY <1>2, <1>3 DEF Cost

LEMMA CostsAreNumbers ==
  ASSUME NEW s \in Seq(GoodPieces)
  PROVE  /\ Costs(s) \in Seq(Nat) /\ Len(Costs(s)) = Len(s)
         /\ \A k \in 1 .. Len(s) : Costs(s)[k] = Cost(s[k])
<1>1. \A k \in 1 .. Len(s) : s[k] \in GoodPieces
  BY ElementOfSeq
<1>2. DOMAIN s = 1 .. Len(s) /\ Len(s) \in Nat
  OBVIOUS
<1>3. Costs(s) \in [1 .. Len(s) -> Nat]
  BY <1>1, <1>2, CostIsNat DEF Costs
<1>4. QED
  BY <1>2, <1>3 DEF Costs

LEMMA PlacesOfBoth ==
  ASSUME NEW S, NEW s \in Seq(S), NEW t \in Seq(S)
  PROVE  /\ \A k \in 1 .. Len(s) : (s \o t)[k] = s[k]
         /\ \A k \in 1 .. Len(t) : (s \o t)[Len(s) + k] = t[k]
BY ConcatProperties

LEMMA CostOfBoth ==
  ASSUME NEW s \in Seq(GoodPieces), NEW t \in Seq(GoodPieces)
  PROVE  /\ s \o t \in Seq(GoodPieces)
         /\ SumOf(Costs(s \o t)) = SumOf(Costs(s)) + SumOf(Costs(t))
<1> DEFINE w == s \o t
<1>1. w \in Seq(GoodPieces) /\ Len(w) = Len(s) + Len(t) /\ Len(s) \in Nat /\ Len(t) \in Nat
  BY ConcatProperties
<1>2. /\ \A k \in 1 .. Len(s) : w[k] = s[k]
      /\ \A k \in 1 .. Len(t) : w[Len(s) + k] = t[k]
  BY ConcatProperties
<1> HIDE DEF w
<1> DEFINE v == Costs(s) \o Costs(t)
<1>3. /\ Costs(s) \in Seq(Nat) /\ Costs(t) \in Seq(Nat) /\ Costs(w) \in Seq(Nat)
      /\ Len(Costs(s)) = Len(s) /\ Len(Costs(t)) = Len(t) /\ Len(Costs(w)) = Len(w)
  BY <1>1, CostsAreNumbers
<1>4. /\ v \in Seq(Nat) /\ Len(v) = Len(w)
      /\ \A k \in 1 .. Len(s) : v[k] = Costs(s)[k]
      /\ \A k \in 1 .. Len(t) : v[Len(s) + k] = Costs(t)[k]
  <2> DEFINE a == Costs(s)
             b == Costs(t)
  <2>1. a \in Seq(Nat) /\ b \in Seq(Nat) /\ Len(a) = Len(s) /\ Len(b) = Len(t)
    BY <1>3
  <2> HIDE DEF a, b
  <2>2. a \o b \in Seq(Nat) /\ Len(a \o b) = Len(a) + Len(b)
    BY <2>1, ConcatProperties
  <2>3. /\ \A k \in 1 .. Len(a) : (a \o b)[k] = a[k]
        /\ \A k \in 1 .. Len(b) : (a \o b)[Len(a) + k] = b[k]
    BY <2>1, ConcatProperties
  <2>4. QED
    BY <1>1, <2>1, <2>2, <2>3 DEF a, b
<1> HIDE DEF v
<1>5. ASSUME NEW k \in 1 .. Len(w) PROVE Costs(w)[k] = v[k]
  <2>1. Costs(w)[k] = Cost(w[k])
    BY <1>1, CostsAreNumbers
  <2>2. CASE k <= Len(s)
    <3>1. k \in 1 .. Len(s)
      BY <1>1, <2>2
    <3>2. Costs(s)[k] = Cost(s[k])
      BY <3>1, CostsAreNumbers
    <3>3. QED
      BY <1>2, <1>4, <2>1, <3>1, <3>2
  <2>3. CASE k > Len(s)
    <3>1. PICK j \in 1 .. Len(t) : k = Len(s) + j
      <4>1. k - Len(s) \in 1 .. Len(t) /\ k = Len(s) + (k - Len(s))
        BY <1>1, <2>3
      <4>2. QED
        BY <4>1
    <3>2. Costs(t)[j] = Cost(t[j])
      BY CostsAreNumbers
    <3>3. QED
      BY <1>2, <1>4, <2>1, <3>1, <3>2
  <2>4. QED
    BY <1>1, <2>2, <2>3
<1>6. Costs(w) = v
  BY <1>3, <1>4, <1>5, SeqEqual
<1>7. SumOf(v) = SumOf(Costs(s)) + SumOf(Costs(t))
  BY <1>3, SumOfBoth DEF v
<1>8. QED
  BY <1>1, <1>6, <1>7 DEF w

-----------------------------------------------------------------------------
(* The sections of the fingerprint.                                        *)

LEMMA OptionalPiece ==
  ASSUME NEW group \in Words, NEW names \in Seq(Words), Letters(group) = 3, Len(names) >= 1
  PROVE  /\ Optional(group, names) \in GoodPieces
         /\ Cost(Optional(group, names)) = Longest(names) + 1
<1>1. Longest(names) \in Nat
  BY LongestIsNat
<1>2. Cost(Optional(group, names)) = Longest(names) + 1 + 0
  BY DEF Cost, Optional
<1>3. Optional(group, names) \in GoodPieces
  BY DEF Optional, GoodPieces
<1>4. QED
  BY <1>1, <1>2, <1>3

LEMMA ClosingPiece ==
  ASSUME NEW group \in Words
  PROVE  Close(group) \in GoodPieces /\ Cost(Close(group)) = 5
<1>1. <<>> \in Seq(Words)
  OBVIOUS
<1>2. QED
  BY <1>1 DEF Close, Cost, GoodPieces

LEMMA PartPiece ==
  ASSUME NEW op \in {"whole", "head", "middle", "tail"}, NEW group \in Words,
         NEW names \in Seq(Words), Len(names) >= 1,
         op \in {"whole", "head"} => Len(names) >= 3
  PROVE  /\ Part(op, group, names) \in GoodPieces
         /\ op = "whole"  => Cost(Part(op, group, names)) = Longest(names) + Letters(group) + 3
         /\ op = "head"   => Cost(Part(op, group, names)) = Longest(names) + Letters(group) + 1
         /\ op = "middle" => Cost(Part(op, group, names)) = Longest(names) + 1
         /\ op = "tail"   => Cost(Part(op, group, names)) = Longest(names) + 3
<1>1. Longest(names) \in Nat /\ Letters(group) \in Nat
  BY LongestIsNat, Widest
<1>2. Part(op, group, names) \in GoodPieces
  BY DEF Part, GoodPieces
<1>3. op = "whole" => Cost(Part(op, group, names)) = Longest(names) + Letters(group) + 3
  BY <1>1 DEF Part, Cost
<1>4. op = "head" => Cost(Part(op, group, names)) = Longest(names) + Letters(group) + 1
  BY <1>1 DEF Part, Cost
<1>5. op = "middle" => Cost(Part(op, group, names)) = Longest(names) + 1
  BY <1>1 DEF Part, Cost
<1>6. op = "tail" => Cost(Part(op, group, names)) = Longest(names) + 3
  BY <1>1 DEF Part, Cost
<1>7. QED
  BY <1>2, <1>3, <1>4, <1>5, <1>6

(* Sections of seven pieces.                                               *)
LEMMA SevenPieces ==
  ASSUME NEW s \in Seq(GoodPieces), Len(s) = 7
  PROVE  SumOf(Costs(s)) = Cost(s[1]) + Cost(s[2]) + Cost(s[3]) + Cost(s[4])
                             + Cost(s[5]) + Cost(s[6]) + Cost(s[7])
<1>1. Costs(s) \in Seq(Nat) /\ Len(Costs(s)) = 7
  BY CostsAreNumbers
<1>2. SumOf(Costs(s)) = Costs(s)[1] + Costs(s)[2] + Costs(s)[3] + Costs(s)[4]
                          + Costs(s)[5] + Costs(s)[6] + Costs(s)[7]
  BY <1>1, FirstSums
<1>3. \A k \in 1 .. 7 : Costs(s)[k] = Cost(s[k])
  BY CostsAreNumbers
<1>4. QED
  BY <1>2, <1>3

LEMMA OnePiece ==
  ASSUME NEW p \in GoodPieces
  PROVE  <<p>> \in Seq(GoodPieces) /\ SumOf(Costs(<<p>>)) = Cost(p)
<1> DEFINE s == <<p>>
<1>1. s \in Seq(GoodPieces) /\ Len(s) = 1 /\ s[1] = p
  OBVIOUS
<1> HIDE DEF s
<1>2. Costs(s) \in Seq(Nat) /\ Len(Costs(s)) = 1 /\ Costs(s)[1] = Cost(p)
  BY <1>1, CostsAreNumbers
<1>3. SumOf(Costs(s)) = Cost(p)
  BY <1>2, FirstSums
<1>4. QED
  BY <1>1, <1>3 DEF s

LEMMA OneName ==
  ASSUME NEW a \in Words
  PROVE  <<a>> \in Seq(Words) /\ Len(<<a>>) = 1 /\ Longest(<<a>>) = 1 + Most(a)
<1>1. <<a>> \in Seq(Words) /\ Len(<<a>>) = 1
  OBVIOUS
<1>2. QED
  BY <1>1, LongestIs

LEMMA OptionalName ==
  ASSUME NEW group \in Words, Letters(group) = 3, NEW a \in Words
  PROVE  Optional(group, <<a>>) \in GoodPieces /\ Cost(Optional(group, <<a>>)) = Most(a) + 2
<1>1. <<a>> \in Seq(Words) /\ Len(<<a>>) >= 1 /\ Longest(<<a>>) = 1 + Most(a) /\ Most(a) \in Nat
  BY OneName, Widest
<1>2. Optional(group, <<a>>) \in GoodPieces
  BY <1>1, OptionalPiece
<1>3. Cost(Optional(group, <<a>>)) = Longest(<<a>>) + 1
  BY <1>1, OptionalPiece
<1>4. QED
  BY <1>1, <1>2, <1>3

LEMMA SeqSection ==
  format_seq \in Seq(GoodPieces) /\ SumOf(Costs(format_seq)) = 84
<1>1. /\ "SEQ" \in Words /\ "SP" \in Words /\ "GCD" \in Words /\ "ISR" \in Words
      /\ "TI" \in Words /\ "CI" \in Words /\ "II" \in Words /\ "SS" \in Words /\ "TS" \in Words
  BY DEF Words
<1>2. Letters("SEQ") = 3
  BY DEF Letters
<1>3. /\ Most("SP") = 10 /\ Most("GCD") = 11 /\ Most("ISR") = 11
      /\ Most("TI") = 6 /\ Most("CI") = 6 /\ Most("II") = 6
      /\ Most("SS") = 3 /\ Most("TS") = 10
  BY DEF Most, Letters, MaxWidth
<1> DEFINE metrics == Optional("SEQ", <<"SP", "GCD", "ISR">>)
<1>4. metrics \in GoodPieces /\ Cost(metrics) = 38
  <2> DEFINE n == <<"SP", "GCD", "ISR">>
  <2>1. n \in Seq(Words) /\ Len(n) = 3
    BY <1>1
  <2>2. Longest(n) = 37
    BY <1>1, <1>3, LongestIs
  <2> HIDE DEF n
  <2>3. Optional("SEQ", n) \in GoodPieces /\ Cost(Optional("SEQ", n)) = Longest(n) + 1
    <3>1. Len(n) >= 1
      BY <2>1
    <3>2. QED
      BY <1>1, <1>2, <2>1, <3>1, OptionalPiece
  <2>4. QED
    BY <2>2, <2>3 DEF n
<1>5. /\ Optional("SEQ", <<"TI">>) \in GoodPieces /\ Cost(Optional("SEQ", <<"TI">>)) = 8
      /\ Optional("SEQ", <<"CI">>) \in GoodPieces /\ Cost(Optional("SEQ", <<"CI">>)) = 8
      /\ Optional("SEQ", <<"II">>) \in GoodPieces /\ Cost(Optional("SEQ", <<"II">>)) = 8
      /\ Optional("SEQ", <<"SS">>) \in GoodPieces /\ Cost(Optional("SEQ", <<"SS">>)) = 5
      /\ Optional("SEQ", <<"TS">>) \in GoodPieces /\ Cost(Optional("SEQ", <<"TS">>)) = 12
  BY <1>1, <1>2, <1>3, OptionalName
<1>6. Close("SEQ") \in GoodPieces /\ Cost(Close("SEQ")) = 5
  BY <1>1, ClosingPiece
<1> DEFINE s == format_seq
<1>7. /\ s \in Seq(GoodPieces) /\ Len(s) = 7
      /\ s[1] = metrics /\ s[2] = Optional("SEQ", <<"TI">>) /\ s[3] = Optional("SEQ", <<"CI">>)
      /\ s[4] = Optional("SEQ", <<"II">>) /\ s[5] = Optional("SEQ", <<"SS">>)
      /\ s[6] = Optional("SEQ", <<"TS">>) /\ s[7] = Close("SEQ")
  <2> DEFINE p == Optional("SEQ", <<"TI">>)
             q == Optional("SEQ", <<"CI">>)
             r == Optional("SEQ", <<"II">>)
             t == Optional("SEQ", <<"SS">>)
             u == Optional("SEQ", <<"TS">>)
             v == Close("SEQ")
  <2>1. s = <<metrics, p, q, r, t, u, v>>
    BY DEF format_seq
  <2>2. /\ metrics \in GoodPieces /\ p \in GoodPieces /\ q \in GoodPieces /\ r \in GoodPieces
        /\ t \in GoodPieces /\ u \in GoodPieces /\ v \in GoodPieces
    BY <1>4, <1>5, <1>6
  <2> HIDE DEF metrics, p, q, r, t, u, v, s
  <2>3. <<metrics, p, q, r, t, u, v>> \in Seq(GoodPieces)
    BY <2>2
  <2>4. /\ s \in Seq(GoodPieces) /\ Len(s) = 7
        /\ s[1] = metrics /\ s[2] = p /\ s[3] = q /\ s[4] = r /\ s[5] = t /\ s[6] = u /\ s[7] = v
    BY <2>1, <2>3
  <2>5. QED
    BY <2>4 DEF p, q, r, t, u, v
<1> HIDE DEF metrics, s
<1>8. SumOf(Costs(s)) = Cost(s[1]) + Cost(s[2]) + Cost(s[3]) + Cost(s[4])
                          + Cost(s[5]) + Cost(s[6]) + Cost(s[7])
  BY <1>7, SevenPieces
<1>9. SumOf(Costs(s)) = 84
  BY <1>4, <1>5, <1>6, <1>7, <1>8
<1>10. QED
  BY <1>7, <1>9 DEF s

(* Six fields of one kind and the close.                                   *)
LEMMA SixAndClose ==
  ASSUME NEW group \in Words, Letters(group) = 3, NEW names, NEW m \in Nat,
         \A k \in 1 .. 6 : names[k] \in Words /\ Most(names[k]) = m
  PROVE  LET s == [k \in 1 .. 6 |-> Optional(group, <<names[k]>>)] \o <<Close(group)>>
         IN  s \in Seq(GoodPieces) /\ SumOf(Costs(s)) = 6 * m + 17
<1> DEFINE six  == [k \in 1 .. 6 |-> Optional(group, <<names[k]>>)]
           last == <<Close(group)>>
           s    == six \o last
<1>1. \A k \in 1 .. 6 : Optional(group, <<names[k]>>) \in GoodPieces
                          /\ Cost(Optional(group, <<names[k]>>)) = m + 2
  <2> SUFFICES ASSUME NEW k \in 1 .. 6
               PROVE  Optional(group, <<names[k]>>) \in GoodPieces
                        /\ Cost(Optional(group, <<names[k]>>)) = m + 2
    OBVIOUS
  <2>1. PICK a \in Words : a = names[k] /\ Most(a) = m
    OBVIOUS
  <2>2. Optional(group, <<a>>) \in GoodPieces /\ Cost(Optional(group, <<a>>)) = Most(a) + 2
    BY OptionalName
  <2>3. QED
    BY <2>1, <2>2
<1>2. Close(group) \in GoodPieces /\ Cost(Close(group)) = 5
  BY ClosingPiece
<1>3. /\ six \in Seq(GoodPieces) /\ Len(six) = 6
      /\ \A k \in 1 .. 6 : six[k] \in GoodPieces /\ Cost(six[k]) = m + 2
  <2>1. six \in [1 .. 6 -> GoodPieces]
    BY <1>1
  <2>2. \A n \in Nat : \A f \in [1 .. n -> GoodPieces] : f \in Seq(GoodPieces) /\ Len(f) = n
    OBVIOUS
  <2>3. \A k \in 1 .. 6 : six[k] \in GoodPieces /\ Cost(six[k]) = m + 2
    BY <1>1
  <2> HIDE DEF six
  <2>4. six \in Seq(GoodPieces) /\ Len(six) = 6
    BY <2>1, <2>2
  <2>5. QED
    BY <2>3, <2>4
<1>4. /\ last \in Seq(GoodPieces) /\ Len(last) = 1 /\ last[1] = Close(group)
  BY <1>2
<1> HIDE DEF six, last
<1>5. /\ s \in Seq(GoodPieces) /\ Len(s) = 7
      /\ \A k \in 1 .. 6 : s[k] = six[k]
      /\ s[7] = Close(group)
  <2>1. s \in Seq(GoodPieces) /\ Len(s) = Len(six) + Len(last)
    BY <1>3, <1>4, ConcatProperties
  <2>2. six \in Seq(GoodPieces) /\ last \in Seq(GoodPieces)
    BY <1>3, <1>4
  <2>3. /\ \A k \in 1 .. Len(six) : s[k] = six[k]
        /\ \A k \in 1 .. Len(last) : s[Len(six) + k] = last[k]
    BY <2>2, PlacesOfBoth
  <2> HIDE DEF s
  <2>4. s[6 + 1] = last[1]
    BY <1>3, <1>4, <2>3
  <2>5. QED
    BY <1>3, <1>4, <2>1, <2>3, <2>4
<1> HIDE DEF s
<1>6. SumOf(Costs(s)) = Cost(s[1]) + Cost(s[2]) + Cost(s[3]) + Cost(s[4])
                          + Cost(s[5]) + Cost(s[6]) + Cost(s[7])
  BY <1>5, SevenPieces
<1>7. /\ \A k \in 1 .. 6 : Cost(s[k]) = m + 2
      /\ Cost(s[7]) = 5
  BY <1>2, <1>3, <1>5
<1>8. SumOf(Costs(s)) = 6 * m + 17
  <2>1. /\ Cost(s[1]) = m + 2 /\ Cost(s[2]) = m + 2 /\ Cost(s[3]) = m + 2
        /\ Cost(s[4]) = m + 2 /\ Cost(s[5]) = m + 2 /\ Cost(s[6]) = m + 2
    BY <1>7
  <2>2. QED
    BY <1>6, <1>7, <2>1
<1>9. QED
  BY <1>5, <1>8 DEF s, six, last

LEMMA OpsSection ==
  format_ops \in Seq(GoodPieces) /\ SumOf(Costs(format_ops)) = 6 * MaxOptions + 29
<1> DEFINE names == <<"O1", "O2", "O3", "O4", "O5", "O6">>
           m     == MaxOptions + 2
<1>1. "OPS" \in Words /\ Letters("OPS") = 3 /\ m \in Nat
  BY CapacityAssumption DEF Words, Letters
<1>2. \A k \in 1 .. 6 : names[k] \in {"O1", "O2", "O3", "O4", "O5", "O6"}
  OBVIOUS
<1>3. \A a \in {"O1", "O2", "O3", "O4", "O5", "O6"} : a \in Words /\ Most(a) = m
  BY CapacityAssumption DEF Words, Most, Letters, MaxWidth
<1>4. \A k \in 1 .. 6 : names[k] \in Words /\ Most(names[k]) = m
  BY <1>2, <1>3
<1>5. format_ops = [k \in 1 .. 6 |-> Optional("OPS", <<names[k]>>)] \o <<Close("OPS")>>
  BY DEF format_ops
<1> HIDE DEF names, m
<1>6. format_ops \in Seq(GoodPieces) /\ SumOf(Costs(format_ops)) = 6 * m + 17
  BY <1>1, <1>4, <1>5, SixAndClose
<1>7. QED
  BY <1>6, CapacityAssumption DEF m

LEMMA WinSection ==
  format_win \in Seq(GoodPieces) /\ SumOf(Costs(format_win)) = 53
<1> DEFINE names == <<"W1", "W2", "W3", "W4", "W5", "W6">>
<1>1. "WIN" \in Words /\ Letters("WIN") = 3
  BY DEF Words, Letters
<1>2. \A k \in 1 .. 6 : names[k] \in {"W1", "W2", "W3", "W4", "W5", "W6"}
  OBVIOUS
<1>3. \A a \in {"W1", "W2", "W3", "W4", "W5", "W6"} : a \in Words /\ Most(a) = 6
  BY DEF Words, Most, Letters, MaxWidth
<1>4. \A k \in 1 .. 6 : names[k] \in Words /\ Most(names[k]) = 6
  BY <1>2, <1>3
<1>5. format_win = [k \in 1 .. 6 |-> Optional("WIN", <<names[k]>>)] \o <<Close("WIN")>>
  BY DEF format_win
<1>6. PICK m \in Nat : m = 6
  OBVIOUS
<1> HIDE DEF names
<1>7. format_win \in Seq(GoodPieces) /\ SumOf(Costs(format_win)) = 6 * m + 17
  BY <1>1, <1>4, <1>5, <1>6, SixAndClose
<1>8. QED
  BY <1>6, <1>7

LEMMA EcnSection ==
  format_ecn \in Seq(GoodPieces) /\ SumOf(Costs(format_ecn)) = MaxOptions + 40
<1> DEFINE names == <<"R", "DF", "T", "W", "O", "CC", "Q">>
<1>1. /\ "ECN" \in Words /\ "R" \in Words /\ "DF" \in Words /\ "T" \in Words /\ "W" \in Words
      /\ "O" \in Words /\ "CC" \in Words /\ "Q" \in Words
  BY DEF Words
<1>2. /\ Letters("ECN") = 3 /\ Most("R") = 2 /\ Most("DF") = 3 /\ Most("T") = 4
      /\ Most("W") = 5 /\ Most("O") = MaxOptions + 1 /\ Most("CC") = 3 /\ Most("Q") = 3
  BY CapacityAssumption DEF Most, Letters, MaxWidth
<1>3. names \in Seq(Words) /\ Len(names) = 7
  BY <1>1
<1>4. /\ names[1] = "R" /\ names[2] = "DF" /\ names[3] = "T" /\ names[4] = "W"
      /\ names[5] = "O" /\ names[6] = "CC" /\ names[7] = "Q"
  OBVIOUS
<1>5. format_ecn = <<Part("whole", "ECN", names)>>
  BY DEF format_ecn
<1> HIDE DEF names
<1>6. /\ Mosts(names) \in Seq(Nat) /\ Len(Mosts(names)) = 7
      /\ \A k \in 1 .. 7 : Mosts(names)[k] = Most(names[k])
  BY <1>3, MostsAreNumbers
<1>7. SumOf(Mosts(names)) = MaxOptions + 21
  <2> DEFINE s == Mosts(names)
  <2>1. SumOf(s) = s[1] + s[2] + s[3] + s[4] + s[5] + s[6] + s[7]
    BY <1>6, FirstSums
  <2>2. /\ s[1] = 2 /\ s[2] = 3 /\ s[3] = 4 /\ s[4] = 5 /\ s[5] = MaxOptions + 1
        /\ s[6] = 3 /\ s[7] = 3
    BY <1>2, <1>4, <1>6
  <2> HIDE DEF s
  <2>3. SumOf(s) = MaxOptions + 21
    BY <2>1, <2>2, CapacityAssumption
  <2>4. QED
    BY <2>3 DEF s
<1>8. Longest(names) = MaxOptions + 34
  BY <1>3, <1>7, CapacityAssumption DEF Longest
<1> DEFINE p == Part("whole", "ECN", names)
<1>9. p \in GoodPieces /\ Cost(p) = Longest(names) + Letters("ECN") + 3
  <2>1. Len(names) >= 1 /\ Len(names) >= 3
    BY <1>3
  <2>2. p \in GoodPieces /\ ("whole" = "whole" => Cost(p) = Longest(names) + Letters("ECN") + 3)
    BY <1>1, <1>3, <2>1, PartPiece
  <2>3. QED
    BY <2>2
<1> HIDE DEF p
<1>10. <<p>> \in Seq(GoodPieces) /\ SumOf(Costs(<<p>>)) = Cost(p)
  BY <1>9, OnePiece
<1>11. Cost(p) = MaxOptions + 40
  BY <1>2, <1>8, <1>9, CapacityAssumption
<1>12. QED
  BY <1>5, <1>10, <1>11 DEF p

LEMMA U1Section ==
  format_u1 \in Seq(GoodPieces) /\ SumOf(Costs(format_u1)) = 83
<1> DEFINE names == <<"R", "DF", "T", "IPL", "UN", "RIPL", "RID", "RIPCK", "RUCK", "RUD">>
<1>1. /\ "U1" \in Words /\ "R" \in Words /\ "DF" \in Words /\ "T" \in Words /\ "IPL" \in Words
      /\ "UN" \in Words /\ "RIPL" \in Words /\ "RID" \in Words /\ "RIPCK" \in Words
      /\ "RUCK" \in Words /\ "RUD" \in Words
  BY DEF Words
<1>2. /\ Letters("U1") = 2 /\ Most("R") = 2 /\ Most("DF") = 3 /\ Most("T") = 4
      /\ Most("IPL") = 7 /\ Most("UN") = 10 /\ Most("RIPL") = 8 /\ Most("RID") = 7
      /\ Most("RIPCK") = 6 /\ Most("RUCK") = 8 /\ Most("RUD") = 4
  BY DEF Most, Letters, MaxWidth
<1>3. names \in Seq(Words) /\ Len(names) = 10
  BY <1>1
<1>4. /\ names[1] = "R" /\ names[2] = "DF" /\ names[3] = "T" /\ names[4] = "IPL"
      /\ names[5] = "UN" /\ names[6] = "RIPL" /\ names[7] = "RID" /\ names[8] = "RIPCK"
      /\ names[9] = "RUCK" /\ names[10] = "RUD"
  OBVIOUS
<1>5. format_u1 = <<Part("whole", "U1", names)>>
  BY DEF format_u1
<1> HIDE DEF names
<1>6. /\ Mosts(names) \in Seq(Nat) /\ Len(Mosts(names)) = 10
      /\ \A k \in 1 .. 10 : Mosts(names)[k] = Most(names[k])
  BY <1>3, MostsAreNumbers
<1>7. SumOf(Mosts(names)) = 59
  <2> DEFINE s == Mosts(names)
  <2>1. SumOf(s) = s[1] + s[2] + s[3] + s[4] + s[5] + s[6] + s[7] + s[8] + s[9] + s[10]
    BY <1>6, FirstSums
  <2>2. /\ s[1] = 2 /\ s[2] = 3 /\ s[3] = 4 /\ s[4] = 7 /\ s[5] = 10
        /\ s[6] = 8 /\ s[7] = 7 /\ s[8] = 6 /\ s[9] = 8 /\ s[10] = 4
    BY <1>2, <1>4, <1>6
  <2> HIDE DEF s
  <2>3. SumOf(s) = 59
    BY <2>1, <2>2
  <2>4. QED
    BY <2>3 DEF s
<1>8. Longest(names) = 78
  BY <1>3, <1>7 DEF Longest
<1> DEFINE p == Part("whole", "U1", names)
<1>9. p \in GoodPieces /\ Cost(p) = Longest(names) + Letters("U1") + 3
  <2>1. Len(names) >= 1 /\ Len(names) >= 3
    BY <1>3
  <2>2. p \in GoodPieces /\ ("whole" = "whole" => Cost(p) = Longest(names) + Letters("U1") + 3)
    BY <1>1, <1>3, <2>1, PartPiece
  <2>3. QED
    BY <2>2
<1> HIDE DEF p
<1>10. <<p>> \in Seq(GoodPieces) /\ SumOf(Costs(<<p>>)) = Cost(p)
  BY <1>9, OnePiece
<1>11. Cost(p) = 83
  BY <1>2, <1>8, <1>9
<1>12. QED
  BY <1>5, <1>10, <1>11 DEF p

LEMMA IeSection ==
  format_ie \in Seq(GoodPieces) /\ SumOf(Costs(format_ie)) = 26
<1> DEFINE names == <<"R", "DFI", "T", "CD">>
<1>1. "IE" \in Words /\ "R" \in Words /\ "DFI" \in Words /\ "T" \in Words /\ "CD" \in Words
  BY DEF Words
<1>2. /\ Letters("IE") = 2 /\ Most("R") = 2 /\ Most("DFI") = 4 /\ Most("T") = 4
      /\ Most("CD") = 4
  BY DEF Most, Letters, MaxWidth
<1>3. names \in Seq(Words) /\ Len(names) = 4
  BY <1>1
<1>4. names[1] = "R" /\ names[2] = "DFI" /\ names[3] = "T" /\ names[4] = "CD"
  OBVIOUS
<1>5. format_ie = <<Part("whole", "IE", names)>>
  BY DEF format_ie
<1> HIDE DEF names
<1>6. /\ Mosts(names) \in Seq(Nat) /\ Len(Mosts(names)) = 4
      /\ \A k \in 1 .. 4 : Mosts(names)[k] = Most(names[k])
  BY <1>3, MostsAreNumbers
<1>7. SumOf(Mosts(names)) = 14
  <2> DEFINE s == Mosts(names)
  <2>1. SumOf(s) = s[1] + s[2] + s[3] + s[4]
    BY <1>6, FirstSums
  <2>2. s[1] = 2 /\ s[2] = 4 /\ s[3] = 4 /\ s[4] = 4
    BY <1>2, <1>4, <1>6
  <2> HIDE DEF s
  <2>3. SumOf(s) = 14
    BY <2>1, <2>2
  <2>4. QED
    BY <2>3 DEF s
<1>8. Longest(names) = 21
  BY <1>3, <1>7 DEF Longest
<1> DEFINE p == Part("whole", "IE", names)
<1>9. p \in GoodPieces /\ Cost(p) = Longest(names) + Letters("IE") + 3
  <2>1. Len(names) >= 1 /\ Len(names) >= 3
    BY <1>3
  <2>2. p \in GoodPieces /\ ("whole" = "whole" => Cost(p) = Longest(names) + Letters("IE") + 3)
    BY <1>1, <1>3, <2>1, PartPiece
  <2>3. QED
    BY <2>2
<1> HIDE DEF p
<1>10. <<p>> \in Seq(GoodPieces) /\ SumOf(Costs(<<p>>)) = Cost(p)
  BY <1>9, OnePiece
<1>11. Cost(p) = 26
  BY <1>2, <1>8, <1>9
<1>12. QED
  BY <1>5, <1>10, <1>11 DEF p

(* The answers to the TCP probes: T1 has two fields less than the others.  *)
LEMMA TSection ==
  ASSUME NEW group \in {"T1", "T2", "T3", "T4", "T5", "T6", "T7"}
  PROVE  /\ format_t(group) \in Seq(GoodPieces)
         /\ SumOf(Costs(format_t(group))) = IF group = "T1" THEN 56 ELSE MaxOptions + 66
<1> DEFINE start  == <<"R", "DF", "T">>
           flags  == <<"S", "A", "F">>
           finish == <<"RD", "Q">>
<1>1. group \in Words /\ Letters(group) = 2
  BY DEF Words, Letters
<1>2. /\ "R" \in Words /\ "DF" \in Words /\ "T" \in Words /\ "W" \in Words /\ "S" \in Words
      /\ "A" \in Words /\ "F" \in Words /\ "O" \in Words /\ "RD" \in Words /\ "Q" \in Words
  BY DEF Words
<1>3. /\ Most("R") = 2 /\ Most("DF") = 3 /\ Most("T") = 4 /\ Most("W") = 5 /\ Most("S") = 3
      /\ Most("A") = 3 /\ Most("F") = 8 /\ Most("O") = MaxOptions + 1
      /\ Most("RD") = 10 /\ Most("Q") = 3
  BY CapacityAssumption DEF Most, Letters, MaxWidth
<1>4. /\ start \in Seq(Words) /\ Len(start) = 3 /\ Longest(start) = 14
      /\ flags \in Seq(Words) /\ Len(flags) = 3 /\ Longest(flags) = 19
      /\ finish \in Seq(Words) /\ Len(finish) = 2 /\ Longest(finish) = 16
  <2>1. Longest(start) = 14 /\ Longest(flags) = 19 /\ Longest(finish) = 16
    BY <1>2, <1>3, LongestIs
  <2>2. /\ start \in Seq(Words) /\ Len(start) = 3
        /\ flags \in Seq(Words) /\ Len(flags) = 3
        /\ finish \in Seq(Words) /\ Len(finish) = 2
    BY <1>2
  <2>3. QED
    BY <2>1, <2>2
<1> DEFINE head    == Part("head", group, start)
           window  == Part("middle", group, <<"W">>)
           middle  == Part("middle", group, flags)
           options == Part("middle", group, <<"O">>)
           tail    == Part("tail", group, finish)
<1> HIDE DEF start, flags, finish
<1>5. head \in GoodPieces /\ Cost(head) = 17
  <2>1. Len(start) >= 1 /\ Len(start) >= 3
    BY <1>4
  <2>2. head \in GoodPieces /\ ("head" = "head" => Cost(head) = Longest(start) + Letters(group) + 1)
    BY <1>1, <1>4, <2>1, PartPiece
  <2>3. QED
    BY <1>1, <1>4, <2>2
<1>6. middle \in GoodPieces /\ Cost(middle) = 20
  <2>1. Len(flags) >= 1
    BY <1>4
  <2>2. middle \in GoodPieces /\ ("middle" = "middle" => Cost(middle) = Longest(flags) + 1)
    BY <1>1, <1>4, <2>1, PartPiece
  <2>3. QED
    BY <1>4, <2>2
<1>7. tail \in GoodPieces /\ Cost(tail) = 19
  <2>1. Len(finish) >= 1
    BY <1>4
  <2>2. tail \in GoodPieces /\ ("tail" = "tail" => Cost(tail) = Longest(finish) + 3)
    BY <1>1, <1>4, <2>1, PartPiece
  <2>3. QED
    BY <1>4, <2>2
<1>8. window \in GoodPieces /\ Cost(window) = 7
  <2> DEFINE n == <<"W">>
  <2>1. n \in Seq(Words) /\ Len(n) >= 1 /\ Longest(n) = 6
    BY <1>2, <1>3, OneName
  <2> HIDE DEF n
  <2>2. Part("middle", group, n) \in GoodPieces
          /\ ("middle" = "middle" => Cost(Part("middle", group, n)) = Longest(n) + 1)
    BY <1>1, <2>1, PartPiece
  <2>3. QED
    BY <2>1, <2>2 DEF n
<1>9. options \in GoodPieces /\ Cost(options) = MaxOptions + 3
  <2> DEFINE n == <<"O">>
  <2>1. n \in Seq(Words) /\ Len(n) >= 1 /\ Longest(n) = 1 + Most("O")
    BY <1>2, OneName
  <2> HIDE DEF n
  <2>2. Part("middle", group, n) \in GoodPieces
          /\ ("middle" = "middle" => Cost(Part("middle", group, n)) = Longest(n) + 1)
    BY <1>1, <2>1, PartPiece
  <2>3. QED
    BY <1>3, <2>1, <2>2, CapacityAssumption DEF n
<1> HIDE DEF head, window, middle, options, tail
<1> DEFINE second == IF group = "T1" THEN <<>> ELSE <<window>>
           fourth == IF group = "T1" THEN <<>> ELSE <<options>>
<1>10. format_t(group) = (((<<head>> \o second) \o <<middle>>) \o fourth) \o <<tail>>
  BY DEF format_t, head, window, middle, options, tail, start, flags, finish
<1>11. /\ <<head>> \in Seq(GoodPieces) /\ SumOf(Costs(<<head>>)) = 17
       /\ <<middle>> \in Seq(GoodPieces) /\ SumOf(Costs(<<middle>>)) = 20
       /\ <<tail>> \in Seq(GoodPieces) /\ SumOf(Costs(<<tail>>)) = 19
       /\ <<window>> \in Seq(GoodPieces) /\ SumOf(Costs(<<window>>)) = 7
       /\ <<options>> \in Seq(GoodPieces) /\ SumOf(Costs(<<options>>)) = MaxOptions + 3
  BY <1>5, <1>6, <1>7, <1>8, <1>9, OnePiece
<1>12. /\ second \in Seq(GoodPieces) /\ SumOf(Costs(second)) = IF group = "T1" THEN 0 ELSE 7
       /\ fourth \in Seq(GoodPieces)
       /\ SumOf(Costs(fourth)) = IF group = "T1" THEN 0 ELSE MaxOptions + 3
  <2>1. <<>> \in Seq(GoodPieces) /\ SumOf(Costs(<<>>)) = 0
    <3>1. <<>> \in Seq(GoodPieces) /\ Len(<<>>) = 0
      OBVIOUS
    <3>2. Costs(<<>>) \in Seq(Nat) /\ Len(Costs(<<>>)) = 0
      BY <3>1, CostsAreNumbers
    <3>3. QED
      BY <3>1, <3>2, FirstSums
  <2>2. QED
    BY <1>11, <2>1
<1> DEFINE a == <<head>>
           b == <<middle>>
           c == <<tail>>
<1>13. /\ a \in Seq(GoodPieces) /\ SumOf(Costs(a)) = 17
       /\ b \in Seq(GoodPieces) /\ SumOf(Costs(b)) = 20
       /\ c \in Seq(GoodPieces) /\ SumOf(Costs(c)) = 19
  BY <1>11
<1>14. format_t(group) = (((a \o second) \o b) \o fourth) \o c
  BY <1>10
<1> HIDE DEF a, b, c, second, fourth
<1>15. /\ a \o second \in Seq(GoodPieces)
       /\ SumOf(Costs(a \o second)) = 17 + SumOf(Costs(second))
  BY <1>12, <1>13, CostOfBoth
<1>16. /\ (a \o second) \o b \in Seq(GoodPieces)
       /\ SumOf(Costs((a \o second) \o b)) = SumOf(Costs(a \o second)) + 20
  BY <1>13, <1>15, CostOfBoth
<1>17. /\ ((a \o second) \o b) \o fourth \in Seq(GoodPieces)
       /\ SumOf(Costs(((a \o second) \o b) \o fourth))
            = SumOf(Costs((a \o second) \o b)) + SumOf(Costs(fourth))
  BY <1>12, <1>16, CostOfBoth
<1>18. /\ (((a \o second) \o b) \o fourth) \o c \in Seq(GoodPieces)
       /\ SumOf(Costs((((a \o second) \o b) \o fourth) \o c))
            = SumOf(Costs(((a \o second) \o b) \o fourth)) + 19
  BY <1>13, <1>17, CostOfBoth
<1>19. QED
  BY <1>12, <1>14, <1>15, <1>16, <1>17, <1>18, CapacityAssumption

LEMMA AllPieces ==
  /\ Pieces \in Seq(GoodPieces) /\ SumOf(Costs(Pieces)) = 767 + 13 * MaxOptions
<1> DEFINE p1 == format_seq \o format_ops
           p2 == p1 \o format_win
           p3 == p2 \o format_ecn
           p4 == p3 \o format_t("T1")
           p5 == p4 \o format_t("T2")
           p6 == p5 \o format_t("T3")
           p7 == p6 \o format_t("T4")
           p8 == p7 \o format_t("T5")
           p9 == p8 \o format_t("T6")
           p10 == p9 \o format_t("T7")
           p11 == p10 \o format_u1
           p12 == p11 \o format_ie
           O   == MaxOptions
<1>1. Pieces = p12
  BY DEF Pieces
<1>2. O \in Nat
  BY CapacityAssumption
<1>3. p1 \in Seq(GoodPieces) /\ SumOf(Costs(p1)) = 84 + (6 * O + 29)
  BY SeqSection, OpsSection, CostOfBoth
<1>4. /\ format_t("T1") \in Seq(GoodPieces) /\ SumOf(Costs(format_t("T1"))) = 56
      /\ format_t("T2") \in Seq(GoodPieces) /\ SumOf(Costs(format_t("T2"))) = O + 66
      /\ format_t("T3") \in Seq(GoodPieces) /\ SumOf(Costs(format_t("T3"))) = O + 66
      /\ format_t("T4") \in Seq(GoodPieces) /\ SumOf(Costs(format_t("T4"))) = O + 66
      /\ format_t("T5") \in Seq(GoodPieces) /\ SumOf(Costs(format_t("T5"))) = O + 66
      /\ format_t("T6") \in Seq(GoodPieces) /\ SumOf(Costs(format_t("T6"))) = O + 66
      /\ format_t("T7") \in Seq(GoodPieces) /\ SumOf(Costs(format_t("T7"))) = O + 66
  BY TSection
<1> HIDE DEF p1
<1>5. p2 \in Seq(GoodPieces) /\ SumOf(Costs(p2)) = SumOf(Costs(p1)) + 53
  BY <1>3, WinSection, CostOfBoth
<1> HIDE DEF p2
<1>6. p3 \in Seq(GoodPieces) /\ SumOf(Costs(p3)) = SumOf(Costs(p2)) + (O + 40)
  BY <1>5, EcnSection, CostOfBoth
<1> HIDE DEF p3
<1>7. p4 \in Seq(GoodPieces) /\ SumOf(Costs(p4)) = SumOf(Costs(p3)) + 56
  BY <1>4, <1>6, CostOfBoth
<1> HIDE DEF p4
<1>8. p5 \in Seq(GoodPieces) /\ SumOf(Costs(p5)) = SumOf(Costs(p4)) + (O + 66)
  BY <1>4, <1>7, CostOfBoth
<1> HIDE DEF p5
<1>9. p6 \in Seq(GoodPieces) /\ SumOf(Costs(p6)) = SumOf(Costs(p5)) + (O + 66)
  BY <1>4, <1>8, CostOfBoth
<1> HIDE DEF p6
<1>10. p7 \in Seq(GoodPieces) /\ SumOf(Costs(p7)) = SumOf(Costs(p6)) + (O + 66)
  BY <1>4, <1>9, CostOfBoth
<1> HIDE DEF p7
<1>11. p8 \in Seq(GoodPieces) /\ SumOf(Costs(p8)) = SumOf(Costs(p7)) + (O + 66)
  BY <1>4, <1>10, CostOfBoth
<1> HIDE DEF p8
<1>12. p9 \in Seq(GoodPieces) /\ SumOf(Costs(p9)) = SumOf(Costs(p8)) + (O + 66)
  BY <1>4, <1>11, CostOfBoth
<1> HIDE DEF p9
<1>13. p10 \in Seq(GoodPieces) /\ SumOf(Costs(p10)) = SumOf(Costs(p9)) + (O + 66)
  BY <1>4, <1>12, CostOfBoth
<1> HIDE DEF p10
<1>14. p11 \in Seq(GoodPieces) /\ SumOf(Costs(p11)) = SumOf(Costs(p10)) + 83
  BY <1>13, U1Section, CostOfBoth
<1> HIDE DEF p11
<1>15. p12 \in Seq(GoodPieces) /\ SumOf(Costs(p12)) = SumOf(Costs(p11)) + 26
  BY <1>14, IeSection, CostOfBoth
<1> HIDE DEF p12
<1>16. SumOf(Costs(p12)) = 767 + 13 * O
  BY <1>2, <1>3, <1>5, <1>6, <1>7, <1>8, <1>9, <1>10, <1>11, <1>12, <1>13, <1>14, <1>15
<1>17. QED
  BY <1>1, <1>15, <1>16

-----------------------------------------------------------------------------
(* The buffer.                                                             *)

(* No text is longer than its pieces at their longest, whatever is left out:*)
(* the characters of the pieces before the k-th, and those of the name of  *)
(* a group whose close is still to come.                                   *)
Budget(k) == Summed(Costs(Pieces))[k - 1]
Slack(begun) == IF begun THEN 0 ELSE 3

FormatInv ==
  /\ capacity \in Nat /\ at \in 1 .. Len(Pieces) + 1 /\ first \in BOOLEAN
  /\ used \in Nat /\ used < capacity
  /\ result = RUNNING => stored = used /\ used <= Budget(at) + Slack(first)
  /\ result # RUNNING => \/ result \in Nat /\ stored = result /\ result < capacity
                         \/ /\ result = -1 /\ stored = 0
                            /\ capacity <= 770 + 13 * MaxOptions

LEMMA Budgets ==
  ASSUME NEW k \in 1 .. Len(Pieces)
  PROVE  /\ Pieces[k] \in GoodPieces /\ Len(Pieces) \in Nat
         /\ Cost(Pieces[k]) \in Nat /\ Budget(k) \in Nat
         /\ Budget(k + 1) = Budget(k) + Cost(Pieces[k])
         /\ \A j \in k + 1 .. Len(Pieces) + 1 : Budget(j) \in Nat /\ Budget(k + 1) <= Budget(j)
         /\ Budget(k + 1) <= 767 + 13 * MaxOptions
<1> DEFINE s == Costs(Pieces)
           N == Len(Pieces)
<1>1. N \in Nat /\ Pieces[k] \in GoodPieces
  BY AllPieces, ElementOfSeq
<1>2. s \in Seq(Nat) /\ Len(s) = N /\ s[k] = Cost(Pieces[k])
  BY AllPieces, CostsAreNumbers
<1>3. SumOf(s) = Summed(s)[N]
  BY <1>2, SumIsSummed
<1>4. \A j : Budget(j) = Summed(s)[j - 1]
  BY DEF Budget
<1> HIDE DEF s, N
<1>5. PICK m \in Nat : k = m + 1 /\ m = k - 1 /\ m < N
  <2>1. k - 1 \in Nat /\ k = (k - 1) + 1 /\ k - 1 < N
    BY <1>1 DEF N
  <2>2. QED
    BY <2>1
<1>6. (k + 1) - 1 = k /\ k \in Nat /\ k <= N
  BY <1>1 DEF N
<1>7. Summed(s)[m + 1] = Summed(s)[m] + s[m + 1] /\ Summed(s)[m] \in Nat
  <2>1. m \in 0 .. N
    BY <1>1, <1>5
  <2>2. QED
    BY <1>2, <1>5, <2>1, SumSteps
<1>8. Budget(k) \in Nat /\ Budget(k + 1) = Budget(k) + Cost(Pieces[k])
  BY <1>2, <1>4, <1>5, <1>6, <1>7
<1>9. ASSUME NEW j \in k + 1 .. N + 1 PROVE Budget(j) \in Nat /\ Budget(k + 1) <= Budget(j)
  <2>1. PICK i \in Nat : i = j - 1 /\ k <= i /\ i <= N
    <3>1. j - 1 \in Nat /\ k <= j - 1 /\ j - 1 <= N
      BY <1>1, <1>6
    <3>2. QED
      BY <3>1
  <2>2. Summed(s)[k] <= Summed(s)[i] /\ Summed(s)[i] \in Nat
    BY <1>2, <1>6, <2>1, SumsInOrder
  <2>3. QED
    BY <1>4, <1>6, <2>1, <2>2
<1>10. Budget(k + 1) <= 767 + 13 * MaxOptions
  <2>1. Summed(s)[k] <= Summed(s)[N]
    BY <1>1, <1>2, <1>6, SumsInOrder
  <2>2. Summed(s)[N] = 767 + 13 * MaxOptions
    BY <1>3, AllPieces DEF s
  <2>3. QED
    BY <1>4, <1>6, <2>1, <2>2
<1>11. Cost(Pieces[k]) \in Nat
  BY <1>1, CostIsNat
<1>12. QED
  BY <1>1, <1>8, <1>9, <1>10, <1>11 DEF N

(* The names that are written and their values are no longer than the piece.*)
LEMMA WrittenFits ==
  ASSUME at \in 1 .. Len(Pieces), long \in BOOLEAN, Piece.op # "close",
         NEW names, names = Piece.names \/ names \in Names
  PROVE  Length(names) \in Nat /\ Length(names) <= Longest(Piece.names)
<1> DEFINE all == Piece.names
           s   == [k \in DOMAIN names |-> Letters(names[k]) + Widths(names)[k]]
<1>1. Piece \in GoodPieces
  BY Budgets DEF Piece
<1>2. all \in Seq(Words) /\ Len(all) \in Nat /\ Len(all) >= 1 /\ DOMAIN all = 1 .. Len(all)
  BY <1>1 DEF GoodPieces
<1>3. /\ names \in Seq(Words) /\ Len(names) = Len(all)
      /\ \A k \in 1 .. Len(all) : \/ names[k] = all[k]
                                  \/ all[k] = "T" /\ names[k] \in {"T", "TG"}
  <2>1. CASE names = all
    BY <1>2, <2>1
  <2>2. CASE names \in Names
    <3>1. PICK t \in {"T", "TG"} : names = [k \in DOMAIN all |-> IF all[k] = "T" THEN t ELSE all[k]]
      BY <2>2 DEF Names
    <3>2. t \in Words
      BY DEF Words
    <3>3. \A k \in 1 .. Len(all) : all[k] \in Words
      BY <1>2, ElementOfSeq
    <3>4. names \in [1 .. Len(all) -> Words]
      BY <1>2, <3>1, <3>2, <3>3
    <3>5. QED
      BY <1>2, <3>1, <3>4
  <2>3. QED
    BY <2>1, <2>2
<1> HIDE DEF all
<1>4. DOMAIN names = 1 .. Len(all)
  BY <1>3
<1>5. \A k \in 1 .. Len(all) : s[k] \in Nat /\ s[k] <= Most(all[k])
  <2> SUFFICES ASSUME NEW k \in 1 .. Len(all) PROVE s[k] \in Nat /\ s[k] <= Most(all[k])
    OBVIOUS
  <2>1. s[k] = Letters(names[k]) + (IF long THEN MaxWidth(names[k]) ELSE MinWidth(names[k]))
    BY <1>4 DEF Widths
  <2>2. /\ Letters(names[k]) \in Nat /\ MaxWidth(names[k]) \in Nat /\ MinWidth(names[k]) \in Nat
        /\ MinWidth(names[k]) <= MaxWidth(names[k])
    BY Widest
  <2>3. s[k] \in Nat /\ s[k] <= Letters(names[k]) + MaxWidth(names[k])
    BY <2>1, <2>2
  <2>4. Letters(names[k]) + MaxWidth(names[k]) = Most(all[k])
    <3>1. CASE names[k] = all[k]
      BY <3>1 DEF Most
    <3>2. CASE all[k] = "T" /\ names[k] \in {"T", "TG"}
      <4>1. Letters("T") + MaxWidth("T") = 4 /\ Letters("TG") + MaxWidth("TG") = 4
        BY DEF Letters, MaxWidth
      <4>2. QED
        BY <3>2, <4>1 DEF Most
    <3>3. QED
      BY <1>3, <3>1, <3>2
  <2>5. QED
    BY <2>3, <2>4
<1>6. s \in Seq(Nat) /\ Len(s) = Len(all)
  <2>1. s \in [1 .. Len(all) -> Nat]
    BY <1>4, <1>5
  <2> HIDE DEF s
  <2>2. QED
    BY <1>2, <2>1
<1>7. Length(names) = 2 * Len(names) - 1 + SumOf(s)
  BY DEF Length
<1> HIDE DEF s
<1>8. /\ Mosts(all) \in Seq(Nat) /\ Len(Mosts(all)) = Len(all)
      /\ \A k \in 1 .. Len(all) : Mosts(all)[k] = Most(all[k])
  BY <1>2, MostsAreNumbers
<1>9. SumOf(s) <= SumOf(Mosts(all)) /\ SumOf(s) \in Nat /\ SumOf(Mosts(all)) \in Nat
  BY <1>5, <1>6, <1>8, SumGrows, SumIsNat
<1>10. Longest(all) = 2 * Len(all) - 1 + SumOf(Mosts(all))
  BY DEF Longest
<1>11. QED
  BY <1>2, <1>3, <1>7, <1>9, <1>10 DEF all

LEMMA FormatBegins ==
  ASSUME capacity \in Nat \ {0}, at = 1, first = TRUE, used = 0, stored = 0, result = RUNNING
  PROVE  FormatInv
<1>1. Len(Pieces) \in Nat /\ 1 \in 1 .. Len(Pieces) + 1
  BY AllPieces
<1>2. Budget(1) = 0
  <2>1. Costs(Pieces) \in Seq(Nat) /\ 1 - 1 = 0
    BY AllPieces, CostsAreNumbers
  <2>2. QED
    BY <2>1, SumSteps DEF Budget
<1>3. Slack(first) = 0
  BY DEF Slack
<1>4. capacity \in Nat /\ 0 < capacity /\ used <= Budget(at) + Slack(first)
  BY <1>2, <1>3
<1>5. QED
  BY <1>1, <1>4 DEF FormatInv

LEMMA FormatInit == Init => FormatInv /\ long \in BOOLEAN
<1>1. Init => capacity \in Nat \ {0}
  BY CapacityAssumption DEF Init
<1>2. QED
  BY <1>1, FormatBegins DEF Init

LEMMA FormatWaits == FormatIdle => FormatInv /\ long \in BOOLEAN
<1>1. FormatIdle => capacity \in Nat \ {0}
  BY DEF FormatIdle, MAX_FINGERPRINT_LENGTH
<1>2. QED
  BY <1>1, FormatBegins DEF FormatIdle

(* One call of append_text, for a text no longer than there is room for.   *)
LEMMA Appended ==
  ASSUME FormatInv, Running, NEW length \in Nat, NEW text, NEW names,
         append_text(length, text, names), capacity' = capacity,
         at' \in at + 1 .. Len(Pieces) + 1, first' \in BOOLEAN,
         used + length <= Budget(at + 1) + Slack(first')
  PROVE  FormatInv'
<1>1. /\ capacity \in Nat /\ at \in 1 .. Len(Pieces) /\ used \in Nat /\ used < capacity
      /\ result = RUNNING /\ Len(Pieces) \in Nat
  BY AllPieces DEF FormatInv, Running
<1>2. at' \in 1 .. Len(Pieces) + 1
  BY <1>1
<1>3. /\ Budget(at + 1) \in Nat /\ Budget(at') \in Nat /\ Budget(at + 1) <= Budget(at')
      /\ Budget(at + 1) <= 767 + 13 * MaxOptions
  <2>1. at + 1 \in at + 1 .. Len(Pieces) + 1
    BY <1>1
  <2>2. QED
    BY <1>1, <2>1, Budgets
<1>4. Slack(first') \in {0, 3}
  BY DEF Slack
<1>5. CASE fits(length)
  <2>1. used' = used + length /\ stored' = used' /\ result' = RUNNING
    BY <1>1, <1>5 DEF append_text
  <2>2. length < capacity - used
    BY <1>5 DEF fits
  <2>3. used' \in Nat /\ used' < capacity' /\ used' <= Budget(at') + Slack(first')
    BY <1>1, <1>3, <1>4, <2>1, <2>2
  <2>4. QED
    BY <1>1, <1>2, <2>1, <2>3 DEF FormatInv
<1>6. CASE ~ fits(length)
  <2>1. result' = -1 /\ stored' = 0 /\ used' = used
    BY <1>6 DEF append_text, stored_after_failure
  <2>2. ~ (length < capacity - used)
    BY <1>1, <1>6 DEF fits
  <2>3. capacity' <= 770 + 13 * MaxOptions
    BY <1>1, <1>3, <1>4, <2>2, CapacityAssumption
  <2>4. QED
    BY <1>1, <1>2, <2>1, <2>3 DEF FormatInv, RUNNING
<1>7. QED
  BY <1>5, <1>6

LEMMA NextGroupAhead ==
  ASSUME at \in 1 .. Len(Pieces)
  PROVE  NextGroup \in at + 1 .. Len(Pieces) + 1
<1> DEFINE N        == Len(Pieces)
           other(k) == k = N + 1 \/ Pieces[k].group # Piece.group
           T        == {k \in at + 1 .. N + 1 : other(k)}
<1>1. N \in Nat /\ at \in Nat /\ at <= N
  BY AllPieces
<1>2. T \subseteq Nat /\ N + 1 \in T
  BY <1>1
<1>3. PICK k \in T : \A y \in T : k <= y
  BY <1>2, SmallestMember
<1>4. k \in at + 1 .. N + 1 /\ (k <= N => Pieces[k].group # Piece.group)
  BY <1>1, <1>3
<1>5. ASSUME NEW m \in at + 1 .. k - 1 PROVE Pieces[m].group = Piece.group
  <2>1. m \in at + 1 .. N + 1 /\ m # N + 1 /\ ~ k <= m
    BY <1>1, <1>4
  <2>2. m \notin T
    BY <1>3, <2>1
  <2>3. QED
    BY <2>1, <2>2
<1>6. \E j \in at + 1 .. Len(Pieces) + 1 :
        /\ j <= Len(Pieces) => Pieces[j].group # Piece.group
        /\ \A m \in at + 1 .. j - 1 : Pieces[m].group = Piece.group
  BY <1>4, <1>5
<1>7. QED
  BY <1>6 DEF NextGroup

LEMMA FormatKept == FormatInv /\ long \in BOOLEAN /\ [Next]_vars => FormatInv'
<1> SUFFICES ASSUME FormatInv, long \in BOOLEAN, [Next]_vars PROVE FormatInv'
  OBVIOUS
<1>1. /\ capacity \in Nat /\ at \in 1 .. Len(Pieces) + 1 /\ used \in Nat /\ used < capacity
      /\ Len(Pieces) \in Nat /\ first \in BOOLEAN
  BY AllPieces DEF FormatInv
<1>2. ASSUME Running
      PROVE  /\ at \in 1 .. Len(Pieces) /\ result = RUNNING /\ stored = used
             /\ used <= Budget(at) + Slack(first)
             /\ Piece \in GoodPieces /\ Cost(Piece) \in Nat /\ Budget(at) \in Nat
             /\ Budget(at + 1) = Budget(at) + Cost(Piece)
             /\ at + 1 \in at + 1 .. Len(Pieces) + 1 /\ at + 1 \in 1 .. Len(Pieces) + 1
  <2>1. at \in 1 .. Len(Pieces) /\ result = RUNNING
    BY <1>1, <1>2 DEF Running
  <2>2. /\ Piece \in GoodPieces /\ Cost(Piece) \in Nat /\ Budget(at) \in Nat
        /\ Budget(at + 1) = Budget(at) + Cost(Piece)
    BY <2>1, Budgets DEF Piece
  <2>3. stored = used /\ used <= Budget(at) + Slack(first)
    BY <2>1 DEF FormatInv
  <2>4. at + 1 \in at + 1 .. Len(Pieces) + 1 /\ at + 1 \in 1 .. Len(Pieces) + 1
    BY <1>1, <2>1
  <2>5. QED
    BY <2>1, <2>2, <2>3, <2>4
<1>3. Slack(TRUE) = 0 /\ Slack(FALSE) = 3 /\ Slack(first) \in {0, 3}
  BY DEF Slack
<1>4. CASE Omit
  <2>1. /\ Running /\ at' = at + 1
        /\ UNCHANGED <<capacity, first, used, stored, result>>
    BY <1>4 DEF Omit
  <2>2. used' <= Budget(at') + Slack(first')
    BY <1>1, <1>2, <1>3, <2>1
  <2>3. QED
    BY <1>1, <1>2, <2>1, <2>2 DEF FormatInv
<1>5. CASE FormatOptional
  <2> DEFINE n   == Piece.names
             add == IF first THEN Letters(Piece.group) + 1 ELSE 1
  <2>1. /\ Running /\ Piece.op = "optional" /\ first' = FALSE /\ at' = at + 1
        /\ capacity' = capacity
    BY <1>5 DEF FormatOptional, first_after
  <2>2. append_text(Length(n) + add,
                    (IF first THEN <<Piece.group, "(">> ELSE <<"%">>) \o Fields(n), n)
    BY <1>5 DEF FormatOptional
  <2>3. Length(n) \in Nat /\ Length(n) <= Longest(n)
    BY <1>2, <2>1, WrittenFits
  <2>4. Letters(Piece.group) = 3 /\ Longest(n) \in Nat
    <3>1. Letters(Piece.group) = 3 /\ n \in Seq(Words) /\ Len(n) >= 1
      BY <1>2, <2>1 DEF GoodPieces
    <3>2. QED
      BY <3>1, LongestIsNat
  <2>5. Cost(Piece) = Longest(n) + 1
    BY <2>1, <2>4 DEF Cost
  <2>6. Length(n) + add \in Nat /\ used + (Length(n) + add) <= Budget(at + 1) + Slack(first')
    <3>1. Slack(first') = 3
      BY <2>1 DEF Slack
    <3>2. add \in Nat /\ add + Slack(first) <= 4
      BY <2>4 DEF Slack
    <3>3. Slack(first) \in Nat
      BY <1>3
    <3> HIDE DEF add, n
    <3>4. Budget(at + 1) = Budget(at) + (Longest(n) + 1)
      BY <1>2, <2>1, <2>5
    <3>5. used \in Nat /\ Budget(at) \in Nat /\ used <= Budget(at) + Slack(first)
      BY <1>1, <1>2, <2>1
    <3>6. Longest(n) \in Nat
      BY <2>4
    <3>7. QED
      BY <2>3, <3>1, <3>2, <3>3, <3>4, <3>5, <3>6
  <2> HIDE DEF n, add
  <2>7. at' \in at + 1 .. Len(Pieces) + 1 /\ first' \in BOOLEAN
    BY <1>2, <2>1
  <2>8. QED
    BY <2>1, <2>2, <2>6, <2>7, Appended
<1>6. CASE CloseOptional
  <2>1. /\ Running /\ Piece.op = "close" /\ first' = TRUE /\ at' = at + 1
        /\ capacity' = capacity
    BY <1>6 DEF CloseOptional
  <2>2. Cost(Piece) = 5
    BY <2>1 DEF Cost
  <2>3. CASE first
    <3>1. UNCHANGED <<used, stored, result>>
      BY <1>6, <2>3 DEF CloseOptional
    <3>2. used' <= Budget(at') + Slack(first')
      <4>1. Slack(first) = 0 /\ Slack(first') = 0
        BY <2>1, <2>3 DEF Slack
      <4>2. QED
        BY <1>1, <1>2, <2>1, <2>2, <3>1, <4>1
    <3>3. QED
      BY <1>1, <1>2, <2>1, <3>1, <3>2 DEF FormatInv
  <2>4. CASE ~ first
    <3>1. append_text(2, <<")", "\n">>, <<>>)
      BY <1>6, <2>4 DEF CloseOptional
    <3>2. Slack(first) = 3 /\ Slack(first') = 0
      BY <2>1, <2>4 DEF Slack
    <3>3. used + 2 <= Budget(at + 1) + Slack(first') /\ 2 \in Nat
      BY <1>1, <1>2, <2>1, <2>2, <3>2
    <3>4. at' \in at + 1 .. Len(Pieces) + 1 /\ first' \in BOOLEAN
      BY <1>2, <2>1
    <3>5. QED
      BY <2>1, <3>1, <3>3, <3>4, Appended
  <2>5. QED
    BY <2>3, <2>4
<1>7. CASE FormatNotReceived
  <2>1. /\ Running /\ Piece.op \in {"whole", "head"} /\ at' = NextGroup
        /\ UNCHANGED <<capacity, first>>
        /\ append_text(Letters(Piece.group) + 6,
                       <<Piece.group, "(", "R", "=", "v", ")", "\n">>, <<"R">>)
    BY <1>7 DEF FormatNotReceived
  <2> DEFINE n == Piece.names
  <2>2. n \in Seq(Words) /\ Len(n) >= 3 /\ Len(n) \in Nat
    BY <1>2, <2>1 DEF GoodPieces
  <2>3. Longest(n) \in Nat /\ Longest(n) >= 5
    <3>1. Len(n) >= 1
      BY <2>2
    <3>2. Longest(n) \in Nat /\ Longest(n) >= 2 * Len(n) - 1
      BY <2>2, <3>1, LongestIsNat
    <3>3. QED
      BY <2>2, <3>2
  <2>4. Letters(Piece.group) \in Nat
    BY Widest
  <2>5. Cost(Piece) >= Letters(Piece.group) + 6
    BY <2>1, <2>3, <2>4 DEF Cost
  <2> HIDE DEF n
  <2>6. /\ Letters(Piece.group) + 6 \in Nat
        /\ used + (Letters(Piece.group) + 6) <= Budget(at + 1) + Slack(first')
    BY <1>1, <1>2, <1>3, <2>1, <2>4, <2>5
  <2>7. at' \in at + 1 .. Len(Pieces) + 1 /\ first' \in BOOLEAN
    BY <1>1, <1>2, <2>1, NextGroupAhead
  <2>8. QED
    BY <2>1, <2>6, <2>7, Appended
<1>8. CASE FormatPart
  <2> DEFINE starts == Piece.op \in {"whole", "head"}
             ends   == Piece.op \in {"whole", "tail"}
             head   == IF starts THEN Letters(Piece.group) + 1 ELSE 1
             tail   == IF ends THEN 2 ELSE 0
  <2>1. /\ Running /\ Piece.op \in {"whole", "head", "middle", "tail"} /\ at' = at + 1
        /\ UNCHANGED <<capacity, first>>
    BY <1>8 DEF FormatPart
  <2>2. PICK n \in Names :
          append_text(Length(n) + head + tail,
                      (IF starts THEN <<Piece.group, "(">> ELSE <<"%">>)
                        \o Fields(n) \o (IF ends THEN <<")", "\n">> ELSE <<>>), n)
    BY <1>8 DEF FormatPart
  <2>3. Length(n) \in Nat /\ Length(n) <= Longest(Piece.names)
    <3>1. Piece.op # "close"
      BY <2>1
    <3>2. QED
      BY <1>2, <2>1, <3>1, WrittenFits
  <2>4. Longest(Piece.names) \in Nat
    <3>1. Piece.names \in Seq(Words) /\ Len(Piece.names) >= 1
      BY <1>2, <2>1 DEF GoodPieces
    <3>2. QED
      BY <3>1, LongestIsNat
  <2>5. head \in Nat /\ tail \in Nat
    BY Widest
  <2>6. Cost(Piece) = Longest(Piece.names) + head + tail
    BY <2>1 DEF Cost
  <2>7. DEFINE text == (IF starts THEN <<Piece.group, "(">> ELSE <<"%">>)
                         \o Fields(n) \o (IF ends THEN <<")", "\n">> ELSE <<>>)
  <2> HIDE DEF head, tail, text, starts, ends
  <2>8. PICK l \in Nat : l = Length(n) + head + tail
    BY <2>3, <2>5
  <2>9. used + l <= Budget(at + 1) + Slack(first')
    <3>1. Slack(first') = Slack(first) /\ Slack(first) \in Nat
      BY <1>3, <2>1
    <3>2. Budget(at + 1) = Budget(at) + (Longest(Piece.names) + head + tail)
      BY <1>2, <2>1, <2>6
    <3>3. used \in Nat /\ Budget(at) \in Nat /\ used <= Budget(at) + Slack(first)
      BY <1>1, <1>2, <2>1
    <3>4. QED
      BY <2>3, <2>4, <2>5, <2>8, <3>1, <3>2, <3>3
  <2>10. at' \in at + 1 .. Len(Pieces) + 1 /\ first' \in BOOLEAN
    BY <1>1, <1>2, <2>1
  <2>11. append_text(l, text, n)
    BY <2>2, <2>8 DEF text
  <2>12. QED
    BY <2>1, <2>9, <2>10, <2>11, Appended
<1>9. CASE Finish
  <2>1. result = RUNNING /\ result' = used /\ UNCHANGED <<capacity, at, first, used, stored>>
    BY <1>9 DEF Finish
  <2>2. stored = used
    BY <2>1 DEF FormatInv
  <2>3. result' # RUNNING
    BY <1>1, <2>1 DEF RUNNING
  <2>4. QED
    BY <1>1, <2>1, <2>2, <2>3 DEF FormatInv
<1>10. CASE UNCHANGED vars
  BY <1>10 DEF FormatInv, vars
<1>11. QED
  BY <1>4, <1>5, <1>6, <1>7, <1>8, <1>9, <1>10 DEF Next

LEMMA LongKept == [Next]_vars => long' = long
BY DEF Next, vars, Omit, FormatOptional, CloseOptional, FormatNotReceived, FormatPart, Finish

LEMMA FormatMeans == FormatInv => AllOrNothing
<1>1. ASSUME FormatInv PROVE AllOrNothing
  <2>1. result = -1 => stored = 0 /\ (MaxOptions <= 19 => capacity < MAX_FINGERPRINT_LENGTH)
    <3> SUFFICES ASSUME result = -1
                 PROVE  stored = 0 /\ (MaxOptions <= 19 => capacity < MAX_FINGERPRINT_LENGTH)
      OBVIOUS
    <3>1. stored = 0 /\ capacity <= 770 + 13 * MaxOptions /\ capacity \in Nat
      BY <1>1 DEF FormatInv, RUNNING
    <3>2. QED
      BY <1>1, <3>1, CapacityAssumption DEF MAX_FINGERPRINT_LENGTH
  <2>2. result >= 0 => stored = result /\ result < capacity
    BY <1>1 DEF FormatInv, RUNNING
  <2>3. QED
    BY <2>1, <2>2 DEF AllOrNothing
<1>2. QED
  BY <1>1

-----------------------------------------------------------------------------
(* The symbols of a line that is being written.                            *)

Marked == Words \cup {"(", "=", "%", "v"}

(* A field with its name, between the separators at a and b.               *)
Holds(t, name, a, b) ==
  /\ a \in Nat /\ b \in Nat
  /\ t[a + 1] = name /\ t[a + 2] = "="
  /\ \/ b = a + 3
     \/ b = a + 4 /\ t[a + 3] = "v"

(* The first n names are those of the fields behind the place o of t: the  *)
(* k-th one ends before e[k], and "%" is between them.                     *)
Runs(t, names, n, e) ==
  /\ e \in [0 .. n -> 1 .. Len(t) + 1] /\ e[n] = Len(t) + 1
  /\ \A k \in 1 .. n : Holds(t, names[k], e[k - 1], e[k])
  /\ \A k \in 1 .. n - 1 : t[e[k]] = "%"

Laid(t, names, n, o) == \E e : e[0] = o /\ Runs(t, names, n, e)

LEMMA MarkedSymbols ==
  /\ Words \subseteq Marked
  /\ "(" \in Marked /\ "=" \in Marked /\ "%" \in Marked /\ "v" \in Marked
  /\ ")" \notin Marked /\ "\n" \notin Marked
  /\ \A w \in Words : w # "(" /\ w # "=" /\ w # "%" /\ w # "v" /\ w # BLANK /\ w # ")"
BY DEF Marked, Words, BLANK

(* One field, behind "%".                                                  *)
LEMMA OneField ==
  ASSUME NEW w \in Words, NEW width, NEW names, names[1] = w
  PROVE  LET t == <<"%">> \o Field(w, width)
         IN  t \in Seq(Marked) /\ t[1] = "%" /\ Laid(t, names, 1, 1)
<1> DEFINE t == <<"%">> \o Field(w, width)
<1>1. /\ w \in Marked /\ "=" \in Marked /\ "%" \in Marked /\ "v" \in Marked
  BY MarkedSymbols
<1>2. CASE width = 0
  <2>1. t = <<"%">> \o (<<w, "=">> \o <<>>)
    BY <1>2 DEF Field
  <2> DEFINE e == [k \in 0 .. 1 |-> IF k = 0 THEN 1 ELSE 4]
  <2>2. t \in Seq(Marked) /\ Len(t) = 3 /\ t[1] = "%" /\ t[2] = w /\ t[3] = "="
    <3> DEFINE y == <<w, "=">>
               z == <<>>
               h == <<"%">>
    <3>1. y \in Seq(Marked) /\ Len(y) = 2 /\ y[1] = w /\ y[2] = "="
      BY <1>1
    <3>2. z \in Seq(Marked) /\ Len(z) = 0
      BY <1>1
    <3>3. h \in Seq(Marked) /\ Len(h) = 1 /\ h[1] = "%"
      BY <1>1
    <3>4. t = h \o (y \o z)
      BY <2>1
    <3> HIDE DEF y, z, h, t
    <3>5. PICK v : v = y \o z
      OBVIOUS
    <3>6. /\ v \in Seq(Marked) /\ Len(v) = 2
          /\ \A i \in 1 .. 2 : v[i] = y[i]
          /\ \A i \in 1 .. Len(z) : v[2 + i] = z[i]
      BY <3>1, <3>2, <3>5, ConcatProperties
    <3>7. /\ t \in Seq(Marked) /\ Len(t) = 3 /\ t[1] = h[1]
          /\ \A i \in 1 .. 2 : t[1 + i] = v[i]
      BY <3>3, <3>4, <3>5, <3>6, ConcatProperties
    <3>8. t[1 + 1] = v[1] /\ t[1 + 2] = v[2]
      BY <3>7
    <3>9. QED
      BY <3>1, <3>2, <3>3, <3>6, <3>7, <3>8
  <2> HIDE DEF t
  <2>3. e[0] = 1 /\ e[1] = 4 /\ e \in [0 .. 1 -> 1 .. 4]
    OBVIOUS
  <2> HIDE DEF e
  <2>4. Holds(t, names[1], e[0], e[1])
    BY <2>2, <2>3 DEF Holds
  <2>5. \A k \in 1 .. 1 : k = 1 /\ k - 1 = 0
    OBVIOUS
  <2>6. \A k \in 1 .. 1 : Holds(t, names[k], e[k - 1], e[k])
    BY <2>4, <2>5
  <2>7. Runs(t, names, 1, e)
    BY <2>2, <2>3, <2>6 DEF Runs
  <2>8. QED
    BY <2>2, <2>3, <2>7 DEF Laid, t
<1>3. CASE width # 0
  <2>1. t = <<"%">> \o (<<w, "=">> \o <<"v">>)
    BY <1>3 DEF Field
  <2> DEFINE e == [k \in 0 .. 1 |-> IF k = 0 THEN 1 ELSE 5]
  <2>2. t \in Seq(Marked) /\ Len(t) = 4 /\ t[1] = "%" /\ t[2] = w /\ t[3] = "=" /\ t[4] = "v"
    <3> DEFINE y == <<w, "=">>
               z == <<"v">>
               h == <<"%">>
    <3>1. y \in Seq(Marked) /\ Len(y) = 2 /\ y[1] = w /\ y[2] = "="
      BY <1>1
    <3>2. z \in Seq(Marked) /\ Len(z) = 1 /\ z[1] = "v"
      BY <1>1
    <3>3. h \in Seq(Marked) /\ Len(h) = 1 /\ h[1] = "%"
      BY <1>1
    <3>4. t = h \o (y \o z)
      BY <2>1
    <3> HIDE DEF y, z, h, t
    <3>5. PICK v : v = y \o z
      OBVIOUS
    <3>6. /\ v \in Seq(Marked) /\ Len(v) = 3
          /\ \A i \in 1 .. 2 : v[i] = y[i]
          /\ \A i \in 1 .. Len(z) : v[2 + i] = z[i]
      BY <3>1, <3>2, <3>5, ConcatProperties
    <3>7. /\ t \in Seq(Marked) /\ Len(t) = 4 /\ t[1] = h[1]
          /\ \A i \in 1 .. 3 : t[1 + i] = v[i]
      <4>1. t = h \o v
        BY <3>4, <3>5
      <4>2. t \in Seq(Marked) /\ Len(t) = 1 + 3 /\ t[1] = h[1]
        <5>1. t \in Seq(Marked) /\ Len(t) = Len(h) + Len(v)
          BY <3>3, <3>6, <4>1, ConcatProperties
        <5>2. \A i \in 1 .. Len(h) : t[i] = h[i]
          BY <3>3, <3>6, <4>1, ConcatProperties
        <5>3. QED
          BY <3>3, <3>6, <5>1, <5>2
      <4>3. \A i \in 1 .. Len(v) : t[Len(h) + i] = v[i]
        BY <3>3, <3>6, <4>1, ConcatProperties
      <4>4. QED
        BY <3>3, <3>6, <4>2, <4>3
    <3>8. t[1 + 1] = v[1] /\ t[1 + 2] = v[2] /\ t[1 + 3] = v[2 + 1]
      BY <3>7
    <3>9. QED
      BY <3>1, <3>2, <3>3, <3>6, <3>7, <3>8
  <2> HIDE DEF t
  <2>3. e[0] = 1 /\ e[1] = 5 /\ e \in [0 .. 1 -> 1 .. 5]
    OBVIOUS
  <2> HIDE DEF e
  <2>4. Holds(t, names[1], e[0], e[1])
    BY <2>2, <2>3 DEF Holds
  <2>5. \A k \in 1 .. 1 : k = 1 /\ k - 1 = 0
    OBVIOUS
  <2>6. \A k \in 1 .. 1 : Holds(t, names[k], e[k - 1], e[k])
    BY <2>4, <2>5
  <2>7. Runs(t, names, 1, e)
    BY <2>2, <2>3, <2>6 DEF Runs
  <2>8. QED
    BY <2>2, <2>3, <2>7 DEF Laid, t
<1>4. QED
  BY <1>2, <1>3

(* The text u is t and x behind it, but for the "%" of x where t is the    *)
(* start of a line; the names c are the m of a and the n of b.             *)
Continues(u, t, x, m) ==
  /\ Len(u) = Len(t) + Len(x)
  /\ \A i \in 1 .. Len(t) : u[i] = t[i]
  /\ \A i \in 2 .. Len(x) : u[Len(t) + i] = x[i]
  /\ m > 0 => u[Len(t) + 1] = "%"

NamesOfBoth(c, a, m, b, n) ==
  (\A k \in 1 .. m : c[k] = a[k]) /\ (\A k \in 1 .. n : c[m + k] = b[k])

LEMMA LaidBehind ==
  ASSUME NEW S, NEW t \in Seq(S), NEW x \in Seq(S), NEW u \in Seq(S),
         NEW m \in Nat, NEW n \in Nat \ {0}, NEW a, NEW b, NEW c, NEW o,
         Laid(t, a, m, o), Laid(x, b, n, 1), Continues(u, t, x, m), NamesOfBoth(c, a, m, b, n)
  PROVE  Laid(u, c, m + n, o)
<1>0. /\ Len(u) = Len(t) + Len(x)
      /\ \A i \in 1 .. Len(t) : u[i] = t[i]
      /\ \A i \in 2 .. Len(x) : u[Len(t) + i] = x[i]
      /\ m > 0 => u[Len(t) + 1] = "%"
      /\ \A k \in 1 .. m : c[k] = a[k]
      /\ \A k \in 1 .. n : c[m + k] = b[k]
  BY DEF Continues, NamesOfBoth
<1>1. PICK l \in Nat, r \in Nat :
        /\ l = Len(t) /\ r = Len(x) /\ Len(u) = l + r
        /\ \A i \in 1 .. l : u[i] = t[i]
        /\ \A i \in 2 .. r : u[l + i] = x[i]
        /\ m > 0 => u[l + 1] = "%"
  BY <1>0, LenProperties
<1>2. PICK e : e[0] = o /\ Runs(t, a, m, e)
  BY DEF Laid
<1>3. PICK f : f[0] = 1 /\ Runs(x, b, n, f)
  BY DEF Laid
<1>4. /\ e \in [0 .. m -> 1 .. l + 1] /\ e[m] = l + 1
      /\ \A k \in 1 .. m : Holds(t, a[k], e[k - 1], e[k])
      /\ \A k \in 1 .. m - 1 : t[e[k]] = "%"
  BY <1>1, <1>2 DEF Runs
<1>5. /\ f \in [0 .. n -> 1 .. r + 1] /\ f[n] = r + 1
      /\ \A k \in 1 .. n : Holds(x, b[k], f[k - 1], f[k])
      /\ \A k \in 1 .. n - 1 : x[f[k]] = "%"
  BY <1>1, <1>3 DEF Runs
<1> DEFINE g == [k \in 0 .. m + n |-> IF k <= m THEN e[k] ELSE l + f[k - m]]
<1>6. \A k \in 0 .. m : g[k] = e[k] /\ e[k] \in Nat /\ e[k] <= l + 1
  BY <1>4
<1>7. \A k \in 0 .. n : g[m + k] = l + f[k] /\ f[k] \in Nat /\ f[k] <= r + 1 /\ 1 <= f[k]
  <2> SUFFICES ASSUME NEW k \in 0 .. n
               PROVE  g[m + k] = l + f[k] /\ f[k] \in Nat /\ f[k] <= r + 1 /\ 1 <= f[k]
    OBVIOUS
  <2>1. f[k] \in 1 .. r + 1
    BY <1>5
  <2>2. m + k \in 0 .. m + n
    OBVIOUS
  <2>3. CASE k = 0
    <3>1. m + k = m /\ m <= m
      BY <2>3
    <3>2. g[m + k] = e[m]
      BY <2>2, <3>1
    <3>3. QED
      BY <1>3, <1>4, <2>1, <2>3, <3>2
  <2>4. CASE k # 0
    <3>1. ~ m + k <= m /\ (m + k) - m = k
      BY <2>4
    <3>2. g[m + k] = l + f[(m + k) - m]
      BY <2>2, <3>1
    <3>3. QED
      BY <2>1, <3>1, <3>2
  <2>5. QED
    BY <2>3, <2>4
<1>8. g \in [0 .. m + n -> 1 .. (l + r) + 1]
  <2>1. ASSUME NEW k \in 0 .. m + n
        PROVE  (IF k <= m THEN e[k] ELSE l + f[k - m]) \in 1 .. (l + r) + 1
    <3>1. CASE k <= m
      <4>1. e[k] \in 1 .. l + 1
        BY <1>4, <3>1
      <4>2. QED
        BY <3>1, <4>1
    <3>2. CASE ~ k <= m
      <4>1. k - m \in 0 .. n
        BY <3>2
      <4>2. f[k - m] \in 1 .. r + 1
        BY <1>5, <4>1
      <4>3. QED
        BY <3>2, <4>2
    <3>3. QED
      BY <3>1, <3>2
  <2>2. QED
    BY <2>1
<1> HIDE DEF g
<1>9. g[0] = o /\ g[m + n] = (l + r) + 1
  <2>1. 0 \in 0 .. m /\ n \in 0 .. n
    OBVIOUS
  <2>2. g[m + n] = l + f[n]
    BY <1>7, <2>1
  <2>3. g[0] = e[0]
    BY <1>6, <2>1
  <2>4. QED
    BY <1>2, <1>5, <2>2, <2>3
<1>10. ASSUME NEW k \in 1 .. m + n PROVE Holds(u, c[k], g[k - 1], g[k])
  <2>1. CASE k <= m
    <3>1. k \in 1 .. m /\ k \in 0 .. m /\ k - 1 \in 0 .. m
      BY <2>1
    <3>2. Holds(t, a[k], e[k - 1], e[k]) /\ c[k] = a[k]
      BY <1>0, <1>4, <3>1
    <3>3. PICK p \in Nat, q \in Nat : p = e[k - 1] /\ q = e[k] /\ q <= l + 1
      BY <1>6, <3>1
    <3>4. g[k - 1] = p /\ g[k] = q
      BY <1>6, <3>1, <3>3
    <3>5. Holds(t, a[k], p, q)
      BY <3>2, <3>3
    <3>6. \A i \in Nat : 1 <= i /\ i <= l => u[i] = t[i]
      BY <1>1
    <3>7. /\ p + 1 \in Nat /\ 1 <= p + 1 /\ p + 1 <= l
          /\ p + 2 \in Nat /\ 1 <= p + 2 /\ p + 2 <= l
          /\ q = p + 4 => p + 3 \in Nat /\ 1 <= p + 3 /\ p + 3 <= l
      <4>1. q = p + 3 \/ q = p + 4
        BY <3>5 DEF Holds
      <4>2. q <= l + 1
        BY <3>3
      <4>3. QED
        BY <4>1, <4>2
    <3>8. Holds(u, c[k], p, q)
      BY <3>2, <3>3, <3>5, <3>6, <3>7 DEF Holds
    <3>9. QED
      BY <3>4, <3>8
  <2>2. CASE ~ k <= m
    <3>1. PICK j \in 1 .. n : k = m + j /\ k - 1 = m + (j - 1) /\ j - 1 \in 0 .. n /\ j \in 0 .. n
      <4>1. /\ k - m \in 1 .. n /\ k = m + (k - m) /\ k - 1 = m + ((k - m) - 1)
            /\ (k - m) - 1 \in 0 .. n /\ k - m \in 0 .. n
        BY <2>2
      <4>2. QED
        BY <4>1
    <3>2. Holds(x, b[j], f[j - 1], f[j]) /\ c[k] = b[j]
      BY <1>0, <1>5, <3>1
    <3>3. PICK p \in Nat, q \in Nat : p = f[j - 1] /\ q = f[j] /\ q <= r + 1 /\ 1 <= p
      BY <1>7, <3>1
    <3>4. g[k - 1] = l + p /\ g[k] = l + q
      BY <1>7, <3>1, <3>3
    <3>5. Holds(x, b[j], p, q)
      BY <3>2, <3>3
    <3>6. \A i \in Nat : 2 <= i /\ i <= r => u[l + i] = x[i]
      BY <1>1
    <3>7. /\ u[l + (p + 1)] = x[p + 1] /\ u[l + (p + 2)] = x[p + 2]
          /\ q = p + 4 => u[l + (p + 3)] = x[p + 3]
      <4>1. /\ p + 1 \in Nat /\ 2 <= p + 1 /\ p + 1 <= r
            /\ p + 2 \in Nat /\ 2 <= p + 2 /\ p + 2 <= r
            /\ q = p + 4 => p + 3 \in Nat /\ 2 <= p + 3 /\ p + 3 <= r
        <5>1. q = p + 3 \/ q = p + 4
          BY <3>5 DEF Holds
        <5>2. q <= r + 1 /\ 1 <= p
          BY <3>3
        <5>3. QED
          BY <5>1, <5>2
      <4>2. QED
        BY <3>6, <4>1
    <3>8. /\ l + (p + 1) = (l + p) + 1 /\ l + (p + 2) = (l + p) + 2 /\ l + (p + 3) = (l + p) + 3
          /\ l + p \in Nat /\ l + q \in Nat
      OBVIOUS
    <3>9. /\ q = p + 3 => l + q = (l + p) + 3
          /\ q = p + 4 => l + q = (l + p) + 4
      OBVIOUS
    <3>10. /\ x[p + 1] = b[j] /\ x[p + 2] = "="
           /\ \/ q = p + 3
              \/ q = p + 4 /\ x[p + 3] = "v"
      BY <3>5 DEF Holds
    <3>11. /\ u[(l + p) + 1] = c[k] /\ u[(l + p) + 2] = "="
           /\ \/ l + q = (l + p) + 3
              \/ l + q = (l + p) + 4 /\ u[(l + p) + 3] = "v"
      BY <3>2, <3>7, <3>8, <3>9, <3>10
    <3>12. Holds(u, c[k], l + p, l + q)
      BY <3>8, <3>11 DEF Holds
    <3>13. QED
      BY <3>4, <3>12
  <2>3. QED
    BY <2>1, <2>2
<1>11. ASSUME NEW k \in 1 .. (m + n) - 1 PROVE u[g[k]] = "%"
  <2>1. CASE k < m
    <3>1. k \in 1 .. m - 1 /\ k \in 0 .. m /\ k \in 1 .. m /\ k + 1 \in 1 .. m /\ (k + 1) - 1 = k
      BY <2>1
    <3>2. t[e[k]] = "%" /\ g[k] = e[k]
      BY <1>4, <1>6, <3>1
    <3>3. PICK p \in Nat : p = e[k] /\ p <= l /\ 1 <= p
      <4>1. Holds(t, a[k + 1], e[k], e[k + 1]) /\ e[k + 1] \in 1 .. l + 1 /\ e[k] \in 1 .. l + 1
        BY <1>4, <3>1
      <4>2. e[k] < e[k + 1]
        BY <4>1 DEF Holds
      <4>3. e[k] \in Nat /\ e[k] <= l /\ 1 <= e[k]
        BY <4>1, <4>2
      <4>4. QED
        BY <4>3
    <3>4. u[p] = t[p]
      BY <1>1, <3>3
    <3>5. QED
      BY <3>2, <3>3, <3>4
  <2>2. CASE k = m
    <3>1. m \in 0 .. m /\ m > 0
      BY <2>2
    <3>2. g[k] = l + 1
      BY <1>4, <1>6, <2>2, <3>1
    <3>3. QED
      BY <1>1, <3>1, <3>2
  <2>3. CASE k > m
    <3>1. PICK j \in 1 .. n - 1 : k = m + j /\ j \in 0 .. n /\ j \in 1 .. n
      <4>1. k - m \in 1 .. n - 1 /\ k = m + (k - m) /\ k - m \in 0 .. n /\ k - m \in 1 .. n
        BY <2>3
      <4>2. QED
        BY <4>1
    <3>2. x[f[j]] = "%" /\ g[k] = l + f[j]
      BY <1>5, <1>7, <3>1
    <3>3. PICK p \in Nat : p = f[j] /\ 2 <= p /\ p <= r
      <4>1. Holds(x, b[j], f[j - 1], f[j]) /\ f[j] \in 1 .. r + 1
        BY <1>5, <3>1
      <4>2. j + 1 \in 1 .. n /\ (j + 1) - 1 = j
        BY <3>1
      <4>3. Holds(x, b[j + 1], f[j], f[j + 1]) /\ f[j + 1] \in 1 .. r + 1
        BY <1>5, <4>2
      <4>4. PICK low \in Nat, mid \in Nat, top \in Nat :
              low = f[j - 1] /\ mid = f[j] /\ top = f[j + 1] /\ top <= r + 1
        <5>1. f[j - 1] \in Nat /\ f[j] \in Nat /\ f[j + 1] \in Nat
          BY <4>1, <4>3 DEF Holds
        <5>2. f[j + 1] <= r + 1
          BY <4>3
        <5>3. QED
          BY <5>1, <5>2
      <4>5. mid > low /\ top > mid /\ mid >= 2
        <5>1. mid = low + 3 \/ mid = low + 4
          BY <4>1, <4>4 DEF Holds
        <5>2. top = mid + 3 \/ top = mid + 4
          BY <4>3, <4>4 DEF Holds
        <5>3. QED
          BY <5>1, <5>2
      <4>7. f[j] \in Nat /\ 2 <= f[j] /\ f[j] <= r
        <5>1. mid < top /\ top <= r + 1 => mid <= r
          OBVIOUS
        <5>2. 2 <= mid /\ mid <= r
          BY <4>4, <4>5, <5>1
        <5>3. QED
          BY <4>4, <5>2
      <4>8. QED
        BY <4>7
    <3>4. u[l + p] = x[p]
      <4>1. p \in 2 .. r
        BY <3>3
      <4>2. QED
        BY <1>1, <4>1
    <3>5. QED
      BY <3>2, <3>3, <3>4
  <2>4. QED
    BY <2>1, <2>2, <2>3
<1>12. Runs(u, c, m + n, g)
  BY <1>1, <1>8, <1>9, <1>10, <1>11 DEF Runs
<1>13. QED
  BY <1>9, <1>12 DEF Laid

(* The first of some texts, one behind the other.                          *)
Flattening(texts, f) ==
  [i \in 1 .. Len(texts) |-> IF i = 1 THEN texts[i] ELSE f[i - 1] \o texts[i]]
Flattened(texts) == CHOOSE f : f = Flattening(texts, f)

LEMMA FlatIsFlattened ==
  ASSUME NEW s, Len(s) # 0
  PROVE  FlattenSeq(s) = Flattened(s)[Len(s)]
BY Zenon DEF FlattenSeq, Flattening, Flattened

LEMMA FlattenSteps ==
  ASSUME NEW R, NEW s \in Seq(Seq(R)), Len(s) >= 1
  PROVE  /\ Flattened(s)[1] = s[1]
         /\ \A n \in Nat : 1 <= n /\ n < Len(s) => Flattened(s)[n + 1] = Flattened(s)[n] \o s[n + 1]
<1> DEFINE S == Seq(R)
           c == s[1]
           g == [x \in Nat \X S |-> IF x[1] + 2 \in 1 .. Len(s) THEN x[2] \o s[x[1] + 2] ELSE x[2]]
<1>1. Len(s) \in Nat /\ \A n \in 1 .. Len(s) : s[n] \in S
  BY ElementOfSeq
<1>2. \A j \in Nat, t \in S : g[<<j, t>>] = IF j + 2 \in 1 .. Len(s) THEN t \o s[j + 2] ELSE t
  OBVIOUS
<1>3. c \in S
  BY <1>1
<1>4. g \in StepOn(S)
  <2>1. ASSUME NEW x \in Nat \X S
        PROVE  (IF x[1] + 2 \in 1 .. Len(s) THEN x[2] \o s[x[1] + 2] ELSE x[2]) \in S
    <3>1. x[2] \in Seq(R)
      OBVIOUS
    <3>2. CASE x[1] + 2 \in 1 .. Len(s)
      <4>1. s[x[1] + 2] \in Seq(R)
        BY <1>1, <3>2
      <4>2. x[2] \o s[x[1] + 2] \in Seq(R)
        BY <3>1, <4>1, ConcatProperties
      <4>3. QED
        BY <3>2, <4>2
    <3>3. QED
      BY <3>1, <3>2
  <2>2. QED
    BY <2>1 DEF StepOn
<1>5. c = s[1]
  OBVIOUS
<1> HIDE DEF g, S, c
<1>6. PICK f \in [Nat -> S] : f[0] = c /\ \A j \in Nat : f[j + 1] = g[<<j, f[j]>>]
  BY ONLY <1>3, <1>4, Recursion
<1> DEFINE h == [i \in 1 .. Len(s) |-> f[i - 1]]
<1>7. \A j \in Nat : j + 2 <= Len(s) => f[j + 1] = f[j] \o s[j + 2]
  <2> SUFFICES ASSUME NEW j \in Nat, j + 2 <= Len(s) PROVE f[j + 1] = f[j] \o s[j + 2]
    OBVIOUS
  <2>1. j + 2 \in 1 .. Len(s) /\ f[j] \in S
    BY <1>1, <1>6
  <2>2. f[j + 1] = g[<<j, f[j]>>]
    BY <1>6
  <2>3. QED
    BY <1>2, <2>1, <2>2
<1>8. h = Flattening(s, h)
  <2>1. ASSUME NEW i \in 1 .. Len(s)
        PROVE  h[i] = IF i = 1 THEN s[i] ELSE h[i - 1] \o s[i]
    <3>1. CASE i = 1
      <4>1. i - 1 = 0
        BY <3>1
      <4>2. QED
        BY <1>5, <1>6, <3>1, <4>1
    <3>2. CASE i # 1
      <4>1. PICK m \in Nat : i = m + 2 /\ i - 1 = m + 1 /\ m + 1 \in 1 .. Len(s) /\ m + 2 <= Len(s)
                               /\ (m + 1) - 1 = m
        <5>1. /\ i - 2 \in Nat /\ i = (i - 2) + 2 /\ i - 1 = (i - 2) + 1
              /\ (i - 2) + 1 \in 1 .. Len(s) /\ (i - 2) + 2 <= Len(s) /\ ((i - 2) + 1) - 1 = i - 2
          BY <1>1, <3>2
        <5>2. QED
          BY <5>1
      <4>2. f[m + 1] = f[m] \o s[i]
        BY <1>7, <4>1
      <4>3. h[i] = f[m + 1] /\ h[i - 1] = f[m]
        <5>1. h[i] = f[i - 1]
          OBVIOUS
        <5>2. h[m + 1] = f[(m + 1) - 1]
          BY <4>1
        <5>3. QED
          BY <4>1, <5>1, <5>2
      <4>4. QED
        BY <3>2, <4>2, <4>3
    <3>3. QED
      BY <3>1, <3>2
  <2>2. QED
    BY <2>1 DEF Flattening
<1> HIDE DEF h
<1>9. Flattened(s) = Flattening(s, Flattened(s))
  BY <1>8 DEF Flattened
<1> DEFINE u == Flattened(s)
<1>10. \A i \in 1 .. Len(s) : u[i] = IF i = 1 THEN s[i] ELSE u[i - 1] \o s[i]
  BY <1>9 DEF Flattening
<1> HIDE DEF u
<1>11. u[1] = s[1]
  BY <1>1, <1>10
<1>12. \A n \in Nat : 1 <= n /\ n < Len(s) => u[n + 1] = u[n] \o s[n + 1]
  <2> SUFFICES ASSUME NEW n \in Nat, 1 <= n, n < Len(s) PROVE u[n + 1] = u[n] \o s[n + 1]
    OBVIOUS
  <2>1. n + 1 \in 1 .. Len(s) /\ (n + 1) - 1 = n /\ n + 1 # 1
    BY <1>1
  <2>2. QED
    BY <1>10, <2>1
<1>13. QED
  BY <1>11, <1>12 DEF u

(* Where a field is, there are symbols.                                    *)
LEMMA LaidIsText ==
  ASSUME NEW z \in Seq(Marked), NEW c, NEW j \in Nat \ {0}, NEW o, Laid(z, c, j, o)
  PROVE  Len(z) \in Nat /\ Len(z) >= 1
<1>1. PICK e : Runs(z, c, j, e)
  BY DEF Laid
<1>2. PICK l \in Nat : l = Len(z)
  BY LenProperties
<1>3. e \in [0 .. j -> 1 .. l + 1] /\ e[j] = l + 1 /\ Holds(z, c[j], e[j - 1], e[j])
  BY <1>1, <1>2 DEF Runs
<1>4. PICK a \in Nat, b \in Nat : a = e[j - 1] /\ b = e[j] /\ b > a
  <2>1. e[j - 1] \in Nat /\ e[j] \in Nat
    BY <1>3 DEF Holds
  <2>2. PICK a \in Nat, b \in Nat : a = e[j - 1] /\ b = e[j]
    BY <2>1
  <2>3. b = a + 3 \/ b = a + 4
    BY <1>3, <2>2 DEF Holds
  <2>4. QED
    BY <2>2, <2>3
<1>5. l + 1 = b /\ 1 <= a
  <2>1. j - 1 \in 0 .. j
    OBVIOUS
  <2>2. e[j - 1] \in 1 .. l + 1
    BY <1>3, <2>1
  <2>3. QED
    BY <1>3, <1>4, <2>2
<1>6. l >= 1
  BY <1>4, <1>5
<1>7. QED
  BY <1>2, <1>6

(* All the fields of a piece, each behind "%".                             *)
FlatFields(names) ==
  FlattenSeq([k \in DOMAIN names |-> <<"%">> \o Field(names[k], Widths(names)[k])])

LEMMA FieldsInARow ==
  ASSUME NEW names \in Seq(Words), Len(names) >= 1
  PROVE  /\ FlatFields(names) \in Seq(Marked) /\ FlatFields(names)[1] = "%"
         /\ Laid(FlatFields(names), names, Len(names), 1)
<1> DEFINE s == [k \in DOMAIN names |-> <<"%">> \o Field(names[k], Widths(names)[k])]
           n == Len(names)
           u == Flattened(s)
<1>1. n \in Nat /\ n >= 1 /\ DOMAIN names = 1 .. n /\ \A k \in 1 .. n : names[k] \in Words
  BY ElementOfSeq
<1>2. ASSUME NEW k \in 1 .. n
      PROVE  /\ s[k] \in Seq(Marked) /\ s[k][1] = "%"
             /\ \A c : c[1] = names[k] => Laid(s[k], c, 1, 1)
  <2>1. PICK w, width : w \in Words /\ w = names[k] /\ width = Widths(names)[k]
    BY <1>1
  <2>2. s[k] = <<"%">> \o Field(w, width)
    BY <1>1, <2>1
  <2> DEFINE one == [i \in {1} |-> w]
  <2>3. one[1] = w
    OBVIOUS
  <2> HIDE DEF s, one
  <2>4. s[k] \in Seq(Marked) /\ s[k][1] = "%"
    BY <2>1, <2>2, <2>3, OneField
  <2>5. ASSUME NEW c, c[1] = names[k] PROVE Laid(s[k], c, 1, 1)
    BY <2>1, <2>2, <2>5, OneField
  <2>6. QED
    BY <2>4, <2>5
<1>3. s \in Seq(Seq(Marked)) /\ Len(s) = n
  <2>1. s \in [1 .. n -> Seq(Marked)]
    BY <1>1, <1>2
  <2> HIDE DEF s
  <2>2. QED
    BY <1>1, <2>1
<1>4. FlatFields(names) = u[n]
  <2>1. FlatFields(names) = FlattenSeq(s)
    BY DEF FlatFields
  <2> HIDE DEF s
  <2>2. Len(s) # 0
    BY <1>1, <1>3
  <2>3. QED
    BY <1>3, <2>1, <2>2, FlatIsFlattened
<1> HIDE DEF s
<1>5. u[1] = s[1] /\ \A k \in Nat : 1 <= k /\ k < n => u[k + 1] = u[k] \o s[k + 1]
  <2>1. Len(s) >= 1
    BY <1>1, <1>3
  <2>2. QED
    BY <1>3, <2>1, FlattenSteps
<1> HIDE DEF u, n
<1> DEFINE T == {k \in Nat : k < n => /\ u[k + 1] \in Seq(Marked) /\ u[k + 1][1] = "%"
                                      /\ Laid(u[k + 1], names, k + 1, 1)}
<1>6. 0 \in T
  <2>1. 1 \in 1 .. n /\ 0 + 1 = 1
    BY <1>1
  <2>2. Laid(s[1], names, 1, 1) /\ s[1] \in Seq(Marked) /\ s[1][1] = "%"
    BY <1>2, <2>1
  <2>3. QED
    BY <1>5, <2>1, <2>2
<1>7. ASSUME NEW k \in Nat, k \in T PROVE k + 1 \in T
  <2> SUFFICES ASSUME k + 1 < n
               PROVE  /\ u[(k + 1) + 1] \in Seq(Marked) /\ u[(k + 1) + 1][1] = "%"
                      /\ Laid(u[(k + 1) + 1], names, (k + 1) + 1, 1)
    OBVIOUS
  <2>1. PICK m \in Nat : m = k + 1 /\ 1 <= m /\ m < n
    OBVIOUS
  <2>2. PICK t : t = u[m]
    OBVIOUS
  <2>3. t \in Seq(Marked) /\ t[1] = "%" /\ Laid(t, names, m, 1)
    BY <1>1, <1>7, <2>1, <2>2
  <2>4. m + 1 \in 1 .. n
    BY <1>1, <2>1
  <2>5. PICK x : x = s[m + 1]
    OBVIOUS
  <2> DEFINE one == [i \in {1} |-> names[m + 1]]
  <2>6. one[1] = names[m + 1] /\ \A i \in 1 .. 1 : i = 1
    OBVIOUS
  <2> HIDE DEF one
  <2>7. x \in Seq(Marked) /\ x[1] = "%" /\ Laid(x, one, 1, 1)
    BY <1>2, <2>4, <2>5, <2>6
  <2>8. PICK y : y = t \o x
    OBVIOUS
  <2>9. y = u[m + 1]
    BY <1>5, <2>1, <2>2, <2>5, <2>8
  <2>10. /\ y \in Seq(Marked) /\ Len(y) = Len(t) + Len(x)
         /\ \A i \in 1 .. Len(t) : y[i] = t[i]
         /\ \A i \in 1 .. Len(x) : y[Len(t) + i] = x[i]
    BY <2>3, <2>7, <2>8, ConcatProperties
  <2>11. Len(t) \in Nat /\ Len(t) >= 1 /\ Len(x) \in Nat /\ Len(x) >= 1
    <3>1. m \in Nat \ {0} /\ 1 \in Nat \ {0}
      BY <2>1
    <3>2. QED
      BY <2>3, <2>7, <3>1, LaidIsText
  <2>12. y[1] = "%" /\ y[Len(t) + 1] = "%"
    BY <2>3, <2>7, <2>10, <2>11
  <2>13. Laid(y, names, m + 1, 1)
    <3>1. Continues(y, t, x, m)
      <4>1. \A i \in 2 .. Len(x) : y[Len(t) + i] = x[i]
        BY <2>10, <2>11
      <4>2. QED
        BY <2>10, <2>12, <4>1 DEF Continues
    <3>2. NamesOfBoth(names, names, m, one, 1)
      BY <2>6 DEF NamesOfBoth
    <3>3. 1 \in Nat \ {0}
      OBVIOUS
    <3>4. t \in Seq(Marked) /\ x \in Seq(Marked) /\ y \in Seq(Marked)
      BY <2>3, <2>7, <2>10
    <3>5. Laid(t, names, m, 1) /\ Laid(x, one, 1, 1)
      BY <2>3, <2>7
    <3>6. QED
      BY <3>1, <3>2, <3>3, <3>4, <3>5, LaidBehind
  <2>14. QED
    BY <2>1, <2>9, <2>10, <2>12, <2>13
<1> HIDE DEF T
<1>8. \A k \in Nat : k \in T
  BY <1>6, <1>7, Induction
<1>9. PICK k \in Nat : n = k + 1 /\ k < n
  <2>1. n - 1 \in Nat /\ n = (n - 1) + 1 /\ n - 1 < n
    BY <1>1
  <2>2. QED
    BY <2>1
<1>10. k \in T
  BY <1>8
<1>11. QED
  BY <1>4, <1>9, <1>10 DEF T, n

(* A line of group g that is open, with the fields of these names.         *)
Written(t, names, g) ==
  /\ t \in Seq(Marked) /\ names \in Seq(Words) /\ Len(names) >= 1 /\ g \in Words
  /\ t[1] = g /\ t[2] = "(" /\ Laid(t, names, Len(names), 2)

(* The text u is s and t behind it.                                        *)
Joint(u, s, t) ==
  /\ Len(u) = Len(s) + Len(t) /\ Len(s) \in Nat /\ Len(t) \in Nat
  /\ \A i \in 1 .. Len(s) : u[i] = s[i]
  /\ \A i \in 1 .. Len(t) : u[Len(s) + i] = t[i]

LEMMA TextBehind ==
  ASSUME NEW R, NEW s \in Seq(R), NEW t \in Seq(R)
  PROVE  s \o t \in Seq(R) /\ Joint(s \o t, s, t)
BY ConcatProperties, LenProperties DEF Joint

LEMMA OnlyFields ==
  ASSUME NEW names \in Seq(Words), Len(names) >= 1
  PROVE  /\ Fields(names) \in Seq(Marked)
         /\ Len(FlatFields(names)) = Len(Fields(names)) + 1
         /\ \A i \in 1 .. Len(Fields(names)) : Fields(names)[i] = FlatFields(names)[i + 1]
<1> DEFINE x == FlatFields(names)
<1>1. x \in Seq(Marked) /\ Laid(x, names, Len(names), 1)
  BY FieldsInARow
<1>2. Fields(names) = Tail(x)
  BY DEF Fields, FlatFields
<1> HIDE DEF x
<1>3. Len(names) \in Nat \ {0}
  BY LenProperties
<1>4. Len(x) \in Nat /\ Len(x) >= 1
  BY <1>1, <1>3, LaidIsText
<1>5. x # <<>>
  BY <1>1, <1>4, EmptySeq
<1>6. /\ Tail(x) \in Seq(Marked) /\ Len(Tail(x)) = Len(x) - 1
      /\ \A i \in 1 .. Len(Tail(x)) : Tail(x)[i] = x[i + 1]
  BY <1>1, <1>5, HeadTailProperties
<1>7. QED
  BY <1>2, <1>4, <1>6 DEF x

(* The first piece of a line.                                              *)
LEMMA LineStarts ==
  ASSUME NEW g \in Words, NEW names \in Seq(Words), Len(names) >= 1
  PROVE  Written(<<g, "(">> \o Fields(names), names, g)
<1> DEFINE x == FlatFields(names)
           y == Fields(names)
           h == <<g, "(">>
           t == <<g>>
           u == h \o y
           n == Len(names)
<1>1. /\ x \in Seq(Marked) /\ Laid(x, names, n, 1)
      /\ y \in Seq(Marked) /\ Len(x) = Len(y) + 1
      /\ \A i \in 1 .. Len(y) : y[i] = x[i + 1]
  BY FieldsInARow, OnlyFields
<1>2. n \in Nat \ {0} /\ 0 + n = n
  BY LenProperties
<1>3. g \in Marked /\ "(" \in Marked
  BY MarkedSymbols
<1>4. h \in Seq(Marked) /\ Len(h) = 2 /\ h[1] = g /\ h[2] = "("
  BY <1>3
<1>5. t \in Seq(Marked) /\ Len(t) = 1 /\ t[1] = g
  BY <1>3
<1> HIDE DEF x, y, h, t, n
<1>6. /\ u \in Seq(Marked) /\ Len(u) = 2 + Len(y) /\ Len(y) \in Nat
      /\ \A i \in 1 .. 2 : u[i] = h[i]
      /\ \A i \in 1 .. Len(y) : u[2 + i] = y[i]
  <2>1. u \in Seq(Marked) /\ Joint(u, h, y)
    BY <1>1, <1>4, TextBehind
  <2> HIDE DEF u
  <2>2. QED
    BY <1>4, <2>1 DEF Joint
<1> HIDE DEF u
<1>7. Laid(t, names, 0, 2)
  <2> DEFINE e == [k \in 0 .. 0 |-> 2]
  <2>1. e \in [0 .. 0 -> 1 .. 2] /\ e[0] = 2
    OBVIOUS
  <2>2. Runs(t, names, 0, e)
    BY <1>5, <2>1 DEF Runs
  <2>3. QED
    BY <2>1, <2>2 DEF Laid
<1>8. Continues(u, t, x, 0)
  <2>1. ASSUME NEW i \in 2 .. Len(x) PROVE u[1 + i] = x[i]
    <3>1. PICK k \in 1 .. Len(y) : i = k + 1 /\ 1 + i = 2 + k
      <4>1. i - 1 \in 1 .. Len(y) /\ i = (i - 1) + 1 /\ 1 + i = 2 + (i - 1)
        BY <1>1, <1>6
      <4>2. QED
        BY <4>1
    <3>2. QED
      BY <1>1, <1>6, <3>1
  <2>2. Len(u) = 1 + Len(x)
    BY <1>1, <1>6
  <2>3. \A i \in 1 .. 1 : u[i] = t[i]
    BY <1>4, <1>5, <1>6
  <2>4. QED
    BY <1>5, <2>1, <2>2, <2>3 DEF Continues
<1>9. NamesOfBoth(names, names, 0, names, n)
  BY <1>2 DEF NamesOfBoth
<1>10. Laid(u, names, 0 + n, 2)
  <2>1. 0 \in Nat
    OBVIOUS
  <2>2. QED
    BY <1>1, <1>2, <1>5, <1>6, <1>7, <1>8, <1>9, <2>1, LaidBehind
<1>11. u[1] = g /\ u[2] = "("
  BY <1>4, <1>6
<1>12. QED
  BY <1>2, <1>6, <1>10, <1>11 DEF Written, n, u, h, y

(* The pieces behind it.                                                   *)
LEMMA LineContinues ==
  ASSUME NEW g, NEW t, NEW a, Written(t, a, g), NEW b \in Seq(Words), Len(b) >= 1
  PROVE  Written(t \o (<<"%">> \o Fields(b)), a \o b, g)
<1> DEFINE x == FlatFields(b)
           y == Fields(b)
           h == <<"%">>
           z == h \o y
           u == t \o z
           c == a \o b
           m == Len(a)
           n == Len(b)
<1>1. /\ x \in Seq(Marked) /\ Laid(x, b, n, 1) /\ y \in Seq(Marked) /\ Len(x) = Len(y) + 1
      /\ \A i \in 1 .. Len(y) : y[i] = x[i + 1]
  BY FieldsInARow, OnlyFields
<1>2. /\ t \in Seq(Marked) /\ a \in Seq(Words) /\ m >= 1 /\ g \in Words
      /\ t[1] = g /\ t[2] = "(" /\ Laid(t, a, m, 2)
  BY DEF Written
<1>3. n \in Nat \ {0} /\ m \in Nat \ {0}
  BY <1>2, LenProperties
<1>4. h \in Seq(Marked) /\ Len(h) = 1 /\ h[1] = "%"
  BY MarkedSymbols
<1>5. c \in Seq(Words) /\ Len(c) = m + n /\ NamesOfBoth(c, a, m, b, n)
  BY <1>2, TextBehind DEF NamesOfBoth
<1> HIDE DEF x, y, h, n, m, c
<1>6. /\ z \in Seq(Marked) /\ Len(z) = Len(h) + Len(y) /\ Len(y) \in Nat
      /\ \A i \in 1 .. Len(h) : z[i] = h[i]
      /\ \A i \in 1 .. Len(y) : z[Len(h) + i] = y[i]
  <2>1. z \in Seq(Marked) /\ Joint(z, h, y)
    BY <1>1, <1>4, TextBehind
  <2> HIDE DEF z
  <2>2. QED
    BY <2>1 DEF Joint
<1> HIDE DEF z
<1>7. Len(z) = Len(x) /\ z[1] = "%" /\ \A i \in 2 .. Len(x) : z[i] = x[i]
  <2>1. Len(z) = Len(x) /\ z[1] = "%"
    BY <1>1, <1>4, <1>6
  <2>2. ASSUME NEW i \in 2 .. Len(x) PROVE z[i] = x[i]
    <3>1. PICK k \in 1 .. Len(y) : i = k + 1 /\ i = 1 + k
      <4>1. i - 1 \in 1 .. Len(y) /\ i = (i - 1) + 1 /\ i = 1 + (i - 1)
        BY <1>1, <1>6
      <4>2. QED
        BY <4>1
    <3>2. QED
      BY <1>1, <1>4, <1>6, <3>1
  <2>3. QED
    BY <2>1, <2>2
<1>8. /\ u \in Seq(Marked) /\ Len(u) = Len(t) + Len(z) /\ Len(t) \in Nat /\ Len(z) \in Nat
      /\ \A i \in 1 .. Len(t) : u[i] = t[i]
      /\ \A i \in 1 .. Len(z) : u[Len(t) + i] = z[i]
  <2>1. u \in Seq(Marked) /\ Joint(u, t, z)
    BY <1>2, <1>6, TextBehind
  <2> HIDE DEF u
  <2>2. QED
    BY <2>1 DEF Joint
<1> HIDE DEF u
<1>9. Continues(u, t, x, m)
  <2>1. 1 \in 1 .. Len(z) /\ \A i \in 2 .. Len(x) : i \in 1 .. Len(z)
    BY <1>1, <1>6, <1>7, <1>8
  <2>2. u[Len(t) + 1] = "%" /\ \A i \in 2 .. Len(x) : u[Len(t) + i] = x[i]
    BY <1>7, <1>8, <2>1
  <2>3. QED
    BY <1>7, <1>8, <2>2 DEF Continues
<1>10. Laid(u, c, m + n, 2)
  BY <1>1, <1>2, <1>3, <1>5, <1>8, <1>9, LaidBehind
<1>11. u[1] = g /\ u[2] = "("
  <2>1. Len(t) >= 2
    <3>1. PICK e : e[0] = 2 /\ Runs(t, a, m, e)
      BY <1>2 DEF Laid
    <3>2. PICK l \in Nat : l = Len(t)
      BY <1>8
    <3>3. PICK o \in Nat, p \in Nat : o = e[0] /\ p = e[1] /\ p <= l + 1
      <4>1. 0 \in 0 .. m /\ 1 \in 0 .. m
        BY <1>3
      <4>2. e[0] \in 1 .. l + 1 /\ e[1] \in 1 .. l + 1
        BY <3>1, <3>2, <4>1 DEF Runs
      <4>3. QED
        BY <4>2
    <3>4. p = o + 3 \/ p = o + 4
      <4>1. 1 \in 1 .. m /\ 1 - 1 = 0
        BY <1>3
      <4>2. Holds(t, a[1], e[1 - 1], e[1])
        BY <3>1, <4>1 DEF Runs
      <4>3. QED
        BY <3>3, <4>1, <4>2 DEF Holds
    <3>5. QED
      BY <3>1, <3>2, <3>3, <3>4
  <2>2. 1 \in 1 .. Len(t) /\ 2 \in 1 .. Len(t)
    BY <1>8, <2>1
  <2>3. QED
    BY <1>2, <1>8, <2>2
<1>12. Len(c) >= 1
  BY <1>3, <1>5
<1>13. Written(u, c, g)
  <2>1. Laid(u, c, Len(c), 2)
    BY <1>5, <1>10
  <2>2. QED
    BY <1>2, <1>5, <1>8, <1>11, <1>12, <2>1 DEF Written
<1>14. QED
  BY <1>13 DEF u, z, h, y, c

(* "R=N" is a line of one field.                                           *)
LEMMA LineOfR ==
  ASSUME NEW g \in Words
  PROVE  Written(<<g, "(", "R", "=", "v">>, <<"R">>, g)
<1> DEFINE t == <<g, "(", "R", "=", "v">>
           names == <<"R">>
           e == [k \in 0 .. 1 |-> IF k = 0 THEN 2 ELSE 6]
<1>1. g \in Marked /\ "(" \in Marked /\ "R" \in Words /\ "R" \in Marked /\ "=" \in Marked /\ "v" \in Marked
  <2>1. "R" \in Words
    BY DEF Words
  <2>2. QED
    BY <2>1, MarkedSymbols
<1>2. t \in Seq(Marked) /\ Len(t) = 5 /\ t[1] = g /\ t[2] = "(" /\ t[3] = "R" /\ t[4] = "=" /\ t[5] = "v"
  BY <1>1
<1>3. names \in Seq(Words) /\ Len(names) = 1 /\ names[1] = "R"
  BY <1>1
<1>4. e[0] = 2 /\ e[1] = 6 /\ e \in [0 .. 1 -> 1 .. 6]
  OBVIOUS
<1> HIDE DEF t, names, e
<1>5. Holds(t, names[1], e[0], e[1])
  BY <1>2, <1>3, <1>4 DEF Holds
<1>6. \A k \in 1 .. 1 : k = 1 /\ k - 1 = 0
  OBVIOUS
<1>7. \A k \in 1 .. 1 : Holds(t, names[k], e[k - 1], e[k])
  BY <1>5, <1>6
<1>8. Runs(t, names, 1, e)
  BY <1>2, <1>4, <1>7 DEF Runs
<1>9. Laid(t, names, 1, 2)
  BY <1>4, <1>8 DEF Laid
<1>10. QED
  BY <1>2, <1>3, <1>9 DEF Written, t, names

(* The places e are those of the signs, as far as e[n] = r + 3.            *)
Cuts(u, n, r, e) ==
  /\ e \in [0 .. n -> Nat] /\ e[0] = 2 /\ e[n] = r + 3
  /\ \A k \in Nat : k < n =>
       /\ e[k] < e[k + 1] /\ e[k + 1] <= r + 3
       /\ k + 1 < n => u[e[k + 1]] = "%" /\ e[k + 1] < r + 3
       /\ \A p \in e[k] + 1 .. e[k + 1] - 1 : u[p] # "%"

(* Where the fields end is where the parser cuts.                          *)
LEMMA CutsAreEnds ==
  ASSUME NEW u, NEW n \in Nat \ {0}, NEW r \in Nat, NEW e, Cuts(u, n, r, e)
  PROVE  /\ \A m \in 0 .. n : Edge(u, 2, r, m) = e[m] - 2
         /\ PartCount(u, 2, r) = n
<1> DEFINE E(m) == Edge(u, 2, r, m)
           P == PartCount(u, 2, r)
           T == {m \in Nat : m <= n => /\ E(m) = e[m] - 2
                                       /\ m < n => m < P
                                       /\ m = n => P = n}
<1>0. /\ e[0] = 2 /\ e[n] = r + 3
      /\ \A k \in Nat : k < n =>
           /\ e[k] < e[k + 1] /\ e[k + 1] <= r + 3
           /\ k + 1 < n => u[e[k + 1]] = "%" /\ e[k + 1] < r + 3
           /\ \A p \in e[k] + 1 .. e[k + 1] - 1 : u[p] # "%"
  BY DEF Cuts
<1>1. \A m \in 0 .. n : e[m] \in Nat
  BY DEF Cuts
<1>2. P \in Nat /\ P > 0 /\ E(0) = 0
  BY EdgesInOrder DEF Edge
<1>3. \A m \in Nat : m < P =>
        /\ E(m) \in 0 .. r
        /\ E(m + 1) \in E(m) + 1 .. r + 1
        /\ \A j \in E(m) + 1 .. E(m + 1) - 1 : u[2 + j] # "%"
        /\ E(m + 1) <= r => u[2 + E(m + 1)] = "%" /\ m + 1 < P
        /\ E(m + 1) = r + 1 => P = m + 1
  BY NextEdge
<1> HIDE DEF E, P
<1>4. 0 \in T
  BY <1>0, <1>2
<1>5. ASSUME NEW m \in Nat, m \in T PROVE m + 1 \in T
  <2> SUFFICES ASSUME m + 1 <= n
               PROVE  /\ E(m + 1) = e[m + 1] - 2
                      /\ m + 1 < n => m + 1 < P
                      /\ m + 1 = n => P = n
    OBVIOUS
  <2>1. m < n /\ m <= n /\ m \in 0 .. n /\ m + 1 \in 0 .. n
    OBVIOUS
  <2>2. m < P /\ E(m) = e[m] - 2
    BY <1>5, <2>1
  <2>3. PICK a \in Nat, b \in Nat : a = e[m] /\ b = e[m + 1]
    BY <1>1, <2>1
  <2>4. /\ a < b /\ b <= r + 3
        /\ m + 1 < n => u[b] = "%" /\ b < r + 3
        /\ m + 1 = n => b = r + 3
        /\ \A p \in a + 1 .. b - 1 : u[p] # "%"
    BY <1>0, <2>1, <2>3
  <2>5. PICK x : x = E(m + 1)
    OBVIOUS
  <2>6. E(m) = a - 2
    BY <2>2, <2>3
  <2>7. /\ a - 2 \in 0 .. r /\ x \in (a - 2) + 1 .. r + 1
        /\ \A j \in (a - 2) + 1 .. x - 1 : u[2 + j] # "%"
        /\ x <= r => u[2 + x] = "%" /\ m + 1 < P
        /\ x = r + 1 => P = m + 1
    BY <1>3, <2>2, <2>5, <2>6
  <2>8. x \in Int /\ x <= r + 1 /\ a < x + 2
    BY <2>7
  <2>9. x >= b - 2
    <3>1. SUFFICES ASSUME x < b - 2 PROVE FALSE
      BY <2>8
    <3>2. x <= r /\ 2 + x \in a + 1 .. b - 1
      BY <2>4, <2>8, <3>1
    <3>3. QED
      BY <2>4, <2>7, <3>2
  <2>10. x <= b - 2
    <3>1. SUFFICES ASSUME x > b - 2 PROVE FALSE
      BY <2>8
    <3>2. b - 2 \in (a - 2) + 1 .. x - 1 /\ 2 + (b - 2) = b
      BY <2>4, <2>8, <3>1
    <3>3. u[b] # "%"
      BY <2>7, <3>2
    <3>4. m + 1 = n
      BY <2>1, <2>4, <3>3
    <3>5. QED
      BY <2>4, <2>8, <3>1, <3>4
  <2>11. x = b - 2
    BY <2>8, <2>9, <2>10
  <2>12. m + 1 < n => m + 1 < P
    BY <2>4, <2>7, <2>11
  <2>13. m + 1 = n => P = n
    BY <2>4, <2>7, <2>11
  <2>14. QED
    BY <2>3, <2>5, <2>11, <2>12, <2>13
<1> HIDE DEF T
<1>6. \A m \in Nat : m \in T
  BY <1>4, <1>5, Induction
<1>7. \A m \in 0 .. n : E(m) = e[m] - 2
  BY <1>6 DEF T
<1>8. P = n
  <2>1. n \in T
    BY <1>6
  <2>2. QED
    BY <2>1 DEF T
<1>9. QED
  BY <1>7, <1>8 DEF E, P

(* The text u is the line t with its end.                                  *)
Closes(u, t) == u = t \o <<")">>

(* The parser reads a finished line as the group with these fields.        *)
LEMMA LineIsRead ==
  ASSUME NEW t, NEW names, NEW g, Written(t, names, g), NEW u, Closes(u, t)
  PROVE  /\ IsGroup(u)
         /\ [k \in DOMAIN names |-> <<names[k]>>]
              = [k \in DOMAIN GroupOf(u).fields |-> GroupOf(u).fields[k].name]
<1> DEFINE R == Marked \cup {")"}
<1>1. /\ t \in Seq(Marked) /\ names \in Seq(Words) /\ Len(names) >= 1 /\ g \in Words
      /\ t[1] = g /\ t[2] = "("
  BY DEF Written
<1>2. PICK n \in Nat \ {0}, l \in Nat : n = Len(names) /\ l = Len(t) /\ DOMAIN names = 1 .. n
  BY <1>1, LenProperties
<1>3. PICK e : e[0] = 2 /\ Runs(t, names, n, e)
  BY <1>2 DEF Written, Laid
<1>4. /\ e \in [0 .. n -> 1 .. l + 1] /\ e[n] = l + 1
      /\ \A k \in 1 .. n : Holds(t, names[k], e[k - 1], e[k])
      /\ \A k \in 1 .. n - 1 : t[e[k]] = "%"
  BY <1>2, <1>3 DEF Runs
<1>5. \A k \in 1 .. n : names[k] \in Words
  BY <1>1, <1>2, ElementOfSeq
<1>6. \A k \in 0 .. n : e[k] \in Nat /\ e[k] <= l + 1
  BY <1>4
<1>7. ASSUME NEW k \in Nat, k < n
      PROVE  /\ e[k] < e[k + 1] /\ e[k] + 3 <= e[k + 1] /\ e[k + 1] <= l + 1
             /\ k + 1 < n => t[e[k + 1]] = "%" /\ e[k + 1] < l + 1
             /\ t[e[k] + 1] = names[k + 1] /\ t[e[k] + 2] = "="
             /\ \A p \in e[k] + 1 .. e[k + 1] - 1 : t[p] # "%"
  <2>1. k + 1 \in 1 .. n /\ (k + 1) - 1 = k /\ k \in 0 .. n /\ k + 1 \in 0 .. n
    BY <1>7
  <2>2. PICK a \in Nat, b \in Nat : a = e[k] /\ b = e[k + 1] /\ b <= l + 1
    BY <1>6, <2>1
  <2>3. Holds(t, names[k + 1], a, b)
    BY <1>4, <2>1, <2>2
  <2>4. /\ b = a + 3 \/ b = a + 4
        /\ b = a + 4 => t[a + 3] = "v"
        /\ t[a + 1] = names[k + 1] /\ t[a + 2] = "="
    <3>1. b = a + 4 => b # a + 3
      OBVIOUS
    <3>2. QED
      BY <2>3, <3>1 DEF Holds
  <2>5. a < b /\ a + 3 <= b
    BY <2>4
  <2>6. names[k + 1] # "%" /\ "=" # "%" /\ "v" # "%"
    BY <1>5, <2>1, MarkedSymbols
  <2>7. ASSUME NEW p \in a + 1 .. b - 1 PROVE t[p] # "%"
    <3>1. p = a + 1 \/ p = a + 2 \/ (p = a + 3 /\ b = a + 4)
      <4>1. b = a + 3 \/ b = a + 4
        BY <2>4
      <4>2. QED
        BY <4>1
    <3>2. QED
      BY <2>4, <2>6, <3>1
  <2>8. k + 1 < n => t[b] = "%" /\ b < l + 1
    <3>1. SUFFICES ASSUME k + 1 < n PROVE t[b] = "%" /\ b < l + 1
      OBVIOUS
    <3>2. k + 1 \in 1 .. n - 1 /\ (k + 1) + 1 \in 1 .. n /\ ((k + 1) + 1) - 1 = k + 1
          /\ (k + 1) + 1 \in 0 .. n
      BY <3>1
    <3>3. t[b] = "%"
      BY <1>4, <2>2, <3>2
    <3>4. PICK c \in Nat : c = e[(k + 1) + 1] /\ c <= l + 1
      BY <1>6, <3>2
    <3>5. Holds(t, names[(k + 1) + 1], b, c)
      BY <1>4, <2>2, <3>2, <3>4
    <3>6. c = b + 3 \/ c = b + 4
      BY <3>5 DEF Holds
    <3>7. b < l + 1
      BY <3>4, <3>6
    <3>8. QED
      BY <3>3, <3>7
  <2>9. QED
    BY <2>2, <2>4, <2>5, <2>7, <2>8
<1>8. /\ u \in Seq(R) /\ Len(u) = l + 1 /\ u[l + 1] = ")"
      /\ \A i \in 1 .. l : u[i] = t[i] /\ t[i] \in Marked
  <2> DEFINE c == <<")">>
  <2>1. c \in Seq(R) /\ Len(c) = 1 /\ c[1] = ")"
    OBVIOUS
  <2>2. Marked \subseteq R
    OBVIOUS
  <2>3. u = t \o c
    BY DEF Closes
  <2> HIDE DEF c, R
  <2>4. t \in Seq(R)
    BY <1>1, <2>2
  <2>5. u \in Seq(R) /\ Joint(u, t, c)
    BY <2>1, <2>3, <2>4, TextBehind
  <2>6. \A i \in 1 .. l : t[i] \in Marked
    BY <1>1, <1>2, ElementOfSeq
  <2>7. u[l + 1] = c[1]
    BY <1>2, <2>1, <2>5 DEF Joint
  <2>8. Len(u) = l + 1 /\ \A i \in 1 .. l : u[i] = t[i]
    BY <1>2, <2>1, <2>5 DEF Joint
  <2>9. QED
    BY <2>1, <2>5, <2>6, <2>7, <2>8
<1> HIDE DEF R
<1>9. l >= 4
  <2>1. 0 < n /\ 0 \in Nat
    OBVIOUS
  <2>2. e[0] + 3 <= e[0 + 1] /\ e[0 + 1] <= l + 1
    BY <1>7, <2>1
  <2>3. PICK b \in Nat : b = e[0 + 1]
    <3>1. 0 + 1 \in 0 .. n
      OBVIOUS
    <3>2. QED
      BY <1>6, <3>1
  <2>4. 2 + 3 <= b /\ b <= l + 1
    BY <1>3, <2>2, <2>3
  <2>5. QED
    BY <2>4
<1>10. OpenAt(u) = 2
  <2>1. 1 \in 1 .. l /\ 2 \in 1 .. l
    BY <1>9
  <2>2. u[1] # "(" /\ u[2] = "("
    BY <1>1, <1>8, <2>1, MarkedSymbols
  <2>3. PICK k \in Nat, f \in Nat : k = 1 /\ f = 2
    OBVIOUS
  <2>4. k > 0 /\ f <= Len(u) + 1 /\ (f <= Len(u) => k <= f /\ u[f] \in {"("})
    BY <1>8, <1>9, <2>2, <2>3
  <2>5. \A m \in k .. Len(u) : m < f => u[m] \notin {"("}
    BY <2>2, <2>3
  <2>6. FirstOf(u, {"("}, k) = f
    BY <1>8, <2>4, <2>5, FirstOfIs
  <2>7. QED
    BY <2>3, <2>6 DEF OpenAt
<1>11. CloseAt(u) = l + 1
  <2>1. PICK k \in Nat, f \in Nat : k = 3 /\ f = l + 1 /\ k = OpenAt(u) + 1
    BY <1>10
  <2>2. k > 0 /\ f <= Len(u) + 1 /\ (f <= Len(u) => k <= f /\ u[f] \in {")"})
    BY <1>8, <1>9, <2>1
  <2>3. ASSUME NEW m \in k .. Len(u), m < f PROVE u[m] \notin {")"}
    <3>1. m \in 1 .. l
      BY <2>1, <2>3
    <3>2. u[m] \in Marked
      BY <1>8, <3>1
    <3>3. QED
      BY <3>2, MarkedSymbols
  <2>4. FirstOf(u, {")"}, k) = f
    BY <1>8, <2>2, <2>3, FirstOfIs
  <2>5. QED
    BY <2>1, <2>4 DEF CloseAt
<1>12. PICK r \in Nat : r = Room(u) /\ r + 3 = l + 1
  <2>1. Room(u) = (l + 1) - 2 - 1
    BY <1>10, <1>11 DEF Room
  <2>2. (l + 1) - 2 - 1 \in Nat /\ ((l + 1) - 2 - 1) + 3 = l + 1
    BY <1>9
  <2>3. QED
    BY <2>1, <2>2
<1>13. /\ \A m \in 0 .. n : Edge(u, 2, r, m) = e[m] - 2
       /\ PartCount(u, 2, r) = n
  <2>1. e \in [0 .. n -> Nat] /\ e[0] = 2 /\ e[n] = r + 3
    BY <1>3, <1>4, <1>12
  <2>2. ASSUME NEW k \in Nat, k < n
        PROVE  /\ e[k] < e[k + 1] /\ e[k + 1] <= r + 3
               /\ k + 1 < n => u[e[k + 1]] = "%" /\ e[k + 1] < r + 3
               /\ \A p \in e[k] + 1 .. e[k + 1] - 1 : u[p] # "%"
    <3>1. k \in 0 .. n /\ k + 1 \in 0 .. n
      BY <2>2
    <3>2. PICK a \in Nat, b \in Nat : a = e[k] /\ b = e[k + 1]
      BY <1>6, <3>1
    <3>3. /\ a < b /\ b <= l + 1
          /\ k + 1 < n => t[b] = "%" /\ b < l + 1
          /\ \A p \in a + 1 .. b - 1 : t[p] # "%"
      BY <1>7, <2>2, <3>2
    <3>4. \A p \in a + 1 .. b - 1 : u[p] # "%"
      <4>1. \A p \in a + 1 .. b - 1 : p \in 1 .. l
        BY <3>3
      <4>2. QED
        BY <1>8, <3>3, <4>1
    <3>5. k + 1 < n => u[b] = "%" /\ b < r + 3
      <4>1. b < l + 1 => b \in 1 .. l
        BY <3>3
      <4>2. QED
        BY <1>8, <1>12, <3>3, <4>1
    <3>6. QED
      BY <1>12, <3>2, <3>3, <3>4, <3>5
  <2>3. Cuts(u, n, r, e)
    BY <2>1, <2>2 DEF Cuts
  <2>4. QED
    BY <2>3, CutsAreEnds
<1>14. CountIn(u) = n
  BY <1>10, <1>12, <1>13 DEF CountIn
<1>15. ASSUME NEW k \in 1 .. n
       PROVE  IsField(PartIn(u, k)) /\ FieldName(PartIn(u, k)) = <<names[k]>>
  <2>1. PICK j \in Nat : k = j + 1 /\ k - 1 = j /\ j < n /\ j \in 0 .. n /\ j + 1 \in 0 .. n
    <3>1. k - 1 \in Nat /\ k = (k - 1) + 1 /\ k - 1 < n /\ k - 1 \in 0 .. n /\ (k - 1) + 1 \in 0 .. n
      OBVIOUS
    <3>2. QED
      BY <3>1
  <2>2. PICK a \in Nat, b \in Nat : a = e[j] /\ b = e[j + 1]
    BY <1>6, <2>1
  <2>3. a + 3 <= b /\ b <= l + 1 /\ t[a + 1] = names[k] /\ t[a + 2] = "="
    BY <1>7, <2>1, <2>2
  <2>4. PICK x \in Nat, y \in Nat, q \in Nat :
          /\ x = a + 1 /\ y = b - 1 /\ q = a + 2
          /\ x \in 1 .. l /\ q \in 1 .. l /\ x \in 1 .. Len(u) + 1 /\ y \in x - 1 .. Len(u)
          /\ q \in x .. y /\ q - 1 = x
    <3>1. /\ a + 1 \in Nat /\ b - 1 \in Nat /\ a + 2 \in Nat
          /\ a + 1 \in 1 .. l /\ a + 2 \in 1 .. l /\ a + 1 \in 1 .. (l + 1) + 1
          /\ b - 1 \in (a + 1) - 1 .. l + 1 /\ a + 2 \in a + 1 .. b - 1 /\ (a + 2) - 1 = a + 1
      BY <2>3
    <3>2. QED
      BY <1>8, <3>1
  <2>5. PartIn(u, k) = SubSeq(u, x, y)
    <3>1. PartIn(u, k) = SubSeq(u, 2 + Edge(u, 2, r, k - 1) + 1, 2 + Edge(u, 2, r, k) - 1)
      BY <1>10, <1>12 DEF PartIn, PartAt
    <3>2. Edge(u, 2, r, k - 1) = a - 2 /\ Edge(u, 2, r, k) = b - 2
      BY <1>13, <2>1, <2>2
    <3>3. 2 + (a - 2) + 1 = x /\ 2 + (b - 2) - 1 = y
      BY <2>4
    <3>4. QED
      BY <3>1, <3>2, <3>3
  <2>6. u[x] = names[k] /\ u[q] = "="
    BY <1>8, <2>3, <2>4
  <2>7. u[x] # "=" /\ u[x] # BLANK
    BY <1>5, <2>6, MarkedSymbols
  <2>8. FieldName(SubSeq(u, x, y)) = Trim(SubSeq(u, x, q - 1))
    <3>1. \A i \in x .. q - 1 : u[i] # "="
      <4>1. \A i \in x .. q - 1 : i = x
        BY <2>4
      <4>2. QED
        BY <2>7, <4>1
    <3>2. QED
      BY <1>8, <2>4, <2>6, <3>1, FieldOfPiece
  <2>9. Trim(SubSeq(u, x, x)) = SubSeq(u, x, x)
    <3>1. /\ x \in x - 1 .. Len(u) /\ x \in x .. x
          /\ \A i \in x .. x - 1 : u[i] = BLANK
          /\ \A i \in x + 1 .. x : u[i] = BLANK
      BY <1>8, <2>4
    <3>2. QED
      BY <1>8, <2>4, <2>7, <3>1, TrimIs
  <2>10. SubSeq(u, x, x) = <<names[k]>>
    <3>1. x \in x - 1 .. Len(u) /\ x - x + 1 = 1 /\ x + 1 - 1 = x
      BY <1>8, <2>4
    <3>2. /\ SubSeq(u, x, x) \in Seq(R) /\ Len(SubSeq(u, x, x)) = x - x + 1
          /\ \A i \in 1 .. x - x + 1 : SubSeq(u, x, x)[i] = u[x + i - 1]
      BY <1>8, <2>4, <3>1, PieceOfText
    <3>3. SubSeq(u, x, x)[1] = u[x]
      <4>1. 1 \in 1 .. x - x + 1
        BY <3>1
      <4>2. SubSeq(u, x, x)[1] = u[x + 1 - 1]
        BY <3>2, <4>1
      <4>3. QED
        BY <3>1, <4>2
    <3> DEFINE w == SubSeq(u, x, x)
               v == <<names[k]>>
    <3>4. w \in Seq(R) /\ Len(w) = 1 /\ w[1] = names[k]
      BY <2>6, <3>1, <3>2, <3>3
    <3>5. v \in Seq(R) /\ Len(v) = 1 /\ v[1] = names[k]
      <4>1. names[k] \in R
        BY <1>5, MarkedSymbols DEF R
      <4>2. QED
        BY <4>1
    <3> HIDE DEF w, v
    <3>6. w = v
      BY <3>4, <3>5, SeqEqual
    <3>7. QED
      BY <3>6 DEF w, v
  <2>11. FieldName(PartIn(u, k)) = <<names[k]>>
    BY <2>4, <2>5, <2>8, <2>9, <2>10
  <2>12. "=" \in Symbols(PartIn(u, k))
    <3>1. \A s : s \in Symbols(SubSeq(u, x, y)) <=> \E i \in x .. y : u[i] = s
      <4>1. u \in Seq(R) /\ x \in 1 .. Len(u) + 1 /\ y \in x - 1 .. Len(u)
        BY <1>8, <2>4
      <4>2. QED
        BY <4>1, SymbolsOfPiece
    <3>2. QED
      BY <2>4, <2>5, <2>6, <3>1
  <2>13. <<names[k]>> # <<>>
    OBVIOUS
  <2>14. QED
    BY <2>11, <2>12, <2>13 DEF IsField
<1>16. OpenAt(u) <= Len(u)
  BY <1>8, <1>9, <1>10
<1>17. GroupName(u) # <<>>
  <2>1. PICK x \in Nat : x = 1 /\ x = OpenAt(u) - 1
    BY <1>10
  <2>2. GroupName(u) = Trim(SubSeq(u, x, x))
    BY <2>1 DEF GroupName
  <2>3. /\ x \in 1 .. Len(u) + 1 /\ x \in x - 1 .. Len(u) /\ x \in x .. x /\ x - x + 1 = 1
        /\ \A i \in x .. x - 1 : u[i] = BLANK
        /\ \A i \in x + 1 .. x : u[i] = BLANK
    BY <1>8, <1>9, <2>1
  <2>4. u[x] # BLANK
    <3>1. 1 \in 1 .. l
      BY <1>9
    <3>2. QED
      BY <1>1, <1>8, <2>1, <3>1, MarkedSymbols
  <2>5. Trim(SubSeq(u, x, x)) = SubSeq(u, x, x)
    BY <1>8, <2>3, <2>4, TrimIs
  <2>6. SubSeq(u, x, x) \in Seq(R) /\ Len(SubSeq(u, x, x)) = x - x + 1
    BY <1>8, <2>3, PieceOfText
  <2>7. SubSeq(u, x, x) # <<>>
    BY <2>3, <2>6, EmptySeq
  <2>8. QED
    BY <2>2, <2>5, <2>7
<1>18. IsBlank(LineRest(u))
  <2>1. PICK a \in Nat, b \in Nat : a = CloseAt(u) + 1 /\ b = Len(u) /\ a = b + 1
    BY <1>8, <1>11
  <2>2. LineRest(u) = SubSeq(u, a, b)
    BY <2>1 DEF LineRest
  <2>3. a \in 1 .. Len(u) + 1 /\ b \in a - 1 .. Len(u) /\ \A k \in a .. b : u[k] = BLANK
    BY <2>1
  <2>4. IsBlank(SubSeq(u, a, b)) <=> \A k \in a .. b : u[k] = BLANK
    BY <1>8, <2>3, BlankPiece
  <2>5. QED
    BY <2>2, <2>3, <2>4
<1>19. IsGroup(u)
  <2>1. CloseAt(u) <= Len(u)
    BY <1>8, <1>11
  <2>2. IsGroup(u) <=> /\ CloseAt(u) <= Len(u) /\ GroupName(u) # <<>> /\ IsBlank(LineRest(u))
                       /\ \A m \in 1 .. CountIn(u) : IsField(PartIn(u, m))
    BY <1>8, <1>16, GroupIsItsParts
  <2>3. QED
    BY <1>14, <1>15, <1>17, <1>18, <2>1, <2>2
<1>20. GroupOf(u).fields = [m \in 1 .. n |-> FieldIn(u, m)]
  <2>1. GroupOf(u) = [name   |-> GroupName(u),
                      fields |-> [m \in 1 .. CountIn(u) |-> FieldIn(u, m)]]
    BY <1>8, <1>16, GroupIsItsParts
  <2>2. QED
    BY <1>14, <2>1
<1>21. \A k \in 1 .. n : FieldIn(u, k).name = <<names[k]>>
  BY <1>15 DEF FieldIn
<1>22. QED
  <2> DEFINE F == GroupOf(u).fields
  <2>1. DOMAIN F = 1 .. n /\ \A k \in 1 .. n : F[k].name = <<names[k]>>
    BY <1>20, <1>21
  <2> HIDE DEF F
  <2>2. [k \in DOMAIN names |-> <<names[k]>>] = [k \in DOMAIN F |-> F[k].name]
    BY <1>2, <2>1
  <2>3. QED
    BY <1>19, <2>2 DEF F

-----------------------------------------------------------------------------
(* The order of the fields, and of the pieces.                             *)

(* The place of a name among the fields of its group.                      *)
Rank(name) ==
  CASE name \in {"R", "SP", "O1", "W1"}         -> 1
    [] name \in {"DF", "DFI", "GCD", "O2", "W2"} -> 2
    [] name \in {"T", "TG", "ISR", "O3", "W3"}  -> 3
    [] name \in {"W", "TI", "O4", "W4"}         -> 4
    [] name \in {"S", "CI", "O5", "W5"}         -> 5
    [] name \in {"A", "II", "O6", "W6"}         -> 6
    [] name \in {"F", "SS"}                     -> 7
    [] name \in {"O", "TS"}                     -> 8
    [] name \in {"CC", "IPL"}                   -> 9
    [] name \in {"RD", "UN"}                    -> 10
    [] name \in {"Q", "RIPL"}                   -> 11
    [] name = "RID"                             -> 12
    [] name = "RIPCK"                           -> 13
    [] name = "RUCK"                            -> 14
    [] name = "RUD"                             -> 15
    [] OTHER                                    -> 16

(* Names in the order of their places, each once, that the group has.      *)
Orderly(names, g) ==
  /\ \A k \in 1 .. Len(names) : names[k] \in MatchPoints[g]
  /\ \A i, k \in 1 .. Len(names) : i < k => Rank(names[i]) < Rank(names[k])

First(names)   == Rank(names[1])
Highest(names) == Rank(names[Len(names)])

StartsLine(p) == p.op \in {"optional", "whole", "head"}
EndsLine(p)   == p.op \in {"close", "whole", "tail"}

(* A piece whose names are in order and names of its group.                *)
Apt(p) ==
  /\ p.op # "close" => Orderly(p.names, p.group)
  /\ \A k \in 1 .. Len(p.names) : p.names[k] = "T" => "TG" \in MatchPoints[p.group]
  /\ p.op \in {"whole", "head"} => "R" \in MatchPoints[p.group]

(* Behind the end of a line another starts; within a line the next piece   *)
(* is of the same group, and its names come later.                         *)
Linked(p, q) ==
  IF EndsLine(p) THEN StartsLine(q)
  ELSE /\ q.group = p.group
       /\ p.op = "optional" => q.op \in {"optional", "close"}
       /\ p.op # "optional" => q.op \in {"middle", "tail"}
       /\ q.op # "close" => Highest(p.names) < First(q.names)

Chain(s) ==
  /\ s \in Seq(GoodPieces) /\ Len(s) >= 1 /\ StartsLine(s[1]) /\ EndsLine(s[Len(s)])
  /\ \A k \in 1 .. Len(s) : Apt(s[k])
  /\ \A k \in Nat : 1 <= k /\ k < Len(s) => Linked(s[k], s[k + 1])

LEMMA ChainOfBoth ==
  ASSUME NEW s, NEW t, Chain(s), Chain(t)
  PROVE  Chain(s \o t)
<1> DEFINE u == s \o t
<1>1. /\ s \in Seq(GoodPieces) /\ Len(s) >= 1 /\ StartsLine(s[1]) /\ EndsLine(s[Len(s)])
      /\ \A k \in 1 .. Len(s) : Apt(s[k])
      /\ \A k \in Nat : 1 <= k /\ k < Len(s) => Linked(s[k], s[k + 1])
  BY DEF Chain
<1>2. /\ t \in Seq(GoodPieces) /\ Len(t) >= 1 /\ StartsLine(t[1]) /\ EndsLine(t[Len(t)])
      /\ \A k \in 1 .. Len(t) : Apt(t[k])
      /\ \A k \in Nat : 1 <= k /\ k < Len(t) => Linked(t[k], t[k + 1])
  BY DEF Chain
<1>3. u \in Seq(GoodPieces) /\ Joint(u, s, t)
  BY <1>1, <1>2, TextBehind
<1> HIDE DEF u
<1>4. PICK m \in Nat, n \in Nat :
        /\ m = Len(s) /\ n = Len(t) /\ Len(u) = m + n /\ m >= 1 /\ n >= 1
        /\ \A i \in 1 .. m : u[i] = s[i]
        /\ \A i \in 1 .. n : u[m + i] = t[i]
  BY <1>1, <1>2, <1>3 DEF Joint
<1>5. StartsLine(u[1]) /\ EndsLine(u[Len(u)])
  <2>1. 1 \in 1 .. m /\ n \in 1 .. n
    BY <1>4
  <2>2. u[1] = s[1] /\ u[m + n] = t[n]
    BY <1>4, <2>1
  <2>3. QED
    BY <1>1, <1>2, <1>4, <2>2
<1>6. ASSUME NEW k \in 1 .. m + n
      PROVE  k \in 1 .. m \/ \E j \in 1 .. n : k = m + j
  <2>1. CASE k <= m
    BY <2>1
  <2>2. CASE k > m
    <3>1. k - m \in 1 .. n /\ k = m + (k - m)
      BY <2>2
    <3>2. QED
      BY <3>1
  <2>3. QED
    BY <2>1, <2>2
<1>7. ASSUME NEW k \in 1 .. m + n PROVE Apt(u[k])
  BY <1>1, <1>2, <1>4, <1>6
<1>8. ASSUME NEW k \in Nat, 1 <= k, k < m + n PROVE Linked(u[k], u[k + 1])
  <2>1. CASE k < m
    <3>1. k \in 1 .. m /\ k + 1 \in 1 .. m
      BY <1>8, <2>1
    <3>2. u[k] = s[k] /\ u[k + 1] = s[k + 1]
      BY <1>4, <3>1
    <3>3. QED
      BY <1>1, <1>4, <1>8, <2>1, <3>2
  <2>2. CASE k = m
    <3>1. m \in 1 .. m /\ 1 \in 1 .. n
      BY <1>4
    <3>2. u[k] = s[m] /\ u[k + 1] = t[1]
      BY <1>4, <2>2, <3>1
    <3>3. QED
      BY <1>1, <1>2, <1>4, <3>2 DEF Linked
  <2>3. CASE k > m
    <3>1. PICK j \in Nat : k = m + j /\ k + 1 = m + (j + 1) /\ 1 <= j /\ j < n
      <4>1. k - m \in Nat /\ k = m + (k - m) /\ k + 1 = m + ((k - m) + 1) /\ 1 <= k - m /\ k - m < n
        BY <1>8, <2>3
      <4>2. QED
        BY <4>1
    <3>2. j \in 1 .. n /\ j + 1 \in 1 .. n
      BY <3>1
    <3>3. u[k] = t[j] /\ u[k + 1] = t[j + 1]
      BY <1>4, <3>1, <3>2
    <3>4. QED
      BY <1>2, <1>4, <3>1, <3>3
  <2>4. QED
    BY <2>1, <2>2, <2>3
<1>9. Chain(u)
  <2>1. Len(u) >= 1
    BY <1>4
  <2>2. QED
    BY <1>3, <1>4, <1>5, <1>7, <1>8, <2>1 DEF Chain
<1>10. QED
  BY <1>9 DEF u

LEMMA OneInOrder ==
  ASSUME NEW g, NEW a, a \in MatchPoints[g], a # "T"
  PROVE  /\ Orderly(<<a>>, g) /\ First(<<a>>) = Rank(a) /\ Highest(<<a>>) = Rank(a)
         /\ \A k \in 1 .. Len(<<a>>) : <<a>>[k] # "T"
<1>1. Len(<<a>>) = 1 /\ <<a>>[1] = a
  OBVIOUS
<1>2. \A k \in 1 .. Len(<<a>>) : k = 1
  BY <1>1
<1>3. \A k \in 1 .. Len(<<a>>) : <<a>>[k] = a
  BY <1>1, <1>2
<1>4. Orderly(<<a>>, g)
  <2>1. \A i, k \in 1 .. Len(<<a>>) : ~ i < k
    BY <1>2
  <2>2. QED
    BY <1>3, <2>1 DEF Orderly
<1>5. QED
  BY <1>1, <1>3, <1>4 DEF First, Highest

LEMMA OptionalFits ==
  ASSUME NEW g, NEW a, a \in MatchPoints[g], a # "T"
  PROVE  /\ Apt(Optional(g, <<a>>)) /\ First(Optional(g, <<a>>).names) = Rank(a)
         /\ Highest(Optional(g, <<a>>).names) = Rank(a)
<1> DEFINE n == <<a>>
           p == Optional(g, n)
<1>1. /\ Orderly(n, g) /\ First(n) = Rank(a) /\ Highest(n) = Rank(a)
      /\ \A k \in 1 .. Len(n) : n[k] # "T"
  BY OneInOrder
<1> HIDE DEF n
<1>2. p.op = "optional" /\ p.group = g /\ p.names = n
  BY DEF Optional
<1> HIDE DEF p
<1>3. Apt(p)
  BY <1>1, <1>2 DEF Apt
<1>4. QED
  BY <1>1, <1>2, <1>3 DEF p, n

LEMMA CloseFits == ASSUME NEW g PROVE Apt(Close(g))
<1> DEFINE p == Close(g)
<1>1. p.op = "close" /\ p.names = <<>>
  BY DEF Close
<1>2. Len(p.names) = 0
  BY <1>1
<1> HIDE DEF p
<1>3. \A k : ~ k \in 1 .. Len(p.names)
  BY <1>2
<1>4. Apt(p)
  BY <1>1, <1>3 DEF Apt
<1>5. QED
  BY <1>4 DEF p

(* Three names in order.                                                   *)
LEMMA ThreeInOrder ==
  ASSUME NEW g, NEW a, NEW b, NEW c, a \in MatchPoints[g], b \in MatchPoints[g],
         c \in MatchPoints[g], Rank(a) < Rank(b), Rank(b) < Rank(c),
         Rank(a) \in Nat, Rank(b) \in Nat, Rank(c) \in Nat
  PROVE  /\ Orderly(<<a, b, c>>, g)
         /\ First(<<a, b, c>>) = Rank(a) /\ Highest(<<a, b, c>>) = Rank(c)
<1> DEFINE n == <<a, b, c>>
<1>1. Len(n) = 3 /\ n[1] = a /\ n[2] = b /\ n[3] = c
  OBVIOUS
<1> HIDE DEF n
<1>2. First(n) = Rank(a) /\ Highest(n) = Rank(c)
  BY <1>1 DEF First, Highest
<1>3. \A k \in 1 .. 3 : k = 1 \/ k = 2 \/ k = 3
  OBVIOUS
<1>4. \A k \in 1 .. 3 : n[k] \in MatchPoints[g]
  BY <1>1, <1>3
<1>5. Rank(a) < Rank(c)
  OBVIOUS
<1>6. \A i, k \in 1 .. 3 : i < k => Rank(n[i]) < Rank(n[k])
  <2> SUFFICES ASSUME NEW i \in 1 .. 3, NEW k \in 1 .. 3, i < k PROVE Rank(n[i]) < Rank(n[k])
    OBVIOUS
  <2>1. (i = 1 /\ k = 2) \/ (i = 1 /\ k = 3) \/ (i = 2 /\ k = 3)
    OBVIOUS
  <2>2. QED
    BY <1>1, <1>5, <2>1
<1>7. Orderly(n, g)
  BY <1>1, <1>4, <1>6 DEF Orderly
<1>8. QED
  BY <1>2, <1>7 DEF n

LEMMA RanksAreNumbers == ASSUME NEW name PROVE Rank(name) \in Nat
BY DEF Rank

(* Sections of seven pieces, of which only the last ends the line.         *)
LEMMA SevenLinked ==
  ASSUME NEW s \in Seq(GoodPieces), Len(s) = 7, StartsLine(s[1]), EndsLine(s[7]),
         Apt(s[1]), Apt(s[2]), Apt(s[3]), Apt(s[4]), Apt(s[5]), Apt(s[6]), Apt(s[7]),
         Linked(s[1], s[2]), Linked(s[2], s[3]), Linked(s[3], s[4]), Linked(s[4], s[5]),
         Linked(s[5], s[6]), Linked(s[6], s[7])
  PROVE  Chain(s)
<1>1. \A k \in 1 .. 7 : k = 1 \/ k = 2 \/ k = 3 \/ k = 4 \/ k = 5 \/ k = 6 \/ k = 7
  OBVIOUS
<1>2. \A k \in 1 .. 7 : Apt(s[k])
  BY <1>1
<1>3. ASSUME NEW k \in Nat, 1 <= k, k < 7 PROVE Linked(s[k], s[k + 1])
  <2>1. \/ k = 1 /\ k + 1 = 2
        \/ k = 2 /\ k + 1 = 3
        \/ k = 3 /\ k + 1 = 4
        \/ k = 4 /\ k + 1 = 5
        \/ k = 5 /\ k + 1 = 6
        \/ k = 6 /\ k + 1 = 7
    BY <1>3
  <2>2. QED
    BY <2>1
<1>4. Len(s) >= 1
  OBVIOUS
<1>5. QED
  BY <1>2, <1>3, <1>4 DEF Chain

LEMMA OneLinked ==
  ASSUME NEW p \in GoodPieces, p.op = "whole", Apt(p)
  PROVE  Chain(<<p>>)
<1> DEFINE s == <<p>>
<1>1. s \in Seq(GoodPieces) /\ Len(s) = 1 /\ s[1] = p
  OBVIOUS
<1>2. StartsLine(p) /\ EndsLine(p)
  BY DEF StartsLine, EndsLine
<1> HIDE DEF s
<1>3. \A k \in 1 .. 1 : k = 1
  OBVIOUS
<1>4. \A k \in 1 .. Len(s) : Apt(s[k])
  BY <1>1, <1>3
<1>5. \A k \in Nat : ~ (1 <= k /\ k < Len(s))
  BY <1>1
<1>6. Len(s) >= 1
  BY <1>1
<1>7. Chain(s)
  BY <1>1, <1>2, <1>4, <1>5, <1>6 DEF Chain
<1>8. QED
  BY <1>7 DEF s

LEMMA SeqLinked == Chain(format_seq)
<1> DEFINE n == <<"SP", "GCD", "ISR">>
           o == Optional("SEQ", n)
           p == Optional("SEQ", <<"TI">>)
           q == Optional("SEQ", <<"CI">>)
           r == Optional("SEQ", <<"II">>)
           t == Optional("SEQ", <<"SS">>)
           u == Optional("SEQ", <<"TS">>)
           v == Close("SEQ")
           s == format_seq
<1>1. /\ Rank("SP") = 1 /\ Rank("GCD") = 2 /\ Rank("ISR") = 3 /\ Rank("TI") = 4
      /\ Rank("CI") = 5 /\ Rank("II") = 6 /\ Rank("SS") = 7 /\ Rank("TS") = 8
  BY DEF Rank
<1>2. /\ "SP" \in MatchPoints["SEQ"] /\ "GCD" \in MatchPoints["SEQ"] /\ "ISR" \in MatchPoints["SEQ"]
      /\ "TI" \in MatchPoints["SEQ"] /\ "CI" \in MatchPoints["SEQ"] /\ "II" \in MatchPoints["SEQ"]
      /\ "SS" \in MatchPoints["SEQ"] /\ "TS" \in MatchPoints["SEQ"]
  BY DEF MatchPoints
<1>3. /\ Apt(p) /\ First(p.names) = 4 /\ Highest(p.names) = 4
      /\ Apt(q) /\ First(q.names) = 5 /\ Highest(q.names) = 5
      /\ Apt(r) /\ First(r.names) = 6 /\ Highest(r.names) = 6
      /\ Apt(t) /\ First(t.names) = 7 /\ Highest(t.names) = 7
      /\ Apt(u) /\ First(u.names) = 8 /\ Highest(u.names) = 8
  BY <1>1, <1>2, OptionalFits
<1>4. Apt(o) /\ Highest(o.names) = 3
  <2>1. Orderly(n, "SEQ") /\ Highest(n) = 3
    BY <1>1, <1>2, ThreeInOrder
  <2>2. \A k \in 1 .. Len(n) : n[k] # "T"
    <3>1. Len(n) = 3 /\ n[1] = "SP" /\ n[2] = "GCD" /\ n[3] = "ISR"
      OBVIOUS
    <3> HIDE DEF n
    <3>2. \A k \in 1 .. 3 : k = 1 \/ k = 2 \/ k = 3
      OBVIOUS
    <3>3. "SP" # "T" /\ "GCD" # "T" /\ "ISR" # "T"
      OBVIOUS
    <3>4. QED
      BY <3>1, <3>2, <3>3
  <2> HIDE DEF n
  <2>3. o.op = "optional" /\ o.group = "SEQ" /\ o.names = n
    BY DEF Optional
  <2> HIDE DEF o
  <2>4. QED
    BY <2>1, <2>2, <2>3 DEF Apt
<1>5. /\ o.op = "optional" /\ p.op = "optional" /\ q.op = "optional" /\ r.op = "optional"
      /\ t.op = "optional" /\ u.op = "optional" /\ v.op = "close"
      /\ o.group = "SEQ" /\ p.group = "SEQ" /\ q.group = "SEQ" /\ r.group = "SEQ"
      /\ t.group = "SEQ" /\ u.group = "SEQ" /\ v.group = "SEQ"
  BY DEF Optional, Close
<1>6. Apt(v)
  BY CloseFits
<1>7. s = <<o, p, q, r, t, u, v>> /\ s \in Seq(GoodPieces)
  BY SeqSection DEF format_seq
<1> HIDE DEF n, o, p, q, r, t, u, v, s
<1>8. Len(s) = 7 /\ s[1] = o /\ s[2] = p /\ s[3] = q /\ s[4] = r /\ s[5] = t /\ s[6] = u /\ s[7] = v
  BY <1>7
<1>9. StartsLine(s[1]) /\ EndsLine(s[7])
  BY <1>5, <1>8 DEF StartsLine, EndsLine
<1>10. /\ Linked(o, p) /\ Linked(p, q) /\ Linked(q, r) /\ Linked(r, t) /\ Linked(t, u) /\ Linked(u, v)
  BY <1>3, <1>4, <1>5 DEF Linked, EndsLine
<1>11. Chain(s)
  BY <1>3, <1>4, <1>6, <1>7, <1>8, <1>9, <1>10, SevenLinked
<1>12. QED
  BY <1>11 DEF s

LEMMA SixLinked ==
  ASSUME NEW g, NEW names,
         \A k \in 1 .. 6 : names[k] \in MatchPoints[g] /\ names[k] # "T" /\ Rank(names[k]) = k,
         [k \in 1 .. 6 |-> Optional(g, <<names[k]>>)] \o <<Close(g)>> \in Seq(GoodPieces),
         Optional(g, <<names[1]>>) \in GoodPieces, Optional(g, <<names[2]>>) \in GoodPieces,
         Optional(g, <<names[3]>>) \in GoodPieces, Optional(g, <<names[4]>>) \in GoodPieces,
         Optional(g, <<names[5]>>) \in GoodPieces, Optional(g, <<names[6]>>) \in GoodPieces,
         Close(g) \in GoodPieces
  PROVE  Chain([k \in 1 .. 6 |-> Optional(g, <<names[k]>>)] \o <<Close(g)>>)
<1> DEFINE six == [k \in 1 .. 6 |-> Optional(g, <<names[k]>>)]
           end == <<Close(g)>>
           s   == six \o end
           v   == Close(g)
<1>1. ASSUME NEW k \in 1 .. 6
      PROVE  /\ Apt(six[k]) /\ First(six[k].names) = k /\ Highest(six[k].names) = k
             /\ six[k].op = "optional" /\ six[k].group = g /\ six[k] \in GoodPieces
  <2>1. PICK a : a = names[k]
    OBVIOUS
  <2>2. a \in MatchPoints[g] /\ a # "T" /\ Rank(a) = k
    BY <2>1
  <2>3. six[k] = Optional(g, <<a>>)
    BY <2>1
  <2>4. /\ Apt(Optional(g, <<a>>)) /\ First(Optional(g, <<a>>).names) = Rank(a)
        /\ Highest(Optional(g, <<a>>).names) = Rank(a)
    BY <2>2, OptionalFits
  <2>5. Optional(g, <<a>>).op = "optional" /\ Optional(g, <<a>>).group = g
    BY DEF Optional
  <2>6. Optional(g, <<a>>) \in GoodPieces
    <3>1. k = 1 \/ k = 2 \/ k = 3 \/ k = 4 \/ k = 5 \/ k = 6
      OBVIOUS
    <3>2. QED
      BY <2>1, <3>1
  <2> HIDE DEF six
  <2>7. QED
    BY <2>2, <2>3, <2>4, <2>5, <2>6
<1>2. six \in Seq(GoodPieces) /\ Len(six) = 6
  <2>1. six \in [1 .. 6 -> GoodPieces]
    BY <1>1
  <2>2. \A n \in Nat : \A f \in [1 .. n -> GoodPieces] : f \in Seq(GoodPieces) /\ Len(f) = n
    OBVIOUS
  <2> HIDE DEF six
  <2>3. QED
    BY <2>1, <2>2
<1>3. end \in Seq(GoodPieces) /\ Len(end) = 1 /\ end[1] = v
  OBVIOUS
<1>4. v.op = "close" /\ v.group = g /\ Apt(v)
  BY CloseFits DEF Close
<1> HIDE DEF six, end, v
<1>5. s \in Seq(GoodPieces) /\ Joint(s, six, end)
  BY <1>2, <1>3, TextBehind
<1> HIDE DEF s
<1>6. /\ Len(s) = 7 /\ s[7] = v
      /\ s[1] = six[1] /\ s[2] = six[2] /\ s[3] = six[3] /\ s[4] = six[4]
      /\ s[5] = six[5] /\ s[6] = six[6]
  <2>1. \A k \in 1 .. 6 : s[k] = six[k]
    BY <1>2, <1>5 DEF Joint
  <2>2. s[6 + 1] = end[1] /\ Len(s) = 7
    BY <1>2, <1>3, <1>5 DEF Joint
  <2>3. QED
    BY <1>3, <2>1, <2>2
<1>7. StartsLine(s[1]) /\ EndsLine(s[7])
  BY <1>1, <1>4, <1>6 DEF StartsLine, EndsLine
<1>8. /\ Linked(six[1], six[2]) /\ Linked(six[2], six[3]) /\ Linked(six[3], six[4])
      /\ Linked(six[4], six[5]) /\ Linked(six[5], six[6]) /\ Linked(six[6], v)
  <2>1. ASSUME NEW j \in 1 .. 6, NEW k \in 1 .. 6, j < k PROVE Linked(six[j], six[k])
    BY <1>1, <2>1 DEF Linked, EndsLine
  <2>2. Linked(six[6], v)
    BY <1>1, <1>4 DEF Linked, EndsLine
  <2>3. QED
    BY <2>1, <2>2
<1>9. Chain(s)
  <2>1. Apt(s[1]) /\ Apt(s[2]) /\ Apt(s[3]) /\ Apt(s[4]) /\ Apt(s[5]) /\ Apt(s[6]) /\ Apt(s[7])
    BY <1>1, <1>4, <1>6
  <2>2. /\ Linked(s[1], s[2]) /\ Linked(s[2], s[3]) /\ Linked(s[3], s[4])
        /\ Linked(s[4], s[5]) /\ Linked(s[5], s[6]) /\ Linked(s[6], s[7])
    BY <1>6, <1>8
  <2>3. QED
    BY <1>5, <1>6, <1>7, <2>1, <2>2, SevenLinked
<1>10. QED
  BY <1>9 DEF s, six, end

LEMMA OpsLinked == Chain(format_ops)
<1> DEFINE names == <<"O1", "O2", "O3", "O4", "O5", "O6">>
           g == "OPS"
<1>1. /\ Rank("O1") = 1 /\ Rank("O2") = 2 /\ Rank("O3") = 3
      /\ Rank("O4") = 4 /\ Rank("O5") = 5 /\ Rank("O6") = 6
  BY DEF Rank
<1>2. /\ "O1" \in MatchPoints[g] /\ "O2" \in MatchPoints[g] /\ "O3" \in MatchPoints[g]
      /\ "O4" \in MatchPoints[g] /\ "O5" \in MatchPoints[g] /\ "O6" \in MatchPoints[g]
  BY DEF MatchPoints
<1>3. /\ "O1" \in Words /\ "O2" \in Words /\ "O3" \in Words
      /\ "O4" \in Words /\ "O5" \in Words /\ "O6" \in Words /\ g \in Words /\ Letters(g) = 3
  BY DEF Words, Letters
<1>4. /\ names[1] = "O1" /\ names[2] = "O2" /\ names[3] = "O3"
      /\ names[4] = "O4" /\ names[5] = "O5" /\ names[6] = "O6"
  OBVIOUS
<1>5. /\ "O1" # "T" /\ "O2" # "T" /\ "O3" # "T" /\ "O4" # "T" /\ "O5" # "T" /\ "O6" # "T"
  OBVIOUS
<1>6. format_ops = [k \in 1 .. 6 |-> Optional(g, <<names[k]>>)] \o <<Close(g)>>
  BY DEF format_ops
<1> HIDE DEF names, g
<1>7. \A k \in 1 .. 6 : names[k] \in MatchPoints[g] /\ names[k] # "T" /\ Rank(names[k]) = k
  <2>1. \A k \in 1 .. 6 : k = 1 \/ k = 2 \/ k = 3 \/ k = 4 \/ k = 5 \/ k = 6
    OBVIOUS
  <2>2. QED
    BY <1>1, <1>2, <1>4, <1>5, <2>1
<1>8. /\ Optional(g, <<names[1]>>) \in GoodPieces /\ Optional(g, <<names[2]>>) \in GoodPieces
      /\ Optional(g, <<names[3]>>) \in GoodPieces /\ Optional(g, <<names[4]>>) \in GoodPieces
      /\ Optional(g, <<names[5]>>) \in GoodPieces /\ Optional(g, <<names[6]>>) \in GoodPieces
  BY <1>3, <1>4, OptionalName
<1>9. Close(g) \in GoodPieces
  BY <1>3, ClosingPiece
<1>10. QED
  BY <1>6, <1>7, <1>8, <1>9, OpsSection, SixLinked

LEMMA WinLinked == Chain(format_win)
<1> DEFINE names == <<"W1", "W2", "W3", "W4", "W5", "W6">>
           g == "WIN"
<1>1. /\ Rank("W1") = 1 /\ Rank("W2") = 2 /\ Rank("W3") = 3
      /\ Rank("W4") = 4 /\ Rank("W5") = 5 /\ Rank("W6") = 6
  BY DEF Rank
<1>2. /\ "W1" \in MatchPoints[g] /\ "W2" \in MatchPoints[g] /\ "W3" \in MatchPoints[g]
      /\ "W4" \in MatchPoints[g] /\ "W5" \in MatchPoints[g] /\ "W6" \in MatchPoints[g]
  BY DEF MatchPoints
<1>3. /\ "W1" \in Words /\ "W2" \in Words /\ "W3" \in Words
      /\ "W4" \in Words /\ "W5" \in Words /\ "W6" \in Words /\ g \in Words /\ Letters(g) = 3
  BY DEF Words, Letters
<1>4. /\ names[1] = "W1" /\ names[2] = "W2" /\ names[3] = "W3"
      /\ names[4] = "W4" /\ names[5] = "W5" /\ names[6] = "W6"
  OBVIOUS
<1>5. /\ "W1" # "T" /\ "W2" # "T" /\ "W3" # "T" /\ "W4" # "T" /\ "W5" # "T" /\ "W6" # "T"
  OBVIOUS
<1>6. format_win = [k \in 1 .. 6 |-> Optional(g, <<names[k]>>)] \o <<Close(g)>>
  BY DEF format_win
<1> HIDE DEF names, g
<1>7. \A k \in 1 .. 6 : names[k] \in MatchPoints[g] /\ names[k] # "T" /\ Rank(names[k]) = k
  <2>1. \A k \in 1 .. 6 : k = 1 \/ k = 2 \/ k = 3 \/ k = 4 \/ k = 5 \/ k = 6
    OBVIOUS
  <2>2. QED
    BY <1>1, <1>2, <1>4, <1>5, <2>1
<1>8. /\ Optional(g, <<names[1]>>) \in GoodPieces /\ Optional(g, <<names[2]>>) \in GoodPieces
      /\ Optional(g, <<names[3]>>) \in GoodPieces /\ Optional(g, <<names[4]>>) \in GoodPieces
      /\ Optional(g, <<names[5]>>) \in GoodPieces /\ Optional(g, <<names[6]>>) \in GoodPieces
  BY <1>3, <1>4, OptionalName
<1>9. Close(g) \in GoodPieces
  BY <1>3, ClosingPiece
<1>10. QED
  BY <1>6, <1>7, <1>8, <1>9, WinSection, SixLinked

(* Names of the group at known places.                                     *)
Placed(names, g, places, m) ==
  /\ m \in Nat /\ Len(names) = m
  /\ \A k \in 1 .. m : names[k] \in MatchPoints[g] /\ Rank(names[k]) = places[k]
  /\ \A i, k \in 1 .. m : i < k => places[i] < places[k]

LEMMA NamesInOrder ==
  ASSUME NEW g, NEW names, NEW places, NEW m, Placed(names, g, places, m)
  PROVE  Orderly(names, g)
<1>1. \A i, k \in 1 .. m : i < k => Rank(names[i]) < Rank(names[k])
  BY DEF Placed
<1>2. QED
  BY <1>1 DEF Placed, Orderly

LEMMA WholeFits ==
  ASSUME NEW g, NEW names, Orderly(names, g), "R" \in MatchPoints[g], "TG" \in MatchPoints[g],
         Part("whole", g, names) \in GoodPieces
  PROVE  Chain(<<Part("whole", g, names)>>)
<1> DEFINE p == Part("whole", g, names)
<1>1. p.op = "whole" /\ p.group = g /\ p.names = names
  BY DEF Part
<1> HIDE DEF p
<1>2. Apt(p)
  BY <1>1 DEF Apt
<1>3. Chain(<<p>>)
  BY <1>1, <1>2, OneLinked DEF p
<1>4. QED
  BY <1>3 DEF p

LEMMA EcnLinked == Chain(format_ecn)
<1> DEFINE names  == <<"R", "DF", "T", "W", "O", "CC", "Q">>
           places == <<1, 2, 3, 4, 8, 9, 11>>
           g      == "ECN"
           p      == Part("whole", g, names)
<1>1. /\ Rank("R") = 1 /\ Rank("DF") = 2 /\ Rank("T") = 3 /\ Rank("W") = 4
      /\ Rank("O") = 8 /\ Rank("CC") = 9 /\ Rank("Q") = 11
  BY DEF Rank
<1>2. /\ "R" \in MatchPoints[g] /\ "DF" \in MatchPoints[g] /\ "T" \in MatchPoints[g]
      /\ "W" \in MatchPoints[g] /\ "O" \in MatchPoints[g] /\ "CC" \in MatchPoints[g]
      /\ "Q" \in MatchPoints[g] /\ "TG" \in MatchPoints[g]
  BY DEF MatchPoints
<1>3. /\ names[1] = "R" /\ names[2] = "DF" /\ names[3] = "T" /\ names[4] = "W"
      /\ names[5] = "O" /\ names[6] = "CC" /\ names[7] = "Q" /\ Len(names) = 7
  OBVIOUS
<1>4. /\ places[1] = 1 /\ places[2] = 2 /\ places[3] = 3 /\ places[4] = 4
      /\ places[5] = 8 /\ places[6] = 9 /\ places[7] = 11
  OBVIOUS
<1>5. \A k \in 1 .. 7 : k = 1 \/ k = 2 \/ k = 3 \/ k = 4 \/ k = 5 \/ k = 6 \/ k = 7
  OBVIOUS
<1>6. format_ecn = <<p>> /\ format_ecn \in Seq(GoodPieces)
  BY EcnSection DEF format_ecn
<1>7. p \in GoodPieces
  <2>1. Len(<<p>>) = 1 /\ <<p>>[1] = p
    OBVIOUS
  <2> HIDE DEF p
  <2>2. format_ecn[1] = p /\ Len(format_ecn) = 1
    BY <1>6, <2>1
  <2>3. 1 \in 1 .. Len(format_ecn)
    BY <2>2
  <2>4. QED
    BY <1>6, <2>2, <2>3, ElementOfSeq
<1> HIDE DEF names, places, g
<1>8. \A k \in 1 .. 7 : names[k] \in MatchPoints[g] /\ Rank(names[k]) = places[k]
  BY <1>1, <1>2, <1>3, <1>4, <1>5
<1>9. \A i, k \in 1 .. 7 : i < k => places[i] < places[k]
  BY <1>4, <1>5
<1>10. Orderly(names, g)
  <2>1. Placed(names, g, places, 7)
    BY <1>3, <1>8, <1>9 DEF Placed
  <2>2. QED
    BY <2>1, NamesInOrder
<1>11. QED
  BY <1>2, <1>6, <1>7, <1>10, WholeFits

LEMMA U1Linked == Chain(format_u1)
<1> DEFINE names  == <<"R", "DF", "T", "IPL", "UN", "RIPL", "RID", "RIPCK", "RUCK", "RUD">>
           places == <<1, 2, 3, 9, 10, 11, 12, 13, 14, 15>>
           g      == "U1"
           p      == Part("whole", g, names)
<1>1. /\ Rank("R") = 1 /\ Rank("DF") = 2 /\ Rank("T") = 3 /\ Rank("IPL") = 9
      /\ Rank("UN") = 10 /\ Rank("RIPL") = 11 /\ Rank("RID") = 12 /\ Rank("RIPCK") = 13
      /\ Rank("RUCK") = 14 /\ Rank("RUD") = 15
  BY DEF Rank
<1>2. /\ "R" \in MatchPoints[g] /\ "DF" \in MatchPoints[g] /\ "T" \in MatchPoints[g]
      /\ "IPL" \in MatchPoints[g] /\ "UN" \in MatchPoints[g] /\ "RIPL" \in MatchPoints[g]
      /\ "RID" \in MatchPoints[g] /\ "RIPCK" \in MatchPoints[g] /\ "RUCK" \in MatchPoints[g]
      /\ "RUD" \in MatchPoints[g] /\ "TG" \in MatchPoints[g]
  BY DEF MatchPoints
<1>3. /\ names[1] = "R" /\ names[2] = "DF" /\ names[3] = "T" /\ names[4] = "IPL"
      /\ names[5] = "UN" /\ names[6] = "RIPL" /\ names[7] = "RID" /\ names[8] = "RIPCK"
      /\ names[9] = "RUCK" /\ names[10] = "RUD" /\ Len(names) = 10
  OBVIOUS
<1>4. /\ places[1] = 1 /\ places[2] = 2 /\ places[3] = 3 /\ places[4] = 9 /\ places[5] = 10
      /\ places[6] = 11 /\ places[7] = 12 /\ places[8] = 13 /\ places[9] = 14 /\ places[10] = 15
  OBVIOUS
<1>5. \A k \in 1 .. 10 : \/ k = 1 \/ k = 2 \/ k = 3 \/ k = 4 \/ k = 5
                         \/ k = 6 \/ k = 7 \/ k = 8 \/ k = 9 \/ k = 10
  OBVIOUS
<1>6. format_u1 = <<p>> /\ format_u1 \in Seq(GoodPieces)
  BY U1Section DEF format_u1
<1>7. p \in GoodPieces
  <2>1. Len(<<p>>) = 1 /\ <<p>>[1] = p
    OBVIOUS
  <2> HIDE DEF p
  <2>2. format_u1[1] = p /\ Len(format_u1) = 1
    BY <1>6, <2>1
  <2>3. 1 \in 1 .. Len(format_u1)
    BY <2>2
  <2>4. QED
    BY <1>6, <2>2, <2>3, ElementOfSeq
<1> HIDE DEF names, places, g
<1>8. \A k \in 1 .. 10 : names[k] \in MatchPoints[g] /\ Rank(names[k]) = places[k]
  BY <1>1, <1>2, <1>3, <1>4, <1>5
<1>9. \A i, k \in 1 .. 10 : i < k => places[i] < places[k]
  BY <1>4, <1>5
<1>10. Orderly(names, g)
  <2>1. Placed(names, g, places, 10)
    BY <1>3, <1>8, <1>9 DEF Placed
  <2>2. QED
    BY <2>1, NamesInOrder
<1>11. QED
  BY <1>2, <1>6, <1>7, <1>10, WholeFits

LEMMA IeLinked == Chain(format_ie)
<1> DEFINE names  == <<"R", "DFI", "T", "CD">>
           places == <<1, 2, 3, 16>>
           g      == "IE"
           p      == Part("whole", g, names)
<1>1. Rank("R") = 1 /\ Rank("DFI") = 2 /\ Rank("T") = 3 /\ Rank("CD") = 16
  BY DEF Rank
<1>2. /\ "R" \in MatchPoints[g] /\ "DFI" \in MatchPoints[g] /\ "T" \in MatchPoints[g]
      /\ "CD" \in MatchPoints[g] /\ "TG" \in MatchPoints[g]
  BY DEF MatchPoints
<1>3. /\ names[1] = "R" /\ names[2] = "DFI" /\ names[3] = "T" /\ names[4] = "CD"
      /\ Len(names) = 4
  OBVIOUS
<1>4. places[1] = 1 /\ places[2] = 2 /\ places[3] = 3 /\ places[4] = 16
  OBVIOUS
<1>5. \A k \in 1 .. 4 : k = 1 \/ k = 2 \/ k = 3 \/ k = 4
  OBVIOUS
<1>6. format_ie = <<p>> /\ format_ie \in Seq(GoodPieces)
  BY IeSection DEF format_ie
<1>7. p \in GoodPieces
  <2>1. Len(<<p>>) = 1 /\ <<p>>[1] = p
    OBVIOUS
  <2> HIDE DEF p
  <2>2. format_ie[1] = p /\ Len(format_ie) = 1
    BY <1>6, <2>1
  <2>3. 1 \in 1 .. Len(format_ie)
    BY <2>2
  <2>4. QED
    BY <1>6, <2>2, <2>3, ElementOfSeq
<1> HIDE DEF names, places, g
<1>8. \A k \in 1 .. 4 : names[k] \in MatchPoints[g] /\ Rank(names[k]) = places[k]
  BY <1>1, <1>2, <1>3, <1>4, <1>5
<1>9. \A i, k \in 1 .. 4 : i < k => places[i] < places[k]
  BY <1>4, <1>5
<1>10. Orderly(names, g)
  <2>1. Placed(names, g, places, 4)
    BY <1>3, <1>8, <1>9 DEF Placed
  <2>2. QED
    BY <2>1, NamesInOrder
<1>11. QED
  BY <1>2, <1>6, <1>7, <1>10, WholeFits

(* A line of several pieces, one behind the other.                         *)
Started(s, p) ==
  /\ s \in Seq(GoodPieces) /\ Len(s) >= 1 /\ StartsLine(s[1]) /\ s[Len(s)] = p
  /\ \A k \in 1 .. Len(s) : Apt(s[k])
  /\ \A k \in Nat : 1 <= k /\ k < Len(s) => Linked(s[k], s[k + 1])

LEMMA OneBegins ==
  ASSUME NEW p \in GoodPieces, StartsLine(p), Apt(p)
  PROVE  Started(<<p>>, p)
<1> DEFINE s == <<p>>
<1>1. s \in Seq(GoodPieces) /\ Len(s) = 1 /\ s[1] = p
  OBVIOUS
<1> HIDE DEF s
<1>2. \A k \in 1 .. 1 : k = 1
  OBVIOUS
<1>3. \A k \in 1 .. Len(s) : Apt(s[k])
  BY <1>1, <1>2
<1>4. \A k \in Nat : ~ (1 <= k /\ k < Len(s))
  BY <1>1
<1>5. Len(s) >= 1
  BY <1>1
<1>6. Started(s, p)
  BY <1>1, <1>3, <1>4, <1>5 DEF Started
<1>7. QED
  BY <1>6 DEF s

LEMMA OneMore ==
  ASSUME NEW s, NEW p, NEW q \in GoodPieces, Started(s, p), Apt(q), Linked(p, q)
  PROVE  Started(s \o <<q>>, q)
<1> DEFINE t == <<q>>
           u == s \o t
<1>1. /\ s \in Seq(GoodPieces) /\ Len(s) >= 1 /\ StartsLine(s[1]) /\ s[Len(s)] = p
      /\ \A k \in 1 .. Len(s) : Apt(s[k])
      /\ \A k \in Nat : 1 <= k /\ k < Len(s) => Linked(s[k], s[k + 1])
  BY DEF Started
<1>2. t \in Seq(GoodPieces) /\ Len(t) = 1 /\ t[1] = q
  OBVIOUS
<1> HIDE DEF t
<1>3. u \in Seq(GoodPieces) /\ Joint(u, s, t)
  BY <1>1, <1>2, TextBehind
<1> HIDE DEF u
<1>4. PICK m \in Nat :
        /\ m = Len(s) /\ Len(u) = m + 1 /\ m >= 1
        /\ \A i \in 1 .. m : u[i] = s[i]
        /\ u[m + 1] = q
  <2>1. 1 \in 1 .. 1
    OBVIOUS
  <2>2. QED
    BY <1>1, <1>2, <1>3, <2>1 DEF Joint
<1>5. \A k \in 1 .. m + 1 : k \in 1 .. m \/ k = m + 1
  BY <1>4
<1>6. ASSUME NEW k \in 1 .. m + 1 PROVE Apt(u[k])
  BY <1>1, <1>4, <1>5
<1>7. ASSUME NEW k \in Nat, 1 <= k, k < m + 1 PROVE Linked(u[k], u[k + 1])
  <2>1. CASE k < m
    <3>1. k \in 1 .. m /\ k + 1 \in 1 .. m
      BY <1>7, <2>1
    <3>2. u[k] = s[k] /\ u[k + 1] = s[k + 1]
      BY <1>4, <3>1
    <3>3. QED
      BY <1>1, <1>4, <1>7, <2>1, <3>2
  <2>2. CASE k = m
    <3>1. m \in 1 .. m
      BY <1>4
    <3>2. u[k] = p /\ u[k + 1] = q
      BY <1>1, <1>4, <2>2, <3>1
    <3>3. QED
      BY <3>2
  <2>3. k < m \/ k = m
    BY <1>4, <1>7
  <2>4. QED
    BY <2>1, <2>2, <2>3
<1>8. StartsLine(u[1])
  <2>1. 1 \in 1 .. m
    BY <1>4
  <2>2. QED
    BY <1>1, <1>4, <2>1
<1>9. Started(u, q)
  <2>1. Len(u) >= 1
    BY <1>4
  <2>2. QED
    BY <1>3, <1>4, <1>6, <1>7, <1>8, <2>1 DEF Started
<1>10. QED
  BY <1>9 DEF u, t

LEMMA NoneMore ==
  ASSUME NEW s, NEW p, Started(s, p)
  PROVE  Started(s \o <<>>, p)
<1>1. s \o <<>> = s
  BY ConcatEmptySeq DEF Started
<1>2. QED
  BY <1>1

LEMMA LineEnds ==
  ASSUME NEW s, NEW p, Started(s, p), EndsLine(p)
  PROVE  Chain(s)
BY DEF Started, Chain

LEMMA TLinked ==
  ASSUME NEW g \in {"T1", "T2", "T3", "T4", "T5", "T6", "T7"}
  PROVE  Chain(format_t(g))
<1> DEFINE start   == <<"R", "DF", "T">>
           flags   == <<"S", "A", "F">>
           finish  == <<"RD", "Q">>
           head    == Part("head", g, start)
           window  == Part("middle", g, <<"W">>)
           middle  == Part("middle", g, flags)
           options == Part("middle", g, <<"O">>)
           tail    == Part("tail", g, finish)
<1>1. /\ Rank("R") = 1 /\ Rank("DF") = 2 /\ Rank("T") = 3 /\ Rank("W") = 4 /\ Rank("S") = 5
      /\ Rank("A") = 6 /\ Rank("F") = 7 /\ Rank("O") = 8 /\ Rank("RD") = 10 /\ Rank("Q") = 11
  BY DEF Rank
<1>2. /\ "R" \in MatchPoints[g] /\ "DF" \in MatchPoints[g] /\ "T" \in MatchPoints[g]
      /\ "S" \in MatchPoints[g] /\ "A" \in MatchPoints[g] /\ "F" \in MatchPoints[g]
      /\ "RD" \in MatchPoints[g] /\ "Q" \in MatchPoints[g] /\ "TG" \in MatchPoints[g]
      /\ g # "T1" => "W" \in MatchPoints[g] /\ "O" \in MatchPoints[g]
  BY DEF MatchPoints, TcpFields
<1>3. /\ "R" \in Words /\ "DF" \in Words /\ "T" \in Words /\ "W" \in Words /\ "S" \in Words
      /\ "A" \in Words /\ "F" \in Words /\ "O" \in Words /\ "RD" \in Words /\ "Q" \in Words
      /\ g \in Words
  BY DEF Words
<1>4. /\ Orderly(start, g) /\ First(start) = 1 /\ Highest(start) = 3
      /\ Orderly(flags, g) /\ First(flags) = 5 /\ Highest(flags) = 7
  BY <1>1, <1>2, ThreeInOrder
<1>5. Orderly(finish, g) /\ First(finish) = 10 /\ Highest(finish) = 11
  <2>1. Len(finish) = 2 /\ finish[1] = "RD" /\ finish[2] = "Q"
    OBVIOUS
  <2> HIDE DEF finish
  <2>2. \A k \in 1 .. 2 : k = 1 \/ k = 2
    OBVIOUS
  <2>3. \A k \in 1 .. 2 : finish[k] \in MatchPoints[g]
    BY <1>2, <2>1, <2>2
  <2>4. \A i, k \in 1 .. 2 : i < k => Rank(finish[i]) < Rank(finish[k])
    BY <1>1, <2>1, <2>2
  <2>5. QED
    BY <1>1, <2>1, <2>3, <2>4 DEF Orderly, First, Highest
<1>6. g # "T1" => /\ Orderly(<<"W">>, g) /\ First(<<"W">>) = 4 /\ Highest(<<"W">>) = 4
                  /\ Orderly(<<"O">>, g) /\ First(<<"O">>) = 8 /\ Highest(<<"O">>) = 8
  <2>1. "W" # "T" /\ "O" # "T"
    OBVIOUS
  <2>2. QED
    BY <1>1, <1>2, <2>1, OneInOrder
<1>7. /\ start \in Seq(Words) /\ Len(start) = 3 /\ flags \in Seq(Words) /\ Len(flags) = 3
      /\ finish \in Seq(Words) /\ Len(finish) = 2
      /\ <<"W">> \in Seq(Words) /\ Len(<<"W">>) = 1 /\ <<"O">> \in Seq(Words) /\ Len(<<"O">>) = 1
  BY <1>3
<1>8. /\ head.op = "head" /\ head.group = g /\ head.names = start
      /\ window.op = "middle" /\ window.group = g /\ window.names = <<"W">>
      /\ middle.op = "middle" /\ middle.group = g /\ middle.names = flags
      /\ options.op = "middle" /\ options.group = g /\ options.names = <<"O">>
      /\ tail.op = "tail" /\ tail.group = g /\ tail.names = finish
  BY DEF Part
<1> HIDE DEF start, flags, finish
<1>9. head \in GoodPieces
  <2>1. Len(start) >= 1 /\ Len(start) >= 3
    BY <1>7
  <2>2. head \in GoodPieces /\ ("head" = "head" => Cost(head) = Longest(start) + Letters(g) + 1)
    BY <1>3, <1>7, <2>1, PartPiece
  <2>3. QED
    BY <2>2
<1>15. middle \in GoodPieces
  <2>1. Len(flags) >= 1
    BY <1>7
  <2>2. middle \in GoodPieces /\ ("middle" = "middle" => Cost(middle) = Longest(flags) + 1)
    BY <1>3, <1>7, <2>1, PartPiece
  <2>3. QED
    BY <2>2
<1>16. tail \in GoodPieces
  <2>1. Len(finish) >= 1
    BY <1>7
  <2>2. tail \in GoodPieces /\ ("tail" = "tail" => Cost(tail) = Longest(finish) + 3)
    BY <1>3, <1>7, <2>1, PartPiece
  <2>3. QED
    BY <2>2
<1>17. window \in GoodPieces
  <2> DEFINE n == <<"W">>
  <2>1. n \in Seq(Words) /\ Len(n) >= 1
    BY <1>7
  <2> HIDE DEF n
  <2>2. Part("middle", g, n) \in GoodPieces
          /\ ("middle" = "middle" => Cost(Part("middle", g, n)) = Longest(n) + 1)
    BY <1>3, <2>1, PartPiece
  <2>3. QED
    BY <2>2 DEF n
<1>18. options \in GoodPieces
  <2> DEFINE n == <<"O">>
  <2>1. n \in Seq(Words) /\ Len(n) >= 1
    BY <1>7
  <2> HIDE DEF n
  <2>2. Part("middle", g, n) \in GoodPieces
          /\ ("middle" = "middle" => Cost(Part("middle", g, n)) = Longest(n) + 1)
    BY <1>3, <2>1, PartPiece
  <2>3. QED
    BY <2>2 DEF n
<1> HIDE DEF head, window, middle, options, tail
<1>10. StartsLine(head) /\ EndsLine(tail)
  BY <1>8 DEF StartsLine, EndsLine
<1>11. Apt(head) /\ Apt(middle) /\ Apt(tail)
  BY <1>2, <1>4, <1>5, <1>8 DEF Apt
<1>19. Started(<<head>>, head)
  BY <1>9, <1>10, <1>11, OneBegins
<1>12. CASE g = "T1"
  <2> DEFINE a == <<head>> \o <<>>
             b == a \o <<middle>>
             c == b \o <<>>
             d == c \o <<tail>>
  <2>1. format_t(g) = d
    BY <1>12 DEF format_t, head, middle, tail, start, flags, finish
  <2>2. Linked(head, middle) /\ Linked(middle, tail)
    BY <1>4, <1>5, <1>8 DEF Linked, EndsLine
  <2>3. Started(a, head)
    BY <1>19, NoneMore
  <2> HIDE DEF a
  <2>4. Started(b, middle)
    BY <1>11, <1>15, <2>2, <2>3, OneMore
  <2> HIDE DEF b
  <2>5. Started(c, middle)
    BY <2>4, NoneMore
  <2> HIDE DEF c
  <2>6. Started(d, tail)
    BY <1>11, <1>16, <2>2, <2>5, OneMore
  <2> HIDE DEF d
  <2>7. QED
    BY <1>10, <2>1, <2>6, LineEnds
<1>13. CASE g # "T1"
  <2> DEFINE a == <<head>> \o <<window>>
             b == a \o <<middle>>
             c == b \o <<options>>
             d == c \o <<tail>>
  <2>1. format_t(g) = d
    BY <1>13 DEF format_t, head, window, middle, options, tail, start, flags, finish
  <2>2. /\ Linked(head, window) /\ Linked(window, middle) /\ Linked(middle, options)
        /\ Linked(options, tail)
    BY <1>4, <1>5, <1>6, <1>8, <1>13 DEF Linked, EndsLine
  <2>3. Apt(window) /\ Apt(options)
    BY <1>2, <1>6, <1>8, <1>13 DEF Apt
  <2>4. Started(a, window)
    BY <1>17, <1>19, <2>2, <2>3, OneMore
  <2> HIDE DEF a
  <2>5. Started(b, middle)
    BY <1>11, <1>15, <2>2, <2>4, OneMore
  <2> HIDE DEF b
  <2>6. Started(c, options)
    BY <1>18, <2>2, <2>3, <2>5, OneMore
  <2> HIDE DEF c
  <2>7. Started(d, tail)
    BY <1>11, <1>16, <2>2, <2>6, OneMore
  <2> HIDE DEF d
  <2>8. QED
    BY <1>10, <2>1, <2>7, LineEnds
<1>14. QED
  BY <1>12, <1>13

LEMMA PiecesLinked == Chain(Pieces)
<1> DEFINE p1 == format_seq \o format_ops
           p2 == p1 \o format_win
           p3 == p2 \o format_ecn
           p4 == p3 \o format_t("T1")
           p5 == p4 \o format_t("T2")
           p6 == p5 \o format_t("T3")
           p7 == p6 \o format_t("T4")
           p8 == p7 \o format_t("T5")
           p9 == p8 \o format_t("T6")
           p10 == p9 \o format_t("T7")
           p11 == p10 \o format_u1
           p12 == p11 \o format_ie
<1>1. Pieces = p12
  BY DEF Pieces
<1>2. /\ Chain(format_t("T1")) /\ Chain(format_t("T2")) /\ Chain(format_t("T3"))
      /\ Chain(format_t("T4")) /\ Chain(format_t("T5")) /\ Chain(format_t("T6"))
      /\ Chain(format_t("T7"))
  BY TLinked
<1>3. Chain(p1)
  BY SeqLinked, OpsLinked, ChainOfBoth
<1> HIDE DEF p1
<1>4. Chain(p2)
  BY <1>3, WinLinked, ChainOfBoth
<1> HIDE DEF p2
<1>5. Chain(p3)
  BY <1>4, EcnLinked, ChainOfBoth
<1> HIDE DEF p3
<1>6. Chain(p4)
  BY <1>2, <1>5, ChainOfBoth
<1> HIDE DEF p4
<1>7. Chain(p5)
  BY <1>2, <1>6, ChainOfBoth
<1> HIDE DEF p5
<1>8. Chain(p6)
  BY <1>2, <1>7, ChainOfBoth
<1> HIDE DEF p6
<1>9. Chain(p7)
  BY <1>2, <1>8, ChainOfBoth
<1> HIDE DEF p7
<1>10. Chain(p8)
  BY <1>2, <1>9, ChainOfBoth
<1> HIDE DEF p8
<1>11. Chain(p9)
  BY <1>2, <1>10, ChainOfBoth
<1> HIDE DEF p9
<1>12. Chain(p10)
  BY <1>2, <1>11, ChainOfBoth
<1> HIDE DEF p10
<1>13. Chain(p11)
  BY <1>12, U1Linked, ChainOfBoth
<1> HIDE DEF p11
<1>14. Chain(p12)
  BY <1>13, IeLinked, ChainOfBoth
<1>15. QED
  BY <1>1, <1>14

-----------------------------------------------------------------------------
(* The line and its names at every step of the call.                       *)

Open(l, names, g) == Written(l, names, g) /\ Orderly(names, g)
Done(l, names, g) == \E t : Open(t, names, g) /\ l = t \o <<")", "\n">>
Between(l, names) == (l = <<>> /\ names = <<>>) \/ \E g : Done(l, names, g)

(* Before piece k the line is open if the piece goes on with it, and what  *)
(* is to come has a later place than what is there.                        *)
Within(k, f) == k <= Len(Pieces) /\ (Pieces[k].op \in {"middle", "tail"} \/ ~ f)

Proper(l, names, k, f) ==
  /\ f \/ (k <= Len(Pieces) /\ Pieces[k].op \in {"optional", "close"})
  /\ ~ Within(k, f) => Between(l, names)
  /\ Within(k, f) =>
       /\ Open(l, names, Pieces[k].group)
       /\ Pieces[k].op # "close" => Highest(names) < First(Pieces[k].names)

LinesInv ==
  /\ Between(line, shown) \/ \E g : Open(line, shown, g)
  /\ result = RUNNING => Proper(line, shown, at, first)

LEMMA FirstToHighest ==
  ASSUME NEW names \in Seq(Words), Len(names) >= 1, NEW g, Orderly(names, g)
  PROVE  First(names) <= Highest(names) /\ First(names) \in Nat /\ Highest(names) \in Nat
<1>1. First(names) \in Nat /\ Highest(names) \in Nat
  BY RanksAreNumbers DEF First, Highest
<1>2. PICK n \in Nat : n = Len(names) /\ n >= 1
  OBVIOUS
<1>3. CASE n = 1
  BY <1>1, <1>2, <1>3 DEF First, Highest
<1>4. CASE n > 1
  <2>1. 1 \in 1 .. n /\ n \in 1 .. n /\ 1 < n
    BY <1>4
  <2>2. Rank(names[1]) < Rank(names[n])
    BY <1>2, <2>1 DEF Orderly
  <2>3. QED
    BY <1>1, <1>2, <2>2 DEF First, Highest
<1>5. QED
  BY <1>2, <1>3, <1>4

LEMMA OrderlyBoth ==
  ASSUME NEW a \in Seq(Words), NEW b \in Seq(Words), Len(a) >= 1, Len(b) >= 1, NEW g,
         Orderly(a, g), Orderly(b, g), Highest(a) < First(b)
  PROVE  Orderly(a \o b, g) /\ Highest(a \o b) = Highest(b)
<1> DEFINE u == a \o b
<1>1. u \in Seq(Words) /\ Joint(u, a, b)
  BY TextBehind
<1> HIDE DEF u
<1>2. PICK m \in Nat, n \in Nat :
        /\ m = Len(a) /\ n = Len(b) /\ Len(u) = m + n /\ m >= 1 /\ n >= 1
        /\ \A i \in 1 .. m : u[i] = a[i]
        /\ \A i \in 1 .. n : u[m + i] = b[i]
  BY <1>1 DEF Joint
<1>3. ASSUME NEW k \in 1 .. m + n
      PROVE  k \in 1 .. m \/ \E j \in 1 .. n : k = m + j
  <2>1. CASE k <= m
    BY <2>1
  <2>2. CASE k > m
    <3>1. k - m \in 1 .. n /\ k = m + (k - m)
      BY <2>2
    <3>2. QED
      BY <3>1
  <2>3. QED
    BY <2>1, <2>2
<1>4. \A k \in 1 .. m + n : u[k] \in MatchPoints[g]
  BY <1>2, <1>3 DEF Orderly
<1>5. \A k : Rank(k) \in Nat
  BY RanksAreNumbers
<1>6. \A i \in 1 .. m : Rank(a[i]) <= Highest(a)
  <2> SUFFICES ASSUME NEW i \in 1 .. m PROVE Rank(a[i]) <= Highest(a)
    OBVIOUS
  <2>1. CASE i = m
    BY <1>2, <1>5, <2>1 DEF Highest
  <2>2. CASE i < m
    <3>1. m \in 1 .. m
      BY <1>2
    <3>2. Rank(a[i]) < Rank(a[m])
      BY <1>2, <2>2, <3>1 DEF Orderly
    <3>3. QED
      BY <1>2, <1>5, <3>2 DEF Highest
  <2>3. QED
    BY <2>1, <2>2
<1>7. \A j \in 1 .. n : First(b) <= Rank(b[j])
  <2> SUFFICES ASSUME NEW j \in 1 .. n PROVE First(b) <= Rank(b[j])
    OBVIOUS
  <2>1. CASE j = 1
    BY <1>5, <2>1 DEF First
  <2>2. CASE j > 1
    <3>1. 1 \in 1 .. n
      BY <1>2
    <3>2. Rank(b[1]) < Rank(b[j])
      BY <1>2, <2>2, <3>1 DEF Orderly
    <3>3. QED
      BY <1>5, <3>2 DEF First
  <2>3. QED
    BY <2>1, <2>2
<1>8. ASSUME NEW i \in 1 .. m + n, NEW k \in 1 .. m + n, i < k
      PROVE  Rank(u[i]) < Rank(u[k])
  <2>1. CASE k \in 1 .. m
    <3>1. i \in 1 .. m
      BY <1>8, <2>1
    <3>2. QED
      BY <1>2, <1>8, <2>1, <3>1 DEF Orderly
  <2>2. CASE i \in 1 .. m /\ \E j \in 1 .. n : k = m + j
    <3>1. PICK j \in 1 .. n : k = m + j
      BY <2>2
    <3>2. u[i] = a[i] /\ u[k] = b[j]
      BY <1>2, <2>2, <3>1
    <3>3. Rank(a[i]) <= Highest(a) /\ First(b) <= Rank(b[j])
      BY <1>6, <1>7, <2>2
    <3>4. Highest(a) \in Nat /\ First(b) \in Nat /\ Rank(a[i]) \in Nat /\ Rank(b[j]) \in Nat
      BY <1>5 DEF Highest, First
    <3>5. Rank(a[i]) < Rank(b[j])
      BY <3>3, <3>4
    <3>6. QED
      BY <3>2, <3>5
  <2>3. CASE (\E h \in 1 .. n : i = m + h) /\ \E j \in 1 .. n : k = m + j
    <3>1. PICK h \in 1 .. n, j \in 1 .. n : i = m + h /\ k = m + j
      BY <2>3
    <3>2. h < j
      BY <1>2, <1>8, <3>1
    <3>3. u[i] = b[h] /\ u[k] = b[j]
      BY <1>2, <3>1
    <3>4. Rank(b[h]) < Rank(b[j])
      BY <1>2, <3>2 DEF Orderly
    <3>5. QED
      BY <3>3, <3>4
  <2>4. QED
    BY <1>3, <2>1, <2>2, <2>3
<1>9. Orderly(u, g)
  BY <1>2, <1>4, <1>8 DEF Orderly
<1>10. Highest(u) = Highest(b)
  <2>1. n \in 1 .. n
    BY <1>2
  <2>2. u[m + n] = b[n]
    BY <1>2, <2>1
  <2>3. QED
    BY <1>2, <2>2 DEF Highest
<1>11. QED
  BY <1>9, <1>10 DEF u

(* Whether a line is complete.                                             *)
LEMMA NewLineBehind ==
  ASSUME NEW t \in Seq(Marked)
  PROVE  /\ t \o <<")", "\n">> # <<>> /\ Len(t \o <<")", "\n">>) = Len(t) + 2
         /\ (t \o <<")", "\n">>)[Len(t \o <<")", "\n">>)] = "\n"
         /\ Closes(SubSeq(t \o <<")", "\n">>, 1, Len(t \o <<")", "\n">>) - 1), t)
<1> DEFINE R == Marked \cup {")", "\n"}
           d == <<")", "\n">>
           c == <<")">>
           u == t \o d
           w == t \o c
           v == SubSeq(u, 1, Len(u) - 1)
<1>1. /\ d \in Seq(R) /\ Len(d) = 2 /\ d[1] = ")" /\ d[2] = "\n"
      /\ c \in Seq(R) /\ Len(c) = 1 /\ c[1] = ")"
  OBVIOUS
<1> HIDE DEF d, c
<1>2. t \in Seq(R)
  OBVIOUS
<1> HIDE DEF R
<1>3. u \in Seq(R) /\ Joint(u, t, d) /\ w \in Seq(R) /\ Joint(w, t, c)
  BY <1>1, <1>2, TextBehind
<1> HIDE DEF u, w
<1>4. PICK m \in Nat :
        /\ m = Len(t) /\ Len(u) = m + 2 /\ Len(w) = m + 1
        /\ \A i \in 1 .. m : u[i] = t[i] /\ w[i] = t[i]
        /\ u[m + 1] = ")" /\ u[m + 2] = "\n" /\ w[m + 1] = ")"
  <2>1. 1 \in 1 .. 2 /\ 2 \in 1 .. 2 /\ 1 \in 1 .. 1
    OBVIOUS
  <2>2. QED
    BY <1>1, <1>3, <2>1 DEF Joint
<1>5. u # <<>>
  <2>1. Len(u) # 0
    BY <1>4
  <2>2. QED
    BY <2>1
<1>6. u[Len(u)] = "\n"
  BY <1>4
<1>7. v = w
  <2>1. Len(u) - 1 = m + 1 /\ 1 <= m + 1 + 1 /\ m + 1 <= Len(u)
    BY <1>4
  <2>2. v = SubSeq(u, 1, m + 1)
    BY <2>1
  <2>3. v \in Seq(R) /\ Len(v) = m + 1 /\ \A i \in 1 .. m + 1 : v[i] = u[i]
    BY <1>3, <1>4, <2>1, <2>2
  <2>4. \A i \in 1 .. m + 1 : i \in 1 .. m \/ i = m + 1
    BY <1>4
  <2>5. \A i \in 1 .. m + 1 : v[i] = w[i]
    BY <1>4, <2>3, <2>4
  <2> HIDE DEF v
  <2>6. QED
    BY <1>3, <1>4, <2>3, <2>5, SeqEqual
<1>8. Closes(v, t)
  BY <1>7 DEF Closes, w, c
<1>9. QED
  BY <1>4, <1>5, <1>6, <1>8 DEF u, d

LEMMA OpenIsOpen ==
  ASSUME NEW g, Open(line, shown, g)
  PROVE  ~ Complete /\ Begun(line) = line /\ Begun(shown) = shown
<1>1. line \in Seq(Marked)
  BY DEF Open, Written
<1>2. ~ Complete
  <2> SUFFICES ASSUME line # <<>> PROVE line[Len(line)] # "\n"
    BY DEF Complete
  <2>1. Len(line) \in 1 .. Len(line)
    BY <1>1
  <2>2. line[Len(line)] \in Marked
    BY <1>1, <2>1, ElementOfSeq
  <2>3. QED
    BY <2>2, MarkedSymbols
<1>3. QED
  BY <1>2 DEF Begun

LEMMA BetweenIsNew ==
  ASSUME Between(line, shown)
  PROVE  Begun(line) = <<>> /\ Begun(shown) = <<>>
<1>1. CASE line = <<>> /\ shown = <<>>
  BY <1>1 DEF Begun
<1>2. CASE \E g : Done(line, shown, g)
  <2>1. PICK t, g : t \in Seq(Marked) /\ line = t \o <<")", "\n">>
    BY <1>2 DEF Done, Open, Written
  <2>2. Complete
    BY <2>1, NewLineBehind DEF Complete
  <2>3. QED
    BY <2>2 DEF Begun
<1>3. QED
  BY <1>1, <1>2 DEF Between

LEMMA GroupsAreWords ==
  ASSUME NEW k \in 1 .. Len(Pieces)
  PROVE  /\ Pieces[k] \in GoodPieces /\ Pieces[k].group \in Words /\ Apt(Pieces[k])
         /\ Pieces[k].op \in {"optional", "close", "whole", "head", "middle", "tail"}
         /\ Pieces[k].names \in Seq(Words)
         /\ Pieces[k].op # "close" =>
              /\ Len(Pieces[k].names) >= 1 /\ Orderly(Pieces[k].names, Pieces[k].group)
<1>1. Pieces \in Seq(GoodPieces) /\ \A j \in 1 .. Len(Pieces) : Apt(Pieces[j])
  BY PiecesLinked DEF Chain
<1>2. Pieces[k] \in GoodPieces
  BY <1>1, ElementOfSeq
<1>3. Apt(Pieces[k])
  BY <1>1
<1>4. QED
  BY <1>2, <1>3 DEF GoodPieces, Apt

LEMMA NextPiece ==
  ASSUME NEW k \in 1 .. Len(Pieces)
  PROVE  /\ EndsLine(Pieces[k]) => k + 1 = Len(Pieces) + 1 \/ StartsLine(Pieces[k + 1])
         /\ ~ EndsLine(Pieces[k]) => k + 1 \in 1 .. Len(Pieces) /\ Linked(Pieces[k], Pieces[k + 1])
         /\ k + 1 <= Len(Pieces) => Linked(Pieces[k], Pieces[k + 1])
<1>1. PICK n \in Nat : n = Len(Pieces)
  BY AllPieces
<1>2. /\ EndsLine(Pieces[n])
      /\ \A j \in Nat : 1 <= j /\ j < n => Linked(Pieces[j], Pieces[j + 1])
  BY <1>1, PiecesLinked DEF Chain
<1>3. k \in Nat /\ 1 <= k /\ k <= n
  BY <1>1
<1>4. CASE k = n
  BY <1>1, <1>2, <1>3, <1>4
<1>5. CASE k < n
  <2>1. Linked(Pieces[k], Pieces[k + 1]) /\ k + 1 \in 1 .. n
    BY <1>2, <1>3, <1>5
  <2>2. QED
    BY <1>1, <2>1 DEF Linked
<1>6. QED
  BY <1>3, <1>4, <1>5

(* Behind the end of a line, the piece that comes next starts another.     *)
LEMMA AfterEnd ==
  ASSUME NEW l, NEW names, Between(l, names),
         NEW k \in 1 .. Len(Pieces) + 1, k = Len(Pieces) + 1 \/ StartsLine(Pieces[k])
  PROVE  Proper(l, names, k, TRUE)
<1>1. PICK n \in Nat : n = Len(Pieces)
  BY AllPieces
<1>2. ~ Within(k, TRUE)
  <2>1. CASE k = n + 1
    BY <1>1, <2>1 DEF Within
  <2>2. CASE StartsLine(Pieces[k])
    BY <2>2 DEF StartsLine, Within
  <2>3. QED
    BY <1>1, <2>1, <2>2
<1>3. QED
  BY <1>2 DEF Proper

(* Within a line, the next piece goes on with it.                          *)
LEMMA AfterOpen ==
  ASSUME NEW k \in 1 .. Len(Pieces), Pieces[k].op \in {"optional", "head", "middle"},
         NEW l, NEW names, Open(l, names, Pieces[k].group),
         Highest(names) <= Highest(Pieces[k].names), Highest(names) \in Nat
  PROVE  Proper(l, names, k + 1, Pieces[k].op # "optional")
<1> DEFINE p == Pieces[k]
           q == Pieces[k + 1]
           f == p.op # "optional"
<1>1. PICK n \in Nat : n = Len(Pieces)
  BY AllPieces
<1>2. ~ EndsLine(p)
  BY DEF EndsLine
<1>3. k + 1 \in 1 .. Len(Pieces) /\ Linked(p, q)
  BY <1>2, NextPiece
<1>4. /\ q.group = p.group
      /\ p.op = "optional" => q.op \in {"optional", "close"}
      /\ p.op # "optional" => q.op \in {"middle", "tail"}
      /\ q.op # "close" => Highest(p.names) < First(q.names)
  BY <1>2, <1>3 DEF Linked
<1>5. k + 1 <= Len(Pieces)
  BY <1>1, <1>3
<1>6. Within(k + 1, f)
  BY <1>4, <1>5 DEF Within
<1>7. q.op # "close" => Highest(names) < First(q.names)
  <2>1. Highest(p.names) \in Nat /\ First(q.names) \in Nat
    BY RanksAreNumbers DEF Highest, First
  <2>2. QED
    BY <1>4, <2>1
<1>8. f \/ (k + 1 <= Len(Pieces) /\ q.op \in {"optional", "close"})
  BY <1>4, <1>5
<1>9. QED
  BY <1>4, <1>6, <1>7, <1>8 DEF Proper

(* The piece behind the rest of a line that is "R=N".                      *)
LEMMA NextGroupStarts ==
  ASSUME at \in 1 .. Len(Pieces)
  PROVE  NextGroup = Len(Pieces) + 1 \/ StartsLine(Pieces[NextGroup])
<1> DEFINE N        == Len(Pieces)
           other(k) == k = N + 1 \/ Pieces[k].group # Piece.group
           T        == {k \in at + 1 .. N + 1 : other(k)}
           NewOne(k) == /\ k <= N => Pieces[k].group # Piece.group
                        /\ \A m \in at + 1 .. k - 1 : Pieces[m].group = Piece.group
<1>1. N \in Nat /\ at \in Nat /\ at <= N /\ 1 <= at
  BY AllPieces
<1>2. T \subseteq Nat /\ N + 1 \in T
  BY <1>1
<1>3. PICK k \in T : \A y \in T : k <= y
  BY <1>2, SmallestMember
<1>4. k \in at + 1 .. N + 1 /\ (k <= N => Pieces[k].group # Piece.group)
  BY <1>1, <1>3
<1>5. ASSUME NEW m \in at + 1 .. k - 1 PROVE Pieces[m].group = Piece.group
  <2>1. m \in at + 1 .. N + 1 /\ m # N + 1 /\ ~ k <= m
    BY <1>1, <1>4
  <2>2. m \notin T
    BY <1>3, <2>1
  <2>3. QED
    BY <2>1, <2>2
<1>6. \E j \in at + 1 .. N + 1 : NewOne(j)
  BY <1>4, <1>5
<1>7. NextGroup = CHOOSE j \in at + 1 .. N + 1 : NewOne(j)
  BY DEF NextGroup
<1>8. NextGroup \in at + 1 .. N + 1 /\ NewOne(NextGroup)
  BY <1>6, <1>7
<1>9. PICK g \in Nat : g = NextGroup /\ at + 1 <= g /\ g <= N + 1
  BY <1>1, <1>8
<1>10. CASE g <= N
  <2>1. PICK h \in Nat : h = g - 1 /\ h + 1 = g /\ at <= h /\ h < N
    <3>1. g - 1 \in Nat /\ (g - 1) + 1 = g /\ at <= g - 1 /\ g - 1 < N
      BY <1>1, <1>9, <1>10
    <3>2. QED
      BY <3>1
  <2>2. Pieces[h].group = Piece.group
    <3>1. CASE h = at
      BY <3>1 DEF Piece
    <3>2. CASE h > at
      <4>1. h \in at + 1 .. g - 1
        BY <1>1, <1>9, <2>1, <3>2
      <4>2. QED
        BY <1>8, <1>9, <4>1
    <3>3. QED
      BY <1>1, <2>1, <3>1, <3>2
  <2>3. Pieces[g].group # Piece.group
    BY <1>8, <1>9, <1>10
  <2>4. h \in 1 .. Len(Pieces) /\ h + 1 <= Len(Pieces)
    BY <1>1, <1>9, <1>10, <2>1
  <2>5. Linked(Pieces[h], Pieces[g])
    BY <2>1, <2>4, NextPiece
  <2>6. QED
    BY <1>9, <2>2, <2>3, <2>5 DEF Linked
<1>11. QED
  BY <1>1, <1>9, <1>10

(* The names that are written in the place of those of the piece.          *)
LEMMA NamesFit ==
  ASSUME at \in 1 .. Len(Pieces), Piece.op # "close",
         NEW names, names = Piece.names \/ names \in Names
  PROVE  /\ names \in Seq(Words) /\ Len(names) >= 1 /\ Orderly(names, Piece.group)
         /\ First(names) = First(Piece.names) /\ Highest(names) = Highest(Piece.names)
<1> DEFINE all == Piece.names
           g   == Piece.group
<1>1. /\ all \in Seq(Words) /\ Len(all) >= 1 /\ Orderly(all, g) /\ Apt(Piece)
  BY GroupsAreWords DEF Piece
<1>2. PICK n \in Nat : n = Len(all) /\ n >= 1 /\ DOMAIN all = 1 .. n
  BY <1>1
<1>3. /\ names \in Seq(Words) /\ Len(names) = n
      /\ \A k \in 1 .. n : \/ names[k] = all[k]
                           \/ all[k] = "T" /\ names[k] \in {"T", "TG"}
  <2>1. CASE names = all
    BY <1>1, <1>2, <2>1
  <2>2. CASE names \in Names
    <3>1. PICK t \in {"T", "TG"} : names = [k \in DOMAIN all |-> IF all[k] = "T" THEN t ELSE all[k]]
      BY <2>2 DEF Names
    <3>2. t \in Words
      BY DEF Words
    <3>3. \A k \in 1 .. n : all[k] \in Words
      BY <1>1, <1>2, ElementOfSeq
    <3>4. names \in [1 .. n -> Words]
      BY <1>2, <3>1, <3>2, <3>3
    <3>5. QED
      BY <1>2, <3>1, <3>4
  <2>3. QED
    BY <2>1, <2>2
<1>4. \A k \in 1 .. n : all[k] = "T" => "TG" \in MatchPoints[g]
  BY <1>1, <1>2 DEF Apt
<1> HIDE DEF all, g
<1>5. Rank("TG") = Rank("T")
  BY DEF Rank
<1>6. \A k \in 1 .. n : Rank(names[k]) = Rank(all[k])
  BY <1>3, <1>5
<1>7. \A k \in 1 .. n : names[k] \in MatchPoints[g]
  <2>1. \A k \in 1 .. n : all[k] \in MatchPoints[g]
    BY <1>1, <1>2 DEF Orderly
  <2>2. QED
    BY <1>3, <1>4, <2>1
<1>8. Orderly(names, g)
  <2>1. \A i, k \in 1 .. n : i < k => Rank(names[i]) < Rank(names[k])
    BY <1>1, <1>2, <1>6 DEF Orderly
  <2>2. QED
    BY <1>3, <1>7, <2>1 DEF Orderly
<1>9. First(names) = First(all) /\ Highest(names) = Highest(all)
  <2>1. 1 \in 1 .. n /\ n \in 1 .. n
    BY <1>2
  <2>2. QED
    BY <1>2, <1>3, <1>6, <2>1 DEF First, Highest
<1>10. QED
  BY <1>2, <1>3, <1>8, <1>9 DEF all, g

(* A piece behind the start of its line, or behind the fields before it.   *)
LEMMA PieceWritten ==
  ASSUME at \in 1 .. Len(Pieces), Piece.op # "close", Proper(line, shown, at, first),
         NEW n \in Seq(Words), Len(n) >= 1, Orderly(n, Piece.group),
         First(n) = First(Piece.names), Highest(n) = Highest(Piece.names),
         NEW x, x = IF Within(at, first) THEN <<"%">> \o Fields(n)
                                         ELSE <<Piece.group, "(">> \o Fields(n)
  PROVE  /\ Open(Begun(line) \o x, Begun(shown) \o n, Piece.group)
         /\ Highest(Begun(shown) \o n) = Highest(n)
         /\ Begun(line) \in Seq(Marked) /\ x \in Seq(Marked)
<1> DEFINE g == Piece.group
<1>1. g \in Words
  BY GroupsAreWords DEF Piece
<1>2. /\ <<"%">> \in Seq(Marked) /\ <<g, "(">> \in Seq(Marked) /\ Fields(n) \in Seq(Marked)
  BY <1>1, OnlyFields, MarkedSymbols
<1>3. x \in Seq(Marked)
  <2>1. <<"%">> \o Fields(n) \in Seq(Marked)
    BY <1>2, ConcatProperties
  <2>2. <<g, "(">> \o Fields(n) \in Seq(Marked)
    BY <1>2, ConcatProperties
  <2>3. QED
    BY <2>1, <2>2
<1>4. CASE ~ Within(at, first)
  <2>1. Between(line, shown)
    BY <1>4 DEF Proper
  <2>2. Begun(line) = <<>> /\ Begun(shown) = <<>>
    BY <2>1, BetweenIsNew
  <2>3. x = <<g, "(">> \o Fields(n)
    BY <1>4
  <2>4. Written(x, n, g)
    BY <1>1, <2>3, LineStarts
  <2>5. <<>> \o x = x /\ <<>> \o n = n /\ <<>> \in Seq(Marked)
    BY <1>3, ConcatEmptySeq
  <2>6. QED
    BY <1>3, <2>2, <2>4, <2>5 DEF Open
<1>5. CASE Within(at, first)
  <2>1. Open(line, shown, g) /\ Highest(shown) < First(n)
    BY <1>5 DEF Proper, Piece
  <2>2. Begun(line) = line /\ Begun(shown) = shown
    BY <2>1, OpenIsOpen
  <2>3. x = <<"%">> \o Fields(n)
    BY <1>5
  <2>4. Written(line, shown, g) /\ Orderly(shown, g)
    BY <2>1 DEF Open
  <2>5. line \in Seq(Marked) /\ shown \in Seq(Words) /\ Len(shown) >= 1
    BY <2>4 DEF Written
  <2>6. Written(line \o x, shown \o n, g)
    BY <2>3, <2>4, LineContinues
  <2>7. Orderly(shown \o n, g) /\ Highest(shown \o n) = Highest(n)
    BY <2>1, <2>4, <2>5, OrderlyBoth
  <2>8. QED
    BY <1>3, <2>2, <2>5, <2>6, <2>7 DEF Open
<1>6. QED
  BY <1>4, <1>5

(* The end of the line behind it.                                          *)
LEMMA EndWritten ==
  ASSUME NEW b \in Seq(Marked), NEW x \in Seq(Marked), NEW names, NEW g,
         Open(b \o x, names, g)
  PROVE  Between(b \o (x \o <<")", "\n">>), names)
<1> DEFINE R == Marked \cup {")", "\n"}
           d == <<")", "\n">>
<1>1. d \in Seq(R) /\ b \in Seq(R) /\ x \in Seq(R)
  OBVIOUS
<1> HIDE DEF R, d
<1>2. b \o (x \o d) = (b \o x) \o d
  BY <1>1, ConcatAssociative
<1>3. Done(b \o (x \o d), names, g)
  BY <1>2 DEF Done, d
<1>4. QED
  BY <1>3 DEF Between, d

LEMMA ProperIsSome ==
  ASSUME NEW l, NEW names, NEW k, NEW f, Proper(l, names, k, f)
  PROVE  Between(l, names) \/ \E g : Open(l, names, g)
BY DEF Proper

(* One call of append_text.                                                *)
LEMMA LineAppended ==
  ASSUME LinesInv, result = RUNNING, NEW length, NEW text, NEW names,
         append_text(length, text, names),
         Proper(Begun(line) \o text, Begun(shown) \o names, at', first')
  PROVE  LinesInv'
<1>1. CASE fits(length)
  <2>1. line' = Begun(line) \o text /\ shown' = Begun(shown) \o names
    BY <1>1 DEF append_text
  <2>2. Proper(line', shown', at', first')
    BY <2>1
  <2>3. Between(line', shown') \/ \E g : Open(line', shown', g)
    BY <2>2, ProperIsSome
  <2>4. QED
    BY <2>2, <2>3 DEF LinesInv
<1>2. CASE ~ fits(length)
  <2>1. result' = -1 /\ line' = line /\ shown' = shown
    BY <1>2 DEF append_text
  <2>2. result' # RUNNING
    BY <2>1 DEF RUNNING
  <2>3. QED
    BY <2>1, <2>2 DEF LinesInv
<1>3. QED
  BY <1>1, <1>2

LEMMA LineOmit ==
  ASSUME LinesInv, FormatInv, Omit
  PROVE  LinesInv'
<1> DEFINE q == Pieces[at + 1]
<1>1. /\ Running /\ Piece.op = "optional" /\ at' = at + 1
      /\ UNCHANGED <<first, line, shown, result>> /\ result = RUNNING
  BY DEF Omit, Running
<1>2. at \in 1 .. Len(Pieces) /\ first \in BOOLEAN /\ Len(Pieces) \in Nat
  BY <1>1, AllPieces DEF FormatInv, Running
<1>3. Proper(line, shown, at, first)
  BY <1>1 DEF LinesInv
<1>4. /\ at + 1 \in 1 .. Len(Pieces)
      /\ q.group = Piece.group /\ q.op \in {"optional", "close"}
      /\ q.op # "close" => Highest(Piece.names) < First(q.names)
  <2>1. ~ EndsLine(Piece)
    BY <1>1 DEF EndsLine
  <2>2. at + 1 \in 1 .. Len(Pieces) /\ Linked(Piece, q)
    BY <1>2, <2>1, NextPiece DEF Piece
  <2>3. QED
    BY <1>1, <2>1, <2>2 DEF Linked
<1>5. at + 1 <= Len(Pieces)
  BY <1>2, <1>4
<1>6. CASE first
  <2>1. ~ Within(at, first) /\ ~ Within(at + 1, first)
    BY <1>1, <1>4, <1>6 DEF Within, Piece
  <2>2. Proper(line, shown, at + 1, first)
    BY <1>3, <1>6, <2>1 DEF Proper
  <2>3. QED
    BY <1>1, <2>2 DEF LinesInv
<1>7. CASE ~ first
  <2>1. Within(at, first) /\ Within(at + 1, first)
    BY <1>2, <1>5, <1>7 DEF Within
  <2>2. Open(line, shown, Piece.group) /\ Highest(shown) < First(Piece.names)
    BY <1>1, <1>3, <2>1 DEF Proper, Piece
  <2>3. q.op # "close" => Highest(shown) < First(q.names)
    <3>1. First(Piece.names) <= Highest(Piece.names)
      <4>1. Piece.names \in Seq(Words) /\ Len(Piece.names) >= 1 /\ Orderly(Piece.names, Piece.group)
        BY <1>1, <1>2, GroupsAreWords DEF Piece
      <4>2. QED
        BY <4>1, FirstToHighest
    <3>2. /\ Highest(shown) \in Nat /\ First(Piece.names) \in Nat /\ Highest(Piece.names) \in Nat
          /\ First(q.names) \in Nat
      BY RanksAreNumbers DEF Highest, First
    <3>3. QED
      BY <1>4, <2>2, <3>1, <3>2
  <2>4. Proper(line, shown, at + 1, first)
    BY <1>4, <1>5, <2>1, <2>2, <2>3 DEF Proper
  <2>5. QED
    BY <1>1, <2>4 DEF LinesInv
<1>8. QED
  BY <1>6, <1>7

LEMMA LineOptional ==
  ASSUME LinesInv, FormatInv, FormatOptional
  PROVE  LinesInv'
<1> DEFINE n == Piece.names
           x == (IF first THEN <<Piece.group, "(">> ELSE <<"%">>) \o Fields(n)
<1>1. /\ Running /\ Piece.op = "optional" /\ first' = FALSE /\ at' = at + 1
      /\ result = RUNNING
  BY DEF FormatOptional, first_after, Running
<1>2. PICK length : append_text(length, x, n)
  BY DEF FormatOptional
<1>3. at \in 1 .. Len(Pieces) /\ first \in BOOLEAN /\ Len(Pieces) \in Nat
  BY <1>1, AllPieces DEF FormatInv, Running
<1>4. Proper(line, shown, at, first)
  BY <1>1 DEF LinesInv
<1>5. /\ n \in Seq(Words) /\ Len(n) >= 1 /\ Orderly(n, Piece.group)
      /\ First(n) = First(Piece.names) /\ Highest(n) = Highest(Piece.names)
  BY <1>1, <1>3, NamesFit
<1>6. Within(at, first) <=> ~ first
  BY <1>1, <1>3 DEF Within, Piece
<1>7. x = IF Within(at, first) THEN <<"%">> \o Fields(n) ELSE <<Piece.group, "(">> \o Fields(n)
  BY <1>6
<1> HIDE DEF n, x
<1>8. /\ Open(Begun(line) \o x, Begun(shown) \o n, Piece.group)
      /\ Highest(Begun(shown) \o n) = Highest(n)
  <2>1. Piece.op # "close"
    BY <1>1
  <2>2. QED
    BY <1>3, <1>4, <1>5, <1>7, <2>1, PieceWritten
<1>9. Proper(Begun(line) \o x, Begun(shown) \o n, at', first')
  <2> DEFINE l == Begun(line) \o x
             m == Begun(shown) \o n
  <2>1. /\ Open(l, m, Pieces[at].group) /\ Highest(m) = Highest(Pieces[at].names)
        /\ Pieces[at].op = "optional"
    BY <1>1, <1>5, <1>8 DEF Piece
  <2> HIDE DEF l, m
  <2>2. Highest(m) \in Nat
    BY RanksAreNumbers DEF Highest
  <2>3. Highest(m) <= Highest(Pieces[at].names)
    BY <2>1, <2>2
  <2>4. Pieces[at].op \in {"optional", "head", "middle"}
    BY <2>1
  <2>5. Proper(l, m, at + 1, Pieces[at].op # "optional")
    BY <1>3, <2>1, <2>2, <2>3, <2>4, AfterOpen
  <2>6. (Pieces[at].op # "optional") = FALSE
    BY <2>1
  <2>7. QED
    BY <1>1, <2>5, <2>6 DEF l, m
<1>10. QED
  BY <1>1, <1>2, <1>9, LineAppended

LEMMA LineClose ==
  ASSUME LinesInv, FormatInv, CloseOptional
  PROVE  LinesInv'
<1>1. /\ Running /\ Piece.op = "close" /\ first' = TRUE /\ at' = at + 1
      /\ result = RUNNING
  BY DEF CloseOptional, Running
<1>2. at \in 1 .. Len(Pieces) /\ first \in BOOLEAN /\ Len(Pieces) \in Nat
  BY <1>1, AllPieces DEF FormatInv, Running
<1>3. Proper(line, shown, at, first)
  BY <1>1 DEF LinesInv
<1>4. /\ at + 1 \in 1 .. Len(Pieces) + 1
      /\ at + 1 = Len(Pieces) + 1 \/ StartsLine(Pieces[at + 1])
  <2>1. EndsLine(Pieces[at])
    BY <1>1 DEF EndsLine, Piece
  <2>2. QED
    BY <1>2, <2>1, NextPiece
<1>5. CASE first
  <2>1. UNCHANGED <<line, shown, result>>
    BY <1>5 DEF CloseOptional
  <2>2. ~ Within(at, first)
    BY <1>1, <1>5 DEF Within, Piece
  <2>3. Between(line, shown)
    BY <1>3, <2>2 DEF Proper
  <2>4. Proper(line, shown, at + 1, TRUE)
    BY <1>4, <2>3, AfterEnd
  <2>5. QED
    BY <1>1, <2>1, <2>3, <2>4 DEF LinesInv
<1>6. CASE ~ first
  <2> DEFINE d == <<")", "\n">>
  <2>1. append_text(2, d, <<>>)
    BY <1>6 DEF CloseOptional
  <2>2. Within(at, first)
    BY <1>2, <1>6 DEF Within
  <2>3. Open(line, shown, Piece.group)
    BY <1>3, <2>2 DEF Proper, Piece
  <2>4. Begun(line) = line /\ Begun(shown) = shown
    BY <2>3, OpenIsOpen
  <2>5. shown \o <<>> = shown
    BY <2>3, ConcatEmptySeq DEF Open, Written
  <2>6. Between(Begun(line) \o d, Begun(shown) \o <<>>)
    BY <2>3, <2>4, <2>5 DEF Between, Done
  <2> HIDE DEF d
  <2>7. Proper(Begun(line) \o d, Begun(shown) \o <<>>, at', first')
    BY <1>1, <1>4, <2>6, AfterEnd
  <2>8. QED
    BY <1>1, <2>1, <2>7, LineAppended
<1>7. QED
  BY <1>5, <1>6

LEMMA LineNotReceived ==
  ASSUME LinesInv, FormatInv, FormatNotReceived
  PROVE  LinesInv'
<1> DEFINE g == Piece.group
           r == <<"R">>
           x == <<g, "(", "R", "=", "v">>
           y == <<g, "(", "R", "=", "v", ")", "\n">>
<1>1. /\ Running /\ Piece.op \in {"whole", "head"} /\ first' = first /\ at' = NextGroup
      /\ result = RUNNING
  BY DEF FormatNotReceived, Running
<1>2. PICK length : append_text(length, y, r)
  BY DEF FormatNotReceived
<1>3. at \in 1 .. Len(Pieces) /\ first \in BOOLEAN /\ Len(Pieces) \in Nat
  BY <1>1, AllPieces DEF FormatInv, Running
<1>4. Proper(line, shown, at, first)
  BY <1>1 DEF LinesInv
<1>5. first = TRUE /\ ~ Within(at, first)
  BY <1>1, <1>3, <1>4 DEF Proper, Within, Piece
<1>6. Begun(line) = <<>> /\ Begun(shown) = <<>>
  BY <1>4, <1>5, BetweenIsNew DEF Proper
<1>7. g \in Words /\ "R" \in MatchPoints[g]
  <2>1. g \in Words /\ Apt(Piece)
    BY <1>3, GroupsAreWords DEF Piece
  <2>2. QED
    BY <1>1, <2>1 DEF Apt
<1>8. Written(x, r, g)
  BY <1>7, LineOfR
<1>9. Orderly(r, g)
  <2>1. "R" # "T"
    OBVIOUS
  <2>2. QED
    BY <1>7, <2>1, OneInOrder
<1>10. y = x \o <<")", "\n">>
  BY <1>7
<1>11. <<>> \o y = y /\ <<>> \o r = r
  OBVIOUS
<1>12. Between(<<>> \o y, <<>> \o r)
  BY <1>8, <1>9, <1>10, <1>11 DEF Between, Done, Open
<1> HIDE DEF x, y, r, g
<1>13. /\ NextGroup \in 1 .. Len(Pieces) + 1
       /\ NextGroup = Len(Pieces) + 1 \/ StartsLine(Pieces[NextGroup])
  BY <1>3, NextGroupAhead, NextGroupStarts
<1>14. Proper(Begun(line) \o y, Begun(shown) \o r, at', first')
  BY <1>1, <1>5, <1>6, <1>12, <1>13, AfterEnd
<1>15. QED
  BY <1>1, <1>2, <1>14, LineAppended

LEMMA LinePart ==
  ASSUME LinesInv, FormatInv, FormatPart
  PROVE  LinesInv'
<1> DEFINE starts == Piece.op \in {"whole", "head"}
           ends   == Piece.op \in {"whole", "tail"}
<1>1. /\ Running /\ Piece.op \in {"whole", "head", "middle", "tail"}
      /\ first' = first /\ at' = at + 1 /\ result = RUNNING
  BY DEF FormatPart, Running
<1>2. PICK n \in Names :
        append_text(Length(n) + (IF starts THEN Letters(Piece.group) + 1 ELSE 1)
                      + (IF ends THEN 2 ELSE 0),
                    (IF starts THEN <<Piece.group, "(">> ELSE <<"%">>)
                      \o Fields(n) \o (IF ends THEN <<")", "\n">> ELSE <<>>), n)
  BY DEF FormatPart
<1> DEFINE x == (IF starts THEN <<Piece.group, "(">> ELSE <<"%">>) \o Fields(n)
           d == IF ends THEN <<")", "\n">> ELSE <<>>
<1>3. PICK length : append_text(length, x \o d, n)
  BY <1>2
<1>4. at \in 1 .. Len(Pieces) /\ first \in BOOLEAN /\ Len(Pieces) \in Nat
  BY <1>1, AllPieces DEF FormatInv, Running
<1>5. Proper(line, shown, at, first)
  BY <1>1 DEF LinesInv
<1>6. first = TRUE /\ (Within(at, first) <=> ~ starts)
  BY <1>1, <1>4, <1>5 DEF Proper, Within, Piece
<1>7. x = IF Within(at, first) THEN <<"%">> \o Fields(n) ELSE <<Piece.group, "(">> \o Fields(n)
  BY <1>6
<1>8. /\ n \in Seq(Words) /\ Len(n) >= 1 /\ Orderly(n, Piece.group)
      /\ First(n) = First(Piece.names) /\ Highest(n) = Highest(Piece.names)
  BY <1>1, <1>4, NamesFit
<1> HIDE DEF x
<1>9. /\ Open(Begun(line) \o x, Begun(shown) \o n, Piece.group)
      /\ Highest(Begun(shown) \o n) = Highest(n)
      /\ Begun(line) \in Seq(Marked) /\ x \in Seq(Marked)
  <2>1. Piece.op # "close"
    BY <1>1
  <2>2. QED
    BY <1>4, <1>5, <1>7, <1>8, <2>1, PieceWritten
<1>10. CASE ends
  <2>1. Between(Begun(line) \o (x \o d), Begun(shown) \o n)
    BY <1>9, <1>10, EndWritten
  <2>2. /\ at + 1 \in 1 .. Len(Pieces) + 1
        /\ at + 1 = Len(Pieces) + 1 \/ StartsLine(Pieces[at + 1])
    <3>1. EndsLine(Pieces[at])
      BY <1>10 DEF EndsLine, Piece
    <3>2. QED
      BY <1>4, <3>1, NextPiece
  <2> HIDE DEF d
  <2>3. Proper(Begun(line) \o (x \o d), Begun(shown) \o n, at', first')
    BY <1>1, <1>6, <2>1, <2>2, AfterEnd
  <2>4. QED
    BY <1>1, <1>3, <2>3, LineAppended
<1>11. CASE ~ ends
  <2>1. x \o d = x
    BY <1>9, <1>11, ConcatEmptySeq
  <2> DEFINE l == Begun(line) \o x
             m == Begun(shown) \o n
  <2>2. /\ Open(l, m, Pieces[at].group) /\ Highest(m) = Highest(Pieces[at].names)
        /\ Pieces[at].op \in {"head", "middle"}
    BY <1>1, <1>8, <1>9, <1>11 DEF Piece
  <2> HIDE DEF l, m, d
  <2>3. Highest(m) \in Nat
    BY RanksAreNumbers DEF Highest
  <2>4. Highest(m) <= Highest(Pieces[at].names)
    BY <2>2, <2>3
  <2>5. Pieces[at].op \in {"optional", "head", "middle"}
    BY <2>2
  <2>6. Proper(l, m, at + 1, Pieces[at].op # "optional")
    BY <1>4, <2>2, <2>3, <2>4, <2>5, AfterOpen
  <2>7. (Pieces[at].op # "optional") = TRUE
    BY <2>2
  <2>8. Proper(Begun(line) \o (x \o d), Begun(shown) \o n, at', first')
    BY <1>1, <1>6, <2>1, <2>6, <2>7 DEF l, m
  <2>9. QED
    BY <1>1, <1>3, <2>8, LineAppended
<1>12. QED
  BY <1>10, <1>11

LEMMA LinesKept == LinesInv /\ FormatInv /\ [Next]_vars => LinesInv'
<1> SUFFICES ASSUME LinesInv, FormatInv, [Next]_vars PROVE LinesInv'
  OBVIOUS
<1>1. CASE Omit
  BY <1>1, LineOmit
<1>2. CASE FormatOptional
  BY <1>2, LineOptional
<1>3. CASE CloseOptional
  BY <1>3, LineClose
<1>4. CASE FormatNotReceived
  BY <1>4, LineNotReceived
<1>5. CASE FormatPart
  BY <1>5, LinePart
<1>6. CASE Finish
  <2>1. result = RUNNING /\ result' = used /\ UNCHANGED <<line, shown>>
    BY <1>6 DEF Finish
  <2>2. result' # RUNNING
    BY <2>1 DEF FormatInv, RUNNING
  <2>3. QED
    BY <2>1, <2>2 DEF LinesInv
<1>7. CASE UNCHANGED vars
  BY <1>7 DEF LinesInv, vars
<1>8. QED
  BY <1>1, <1>2, <1>3, <1>4, <1>5, <1>6, <1>7 DEF Next

LEMMA LinesBegin ==
  ASSUME at = 1, first = TRUE, line = <<>>, shown = <<>>
  PROVE  LinesInv
<1>1. Between(line, shown)
  BY DEF Between
<1>2. StartsLine(Pieces[1])
  BY PiecesLinked DEF Chain
<1>3. 1 \in 1 .. Len(Pieces) + 1
  BY AllPieces
<1>4. Proper(line, shown, 1, TRUE)
  BY <1>1, <1>2, <1>3, AfterEnd
<1>5. QED
  BY <1>1, <1>4 DEF LinesInv

LEMMA LinesMean == LinesInv => LinesReadBack
<1> SUFFICES ASSUME LinesInv, Complete PROVE LinesReadBack
  BY DEF LinesReadBack
<1> DEFINE u == SubSeq(line, 1, Len(line) - 1)
<1>1. ~ \E g : Open(line, shown, g)
  BY OpenIsOpen
<1>2. PICK g : Done(line, shown, g)
  BY <1>1 DEF LinesInv, Between, Complete
<1>3. PICK t : Open(t, shown, g) /\ line = t \o <<")", "\n">>
  BY <1>2 DEF Done
<1>4. Written(t, shown, g) /\ Orderly(shown, g)
  BY <1>3 DEF Open
<1>5. t \in Seq(Marked) /\ shown \in Seq(Words) /\ Len(shown) >= 1 /\ t[1] = g /\ g \in Words
  BY <1>4 DEF Written
<1>6. Closes(u, t)
  BY <1>3, <1>5, NewLineBehind
<1> HIDE DEF u
<1>7. /\ IsGroup(u)
      /\ [k \in DOMAIN shown |-> <<shown[k]>>]
           = [k \in DOMAIN GroupOf(u).fields |-> GroupOf(u).fields[k].name]
  BY <1>4, <1>6, LineIsRead
<1>8. PICK n \in Nat : n = Len(shown) /\ DOMAIN shown = 1 .. n
  BY <1>5
<1>9. line[1] = g
  <2> DEFINE R == Marked \cup {")", "\n"}
             d == <<")", "\n">>
  <2>1. t \in Seq(R) /\ d \in Seq(R)
    BY <1>5
  <2> HIDE DEF R, d
  <2>2. line = t \o d
    BY <1>3 DEF d
  <2>3. Joint(line, t, d)
    BY <2>1, <2>2, TextBehind
  <2>4. 1 \in 1 .. Len(t)
    BY <1>4, <1>5, <1>8, LaidIsText DEF Written
  <2>5. QED
    BY <1>5, <2>3, <2>4 DEF Joint
<1>10. ToSet(shown) \subseteq MatchPoints[line[1]]
  <2>1. \A k \in 1 .. n : shown[k] \in MatchPoints[g]
    BY <1>4, <1>8 DEF Orderly
  <2>2. QED
    BY <1>8, <1>9, <2>1 DEF ToSet
<1>11. IsInjective(shown)
  <2>1. ASSUME NEW a \in 1 .. n, NEW b \in 1 .. n, shown[a] = shown[b] PROVE a = b
    <3>1. Rank(shown[a]) \in Nat /\ Rank(shown[a]) = Rank(shown[b])
      BY <2>1, RanksAreNumbers
    <3>2. ~ a < b /\ ~ b < a
      <4>1. a < b => Rank(shown[a]) < Rank(shown[b])
        BY <1>4, <1>8 DEF Orderly
      <4>2. b < a => Rank(shown[b]) < Rank(shown[a])
        BY <1>4, <1>8 DEF Orderly
      <4>3. QED
        BY <3>1, <4>1, <4>2
    <3>3. QED
      BY <3>2
  <2>2. QED
    BY <1>8, <2>1 DEF IsInjective
<1>12. QED
  BY <1>7, <1>10, <1>11 DEF LinesReadBack, u

-----------------------------------------------------------------------------
(* Both in the behaviours of the run.                                      *)

WritingInv == FormatInv /\ LinesInv /\ long \in BOOLEAN

LEMMA WritingInvariant == SpecPart => []WritingInv
<1> DEFINE all == <<part, vars, group_vars, observed_vars, database_vars,
                    pos, groups, held, refused, outcome>>
<1>1. InitPart => WritingInv
  <2>1. Init => LinesInv
    BY LinesBegin DEF Init
  <2>2. FormatIdle => LinesInv
    BY LinesBegin DEF FormatIdle
  <2>3. QED
    BY <2>1, <2>2, FormatInit, FormatWaits DEF InitPart, WritingInv
<1>2. WritingInv /\ [NextPart]_all => WritingInv'
  <2> SUFFICES ASSUME WritingInv, [NextPart]_all PROVE WritingInv'
    OBVIOUS
  <2>1. [Next]_vars
    BY DEF NextPart
  <2>2. QED
    BY <2>1, FormatKept, LinesKept, LongKept DEF WritingInv
<1>3. QED
  BY <1>1, <1>2, PTL DEF SpecPart

(* Wherever the buffer runs out, the caller finds either the whole text or *)
(* none: whichever fields are left out and however the others are written, *)
(* options strings of any length included, in a buffer of any size.  When  *)
(* no options string has more than 19 characters, the 1024 of main are     *)
(* enough for every fingerprint.                                           *)
THEOREM WholeTextOrNone == SpecPart => []AllOrNothing
<1>1. WritingInv => AllOrNothing
  BY FormatMeans DEF WritingInv
<1>2. QED
  BY <1>1, WritingInvariant, PTL

(* Whatever is left out of a line and however the buffer ends, a line that *)
(* is complete is one the parser of the search accepts; it finds in it the *)
(* fields that were written, in their order, each once, and every one of   *)
(* them has points in the group: for fingerprints with any values.         *)
THEOREM LinesAreReadBack == SpecPart => []LinesReadBack
<1>1. WritingInv => LinesReadBack
  BY LinesMean DEF WritingInv
<1>2. QED
  BY <1>1, WritingInvariant, PTL
=============================================================================
