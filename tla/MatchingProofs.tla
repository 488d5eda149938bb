--------------------------- MODULE MatchingProofs ---------------------------
(***************************************************************************)
(* Theorems of MCMatching.  First, what compare_fingerprints counts are    *)
(* sums over the common fields, whatever their order.  Then, what          *)
(* match_expression answers is what the alternatives of the expression say *)
(* of the value: for every text, expression and width of the numbers.      *)
(***************************************************************************)
EXTENDS MCMatching, NaturalRecursion, SequenceTheorems, FiniteSetTheorems

-----------------------------------------------------------------------------
(* The points of a set of fields, taken out one by one: whichever comes    *)
(* first.  w is a table of points.                                         *)

PointsIn(w, p) ==
  {w[k].points : k \in {m \in DOMAIN w : <<w[m].group, w[m].field>> = p}}

Worth(w, p) == CHOOSE x \in PointsIn(w, p) : TRUE

Some(T) == CHOOSE p \in T : TRUE

Summing(w, S, sum) ==
  [T \in SUBSET S |-> IF T = {} THEN 0 ELSE Worth(w, Some(T)) + sum[T \ {Some(T)}]]

Summed(w, S) == CHOOSE sum : sum = Summing(w, S, sum)

Total(w, S) == Summed(w, S)[S]

(* Every field of the set has points.                                      *)
Priced(w, S) == \A p \in S : Worth(w, p) \in Nat

LEMMA SomeIsMember ==
  ASSUME NEW T, T # {}
  PROVE  Some(T) \in T
BY DEF Some

LEMMA SummedExists ==
  ASSUME NEW w, NEW S, IsFiniteSet(S), Priced(w, S)
  PROVE  \E sum \in [SUBSET S -> Nat] : sum = Summing(w, S, sum)
<1> DEFINE F == [SUBSET S -> Nat]
           c == [T \in SUBSET S |-> 0]
           g == [x \in Nat \X F |->
                   [T \in SUBSET S |-> IF T = {} THEN 0
                                       ELSE Worth(w, Some(T)) + x[2][T \ {Some(T)}]]]
<1>1. c \in F
  OBVIOUS
<1>2. ASSUME NEW T \in SUBSET S, T # {}
      PROVE  Worth(w, Some(T)) \in Nat /\ T \ {Some(T)} \in SUBSET S
  BY <1>2, SomeIsMember DEF Priced
<1>3. g \in StepOn(F)
  <2>1. ASSUME NEW x \in Nat \X F
        PROVE  [T \in SUBSET S |-> IF T = {} THEN 0
                                   ELSE Worth(w, Some(T)) + x[2][T \ {Some(T)}]] \in F
    <3>1. x[2] \in F
      OBVIOUS
    <3>2. ASSUME NEW T \in SUBSET S
          PROVE  (IF T = {} THEN 0 ELSE Worth(w, Some(T)) + x[2][T \ {Some(T)}]) \in Nat
      <4>1. T # {} => x[2][T \ {Some(T)}] \in Nat
        BY <1>2, <3>1
      <4>2. QED
        BY <1>2, <4>1
    <3>3. QED
      BY <3>2
  <2>2. QED
    BY <2>1 DEF StepOn
<1>4. \A n \in Nat, f \in F : g[<<n, f>>] =
        [T \in SUBSET S |-> IF T = {} THEN 0 ELSE Worth(w, Some(T)) + f[T \ {Some(T)}]]
  OBVIOUS
<1> HIDE DEF g, c, F
<1>5. PICK h \in [Nat -> F] : h[0] = c /\ \A n \in Nat : h[n + 1] = g[<<n, h[n]>>]
  BY <1>1, <1>3, Recursion
<1> USE DEF F
<1> DEFINE sum == [T \in SUBSET S |-> h[Cardinality(T)][T]]
<1>6. \A T \in SUBSET S : IsFiniteSet(T) /\ Cardinality(T) \in Nat
  BY FS_Subset, FS_CardinalityType
<1>7. sum \in [SUBSET S -> Nat]
  BY <1>6
<1>8. ASSUME NEW T \in SUBSET S
      PROVE  sum[T] = IF T = {} THEN 0 ELSE Worth(w, Some(T)) + sum[T \ {Some(T)}]
  <2>1. CASE T = {}
    <3>1. Cardinality(T) = 0
      BY <2>1, FS_EmptySet
    <3>2. QED
      BY <1>5, <2>1, <3>1 DEF c
  <2>2. CASE T # {}
    <3>1. Some(T) \in T /\ T \ {Some(T)} \in SUBSET S
      BY <1>2, <2>2, SomeIsMember
    <3>2. PICK n \in Nat : n = Cardinality(T \ {Some(T)})
      BY <1>6, <3>1
    <3>3. Cardinality(T) = n + 1
      <4>1. Cardinality(T \ {Some(T)}) = Cardinality(T) - 1
        BY <1>6, <3>1, FS_RemoveElement
      <4>2. QED
        BY <1>6, <3>2, <4>1
    <3>4. h[n] \in F /\ h[n + 1] = g[<<n, h[n]>>]
      BY <1>5
    <3>5. h[n + 1][T] = Worth(w, Some(T)) + h[n][T \ {Some(T)}]
      <4>1. h[n + 1] = [U \in SUBSET S |-> IF U = {} THEN 0
                                           ELSE Worth(w, Some(U)) + h[n][U \ {Some(U)}]]
        BY <1>4, <3>4
      <4>2. QED
        BY <2>2, <4>1
    <3>6. QED
      BY <2>2, <3>1, <3>2, <3>3, <3>5
  <2>3. QED
    BY <2>1, <2>2
<1> HIDE DEF sum
<1>9. sum = Summing(w, S, sum)
  BY <1>7, <1>8 DEF Summing
<1>10. QED
  BY <1>7, <1>9

LEMMA SummedOn ==
  ASSUME NEW w, NEW S, IsFiniteSet(S), Priced(w, S)
  PROVE  Summed(w, S) = Summing(w, S, Summed(w, S))
<1>1. \E sum : sum = Summing(w, S, sum)
  BY SummedExists
<1>2. QED
  BY <1>1, Zenon DEF Summed

(* Which set a sum is taken within makes no difference.                    *)
LEMMA SummedAgree ==
  ASSUME NEW w, NEW S, IsFiniteSet(S), Priced(w, S), NEW T \in SUBSET S
  PROVE  Summed(w, S)[T] = Total(w, T)
<1> DEFINE Agrees(U) == \A V \in SUBSET S : U \in SUBSET V => Summed(w, V)[U] = Summed(w, S)[U]
           N == {n \in Nat : \A U \in SUBSET S : Cardinality(U) = n => Agrees(U)}
<1>1. ASSUME NEW V \in SUBSET S
      PROVE  IsFiniteSet(V) /\ Priced(w, V) /\ Cardinality(V) \in Nat
  BY FS_Subset, FS_CardinalityType DEF Priced
<1>2. ASSUME NEW V \in SUBSET S, NEW U \in SUBSET V
      PROVE  Summed(w, V)[U] = IF U = {} THEN 0
                               ELSE Worth(w, Some(U)) + Summed(w, V)[U \ {Some(U)}]
  <2>1. Summed(w, V) = Summing(w, V, Summed(w, V))
    BY <1>1, SummedOn
  <2> DEFINE s == Summed(w, V)
  <2> HIDE DEF s
  <2>2. s = Summing(w, V, s)
    BY <2>1 DEF s
  <2>3. s[U] = IF U = {} THEN 0 ELSE Worth(w, Some(U)) + s[U \ {Some(U)}]
    BY <2>2 DEF Summing
  <2>4. QED
    BY <2>3 DEF s
<1>3. 0 \in N
  <2> SUFFICES ASSUME NEW U \in SUBSET S, Cardinality(U) = 0, NEW V \in SUBSET S, U \in SUBSET V
               PROVE  Summed(w, V)[U] = Summed(w, S)[U]
    OBVIOUS
  <2>1. U = {}
    BY <1>1, FS_EmptySet
  <2>2. S \in SUBSET S
    OBVIOUS
  <2>3. QED
    BY <1>2, <2>1, <2>2
<1>4. ASSUME NEW n \in Nat, n \in N PROVE n + 1 \in N
  <2> SUFFICES ASSUME NEW U \in SUBSET S, Cardinality(U) = n + 1, NEW V \in SUBSET S,
                      U \in SUBSET V
               PROVE  Summed(w, V)[U] = Summed(w, S)[U]
    OBVIOUS
  <2>1. U # {}
    BY FS_EmptySet
  <2>2. Some(U) \in U
    BY <2>1, SomeIsMember
  <2>3. PICK Z : Z = U \ {Some(U)}
    OBVIOUS
  <2>4. Z \in SUBSET S /\ Z \in SUBSET V /\ Cardinality(Z) = n
    <3>1. Cardinality(Z) = Cardinality(U) - 1
      BY <1>1, <2>2, <2>3, FS_RemoveElement
    <3>2. QED
      BY <2>3, <3>1
  <2>5. Summed(w, V)[Z] = Summed(w, S)[Z]
    BY <1>4, <2>4
  <2>6. S \in SUBSET S
    OBVIOUS
  <2>7. QED
    BY <1>2, <2>1, <2>3, <2>5, <2>6
<1> HIDE DEF N
<1>5. \A n \in Nat : n \in N
  BY <1>3, <1>4, Induction
<1>6. Agrees(T)
  BY <1>1, <1>5 DEF N
<1>7. QED
  BY <1>6 DEF Total

LEMMA TotalEmpty ==
  ASSUME NEW w
  PROVE  Total(w, {}) = 0
<1>1. IsFiniteSet({}) /\ Priced(w, {})
  BY FS_EmptySet DEF Priced
<1> DEFINE s == Summed(w, {})
<1>2. s = Summing(w, {}, s)
  BY <1>1, SummedOn
<1> HIDE DEF s
<1>3. s[{}] = 0
  BY <1>2 DEF Summing
<1>4. QED
  BY <1>3 DEF s, Total

LEMMA TotalTakes ==
  ASSUME NEW w, NEW T, T # {}, IsFiniteSet(T), Priced(w, T)
  PROVE  /\ Some(T) \in T
         /\ Total(w, T) = Worth(w, Some(T)) + Total(w, T \ {Some(T)})
<1>1. Some(T) \in T
  BY SomeIsMember
<1> DEFINE s == Summed(w, T)
<1>2. s = Summing(w, T, s)
  BY SummedOn
<1> HIDE DEF s
<1>3. s[T] = Worth(w, Some(T)) + s[T \ {Some(T)}]
  BY <1>2 DEF Summing
<1>4. s[T \ {Some(T)}] = Total(w, T \ {Some(T)})
  <2>1. T \ {Some(T)} \in SUBSET T
    OBVIOUS
  <2>2. QED
    BY <2>1, SummedAgree DEF s
<1>5. QED
  BY <1>1, <1>3, <1>4 DEF s, Total

LEMMA TotalNat ==
  ASSUME NEW w, NEW S, IsFiniteSet(S), Priced(w, S)
  PROVE  Total(w, S) \in Nat
<1>1. PICK sum \in [SUBSET S -> Nat] : sum = Summing(w, S, sum)
  BY SummedExists
<1> DEFINE N == {n \in Nat : \A U \in SUBSET S : Cardinality(U) = n => Total(w, U) \in Nat}
<1>2. ASSUME NEW V \in SUBSET S
      PROVE  IsFiniteSet(V) /\ Priced(w, V) /\ Cardinality(V) \in Nat
  BY FS_Subset, FS_CardinalityType DEF Priced
<1>3. 0 \in N
  <2> SUFFICES ASSUME NEW U \in SUBSET S, Cardinality(U) = 0 PROVE Total(w, U) \in Nat
    OBVIOUS
  <2>1. U = {}
    BY <1>2, FS_EmptySet
  <2>2. QED
    BY <2>1, TotalEmpty
<1>4. ASSUME NEW n \in Nat, n \in N PROVE n + 1 \in N
  <2> SUFFICES ASSUME NEW U \in SUBSET S, Cardinality(U) = n + 1 PROVE Total(w, U) \in Nat
    OBVIOUS
  <2>1. U # {} /\ IsFiniteSet(U) /\ Priced(w, U)
    BY <1>2, FS_EmptySet
  <2>2. Some(U) \in U /\ Total(w, U) = Worth(w, Some(U)) + Total(w, U \ {Some(U)})
    BY <2>1, TotalTakes
  <2>3. PICK Z \in SUBSET S : Z = U \ {Some(U)}
    OBVIOUS
  <2>4. Cardinality(Z) = n
    <3>1. Cardinality(Z) = Cardinality(U) - 1
      BY <2>1, <2>2, <2>3, FS_RemoveElement
    <3>2. QED
      BY <3>1
  <2>5. Total(w, Z) \in Nat
    BY <1>4, <2>4
  <2>6. Worth(w, Some(U)) \in Nat
    BY <2>1, <2>2 DEF Priced
  <2>7. QED
    BY <2>2, <2>3, <2>5, <2>6
<1> HIDE DEF N
<1>5. \A n \in Nat : n \in N
  BY <1>3, <1>4, Induction
<1>6. S \in SUBSET S
  OBVIOUS
<1>7. QED
  BY <1>2, <1>5, <1>6 DEF N

LEMMA TotalWithout ==
  ASSUME NEW w, NEW S, IsFiniteSet(S), Priced(w, S), NEW x \in S
  PROVE  Total(w, S) = Worth(w, x) + Total(w, S \ {x})
<1> DEFINE N == {n \in Nat : \A U \in SUBSET S : Cardinality(U) = n =>
                   \A y \in U : Total(w, U) = Worth(w, y) + Total(w, U \ {y})}
<1>1. ASSUME NEW V \in SUBSET S
      PROVE  /\ IsFiniteSet(V) /\ Priced(w, V) /\ Cardinality(V) \in Nat
             /\ Total(w, V) \in Nat /\ \A y \in V : Worth(w, y) \in Nat
  <2>1. IsFiniteSet(V) /\ Priced(w, V) /\ Cardinality(V) \in Nat
    BY FS_Subset, FS_CardinalityType DEF Priced
  <2>2. QED
    BY <2>1, TotalNat DEF Priced
<1>2. 0 \in N
  BY <1>1, FS_EmptySet
<1>3. ASSUME NEW n \in Nat, n \in N PROVE n + 1 \in N
  <2> SUFFICES ASSUME NEW U \in SUBSET S, Cardinality(U) = n + 1, NEW y \in U
               PROVE  Total(w, U) = Worth(w, y) + Total(w, U \ {y})
    OBVIOUS
  <2>1. U # {} /\ IsFiniteSet(U) /\ Priced(w, U)
    BY <1>1
  <2> DEFINE x0 == Some(U)
  <2>2. x0 \in U /\ Total(w, U) = Worth(w, x0) + Total(w, U \ {x0})
    BY <2>1, TotalTakes
  <2> HIDE DEF x0
  <2>3. CASE x0 = y
    BY <2>2, <2>3
  <2>4. CASE x0 # y
    <3>1. PICK X \in SUBSET S : X = U \ {x0}
      OBVIOUS
    <3>2. PICK Y \in SUBSET S : Y = U \ {y}
      OBVIOUS
    <3>3. PICK Z \in SUBSET S : Z = (U \ {x0}) \ {y}
      OBVIOUS
    <3>4. Cardinality(X) = n /\ Cardinality(Y) = n
      <4>1. Cardinality(X) = Cardinality(U) - 1 /\ Cardinality(Y) = Cardinality(U) - 1
        BY <2>1, <2>2, <3>1, <3>2, FS_RemoveElement
      <4>2. QED
        BY <4>1
    <3>5. Total(w, X) = Worth(w, y) + Total(w, Z)
      <4>1. y \in X /\ X \ {y} = Z
        BY <2>4, <3>1, <3>3
      <4>2. QED
        BY <1>3, <3>4, <4>1
    <3>6. Total(w, Y) = Worth(w, x0) + Total(w, Z)
      <4>1. x0 \in Y /\ Y \ {x0} = Z
        BY <2>2, <2>4, <3>2, <3>3
      <4>2. QED
        BY <1>3, <3>4, <4>1
    <3>7. Worth(w, x0) \in Nat /\ Worth(w, y) \in Nat /\ Total(w, Z) \in Nat
      BY <1>1, <2>2
    <3>8. QED
      BY <2>2, <3>1, <3>2, <3>5, <3>6, <3>7
  <2>5. QED
    BY <2>3, <2>4
<1> HIDE DEF N
<1>4. \A n \in Nat : n \in N
  BY <1>2, <1>3, Induction
<1>5. S \in SUBSET S
  OBVIOUS
<1>6. QED
  BY <1>1, <1>4, <1>5 DEF N

LEMMA TotalAdds ==
  ASSUME NEW w, NEW S, IsFiniteSet(S), Priced(w, S), NEW x, x \notin S, Worth(w, x) \in Nat
  PROVE  Total(w, S \cup {x}) = Total(w, S) + Worth(w, x)
<1> DEFINE U == S \cup {x}
<1>1. IsFiniteSet(U) /\ Priced(w, U) /\ x \in U /\ U \ {x} = S
  BY FS_AddElement DEF Priced
<1> HIDE DEF U
<1>2. Total(w, U) = Worth(w, x) + Total(w, S) /\ Total(w, S) \in Nat
  BY <1>1, TotalWithout, TotalNat
<1>3. QED
  BY <1>2 DEF U

-----------------------------------------------------------------------------
(* Fields that two fingerprints have in common.                            *)

CommonOf(obs, ref) == Compare!Pairs(obs) \cap Compare!Pairs(ref)

(* The match_expression of the common field, as Compare!Answer.            *)
AnswerIn(ref, p) ==
  CHOOSE a \in -1 .. 1 :
    \E g \in DOMAIN ref : \E f \in DOMAIN ref[g].fields :
      /\ <<ref[g].name, ref[g].fields[f].name>> = p
      /\ ref[g].fields[f].value = a

LEMMA FirstOfPlaces ==
  ASSUME NEW places, places \subseteq Nat, 0 \notin places
  PROVE  /\ Compare!First(places) = 0 <=> places = {}
         /\ places # {} => Compare!First(places) \in places
<1>1. CASE places = {}
  BY <1>1 DEF Compare!First
<1>2. CASE places # {}
  <2>1. \E k \in places : \A m \in places : k <= m
    BY <1>2, SmallestMember
  <2>2. Compare!First(places) \in places
    BY <1>2, <2>1 DEF Compare!First
  <2>3. QED
    BY <1>2, <2>2
<1>3. QED
  BY <1>1, <1>2

LEMMA PlacesInSeq ==
  ASSUME NEW S, NEW s \in Seq(S), NEW chosen, chosen \subseteq DOMAIN s
  PROVE  chosen \subseteq Nat /\ 0 \notin chosen
<1>1. DOMAIN s = 1 .. Len(s) /\ Len(s) \in Nat
  BY LenProperties
<1>2. QED
  BY <1>1

FieldType == [name : STRING, value : -1 .. 1]
GroupType == [name : STRING, fields : Seq(FieldType)]

LEMMA FingerprintParts ==
  ASSUME NEW f, Compare!IsFingerprint(f)
  PROVE  /\ f \in Seq(GroupType) /\ Compare!OnceEach(f)
         /\ DOMAIN f = 1 .. Len(f) /\ Len(f) \in Nat
         /\ \A g \in DOMAIN f :
              /\ f[g].fields \in Seq(FieldType) /\ Compare!OnceEach(f[g].fields)
              /\ DOMAIN f[g].fields = 1 .. Len(f[g].fields) /\ Len(f[g].fields) \in Nat
              /\ \A k \in DOMAIN f[g].fields : f[g].fields[k].value \in -1 .. 1
<1>1. /\ f \in Seq(GroupType) /\ Compare!OnceEach(f)
      /\ \A g \in DOMAIN f : Compare!OnceEach(f[g].fields)
  BY DEF Compare!IsFingerprint, GroupType, FieldType
<1>2. DOMAIN f = 1 .. Len(f) /\ Len(f) \in Nat
  BY <1>1, LenProperties
<1>3. ASSUME NEW g \in DOMAIN f
      PROVE  /\ f[g].fields \in Seq(FieldType)
             /\ DOMAIN f[g].fields = 1 .. Len(f[g].fields) /\ Len(f[g].fields) \in Nat
             /\ \A k \in DOMAIN f[g].fields : f[g].fields[k].value \in -1 .. 1
  <2>1. f[g] \in GroupType
    BY <1>1, ElementOfSeq
  <2>2. f[g].fields \in Seq(FieldType)
    BY <2>1 DEF GroupType
  <2>3. \A k \in DOMAIN f[g].fields : f[g].fields[k] \in FieldType
    BY <2>2, ElementOfSeq
  <2>4. \A x \in FieldType : x.value \in -1 .. 1
    BY DEF FieldType
  <2>5. QED
    BY <2>2, <2>3, <2>4, LenProperties
<1>4. QED
  BY <1>1, <1>2, <1>3

(* find_group and find_field: names occur once.                            *)
LEMMA FindGroup ==
  ASSUME NEW f, Compare!IsFingerprint(f), NEW name
  PROVE  LET k == Compare!find_group(f, name)
         IN  /\ k = 0 <=> \A g \in DOMAIN f : f[g].name # name
             /\ k # 0 => k \in DOMAIN f /\ f[k].name = name
             /\ \A g \in DOMAIN f : f[g].name = name => k = g
<1> DEFINE places == {g \in DOMAIN f : f[g].name = name}
<1>1. f \in Seq(GroupType) /\ Compare!OnceEach(f)
  BY FingerprintParts
<1>2. places \subseteq Nat /\ 0 \notin places
  BY <1>1, PlacesInSeq
<1>3. /\ Compare!First(places) = 0 <=> places = {}
      /\ places # {} => Compare!First(places) \in places
  BY <1>2, FirstOfPlaces
<1>4. Compare!find_group(f, name) = Compare!First(places)
  BY DEF Compare!find_group
<1>5. QED
  BY <1>1, <1>3, <1>4 DEF Compare!OnceEach

LEMMA FindField ==
  ASSUME NEW f, Compare!IsFingerprint(f), NEW g \in DOMAIN f, NEW name
  PROVE  Compare!find_field(f[g], name) # 0
           <=> \E k \in DOMAIN f[g].fields : f[g].fields[k].name = name
<1> DEFINE s == f[g].fields
           places == {k \in DOMAIN s : s[k].name = name}
<1>1. s \in Seq(FieldType)
  BY FingerprintParts
<1>2. places \subseteq Nat /\ 0 \notin places
  BY <1>1, PlacesInSeq
<1>3. Compare!First(places) = 0 <=> places = {}
  BY <1>2, FirstOfPlaces
<1>4. Compare!find_field(f[g], name) = Compare!First(places)
  BY DEF Compare!find_field
<1>5. QED
  BY <1>3, <1>4

LEMMA InPairs ==
  ASSUME NEW f, NEW p
  PROVE  p \in Compare!Pairs(f) <=>
           \E g \in DOMAIN f : \E k \in DOMAIN f[g].fields :
             p = <<f[g].name, f[g].fields[k].name>>
<1>1. ASSUME NEW g \in DOMAIN f, NEW k \in DOMAIN f[g].fields,
             p = <<f[g].name, f[g].fields[k].name>>
      PROVE  p \in Compare!Pairs(f)
  BY <1>1 DEF Compare!Pairs
<1>2. ASSUME p \in Compare!Pairs(f)
      PROVE  \E g \in DOMAIN f : \E k \in DOMAIN f[g].fields :
               p = <<f[g].name, f[g].fields[k].name>>
  BY <1>2 DEF Compare!Pairs
<1>3. QED
  BY <1>1, <1>2

LEMMA ImageFinite ==
  ASSUME NEW S, IsFiniteSet(S), NEW T, NEW f \in [S -> T], \A t \in T : \E s \in S : f[s] = t
  PROVE  IsFiniteSet(T)
<1>1. f \in Surjection(S, T)
  BY DEF Surjection
<1>2. QED
  BY <1>1, FS_Surjection

LEMMA PairsFinite ==
  ASSUME NEW f, Compare!IsFingerprint(f)
  PROVE  IsFiniteSet(Compare!Pairs(f))
<1> DEFINE of(g) == {<<f[g].name, f[g].fields[k].name>> : k \in DOMAIN f[g].fields}
           all == {of(g) : g \in DOMAIN f}
<1>1. ASSUME NEW n \in Nat PROVE IsFiniteSet(1 .. n)
  BY FS_Interval
<1>2. ASSUME NEW g \in DOMAIN f PROVE IsFiniteSet(of(g))
  <2>1. IsFiniteSet(DOMAIN f[g].fields)
    BY <1>1, FingerprintParts
  <2> DEFINE h == [k \in DOMAIN f[g].fields |-> <<f[g].name, f[g].fields[k].name>>]
  <2>2. h \in [DOMAIN f[g].fields -> of(g)]
        /\ \A t \in of(g) : \E k \in DOMAIN f[g].fields : h[k] = t
    OBVIOUS
  <2> HIDE DEF h, of
  <2>3. QED
    BY <2>1, <2>2, ImageFinite
<1>3. IsFiniteSet(DOMAIN f)
  BY <1>1, FingerprintParts
<1>4. IsFiniteSet(all)
  <2> DEFINE h == [g \in DOMAIN f |-> of(g)]
  <2> HIDE DEF of
  <2>1. h \in [DOMAIN f -> all] /\ \A t \in all : \E g \in DOMAIN f : h[g] = t
    OBVIOUS
  <2> HIDE DEF h, all
  <2>2. QED
    BY <1>3, <2>1, ImageFinite
<1>5. \A T \in all : IsFiniteSet(T)
  BY <1>2
<1>6. IsFiniteSet(UNION all)
  <2> HIDE DEF all
  <2>1. QED
    BY <1>4, <1>5, FS_UNION
<1>7. QED
  BY <1>6 DEF Compare!Pairs

-----------------------------------------------------------------------------
(* The loops before the turn for field k of the group that group g of the  *)
(* observed fingerprint is compared with.                                  *)

Seen(obs, ref, g, k) ==
  {p \in CommonOf(obs, ref) :
     \E a \in DOMAIN obs :
       /\ obs[a].name = p[1]
       /\ \/ a < g
          \/ a = g /\ \E m \in DOMAIN ref[Compare!find_group(ref, p[1])].fields :
                        /\ m < k
                        /\ ref[Compare!find_group(ref, p[1])].fields[m].name = p[2]}

(* Those that count, and what has been counted.                            *)
Counting(w, S) == {p \in S : PointsIn(w, p) # {0}}

Scored(obs, ref, w, S, r) ==
  /\ \A p \in Counting(w, S) : PointsIn(w, p) # {} /\ AnswerIn(ref, p) # -1
  /\ r = [compared |-> Cardinality(Counting(w, S)),
          matched  |-> Total(w, {p \in Counting(w, S) : AnswerIn(ref, p) = 1}),
          possible |-> Total(w, Counting(w, S))]

LEMMA CommonParts ==
  ASSUME NEW obs, NEW ref, Compare!IsFingerprint(obs), Compare!IsFingerprint(ref),
         NEW p \in CommonOf(obs, ref)
  PROVE  LET r == Compare!find_group(ref, p[1])
         IN  /\ \E a \in DOMAIN obs : obs[a].name = p[1]
             /\ r # 0 /\ r \in DOMAIN ref
             /\ \E m \in DOMAIN ref[r].fields :
                  ref[r].fields[m].name = p[2] /\ p = <<ref[r].name, ref[r].fields[m].name>>
<1>1. PICK a \in DOMAIN obs : \E k \in DOMAIN obs[a].fields :
             p = <<obs[a].name, obs[a].fields[k].name>>
  BY InPairs DEF CommonOf
<1>2. obs[a].name = p[1]
  BY <1>1
<1>3. PICK g \in DOMAIN ref : \E m \in DOMAIN ref[g].fields :
             p = <<ref[g].name, ref[g].fields[m].name>>
  BY InPairs DEF CommonOf
<1>6. PICK m \in DOMAIN ref[g].fields : p = <<ref[g].name, ref[g].fields[m].name>>
  BY <1>3
<1>4. ref[g].name = p[1] /\ ref[g].fields[m].name = p[2]
  BY <1>6
<1>5. Compare!find_group(ref, p[1]) = g /\ g # 0
  <2>1. Compare!find_group(ref, p[1]) = g
    BY <1>4, FindGroup
  <2>2. g # 0
    BY FingerprintParts
  <2>3. QED
    BY <2>1, <2>2
<1>7. QED
  BY <1>2, <1>4, <1>5, <1>6

LEMMA NothingSeen ==
  ASSUME NEW obs, NEW ref, Compare!IsFingerprint(obs), Compare!IsFingerprint(ref)
  PROVE  Seen(obs, ref, 1, 1) = {}
<1> SUFFICES ASSUME NEW p \in Seen(obs, ref, 1, 1) PROVE FALSE
  OBVIOUS
<1>1. p \in CommonOf(obs, ref)
  BY DEF Seen
<1> DEFINE r == Compare!find_group(ref, p[1])
<1>2. r \in DOMAIN ref
  BY <1>1, CommonParts
<1> HIDE DEF r
<1>3. \A a \in DOMAIN obs : ~(a < 1)
  BY FingerprintParts
<1>4. \A m \in DOMAIN ref[r].fields : ~(m < 1)
  BY <1>2, FingerprintParts
<1>5. QED
  BY <1>3, <1>4 DEF Seen, r

LEMMA AllSeen ==
  ASSUME NEW obs, NEW ref, Compare!IsFingerprint(obs), Compare!IsFingerprint(ref),
         NEW g \in Nat, NEW k \in Nat, g > Len(obs)
  PROVE  Seen(obs, ref, g, k) = CommonOf(obs, ref)
<1> SUFFICES ASSUME NEW p \in CommonOf(obs, ref) PROVE p \in Seen(obs, ref, g, k)
  BY DEF Seen
<1>1. PICK a \in DOMAIN obs : obs[a].name = p[1]
  BY CommonParts
<1>2. a < g
  BY FingerprintParts
<1>3. QED
  BY <1>1, <1>2 DEF Seen

(* The next group: nothing of this one is left.                            *)
LEMMA SeenNextGroup ==
  ASSUME NEW obs, NEW ref, Compare!IsFingerprint(obs), Compare!IsFingerprint(ref),
         NEW g \in DOMAIN obs, NEW k \in Nat,
         LET r == Compare!find_group(ref, obs[g].name)
         IN  r # 0 => k > Len(ref[r].fields)
  PROVE  Seen(obs, ref, g + 1, 1) = Seen(obs, ref, g, k)
<1>0. g \in Nat /\ \A a \in DOMAIN obs : a \in Nat
  BY FingerprintParts
<1>1. ASSUME NEW p \in Seen(obs, ref, g + 1, 1) PROVE p \in Seen(obs, ref, g, k)
  <2> DEFINE r == Compare!find_group(ref, p[1])
  <2>1. p \in CommonOf(obs, ref)
    BY DEF Seen
  <2>2. /\ r # 0 /\ r \in DOMAIN ref
        /\ \E m \in DOMAIN ref[r].fields : ref[r].fields[m].name = p[2]
    BY <2>1, CommonParts
  <2> HIDE DEF r
  <2>3. DOMAIN ref[r].fields = 1 .. Len(ref[r].fields) /\ Len(ref[r].fields) \in Nat
    BY <2>2, FingerprintParts
  <2>4. PICK a \in DOMAIN obs : /\ obs[a].name = p[1]
                                /\ a < g + 1 \/ \E m \in DOMAIN ref[r].fields : m < 1
    BY DEF Seen, r
  <2>5. a < g \/ a = g
    BY <1>0, <2>3, <2>4
  <2>6. a = g => k > Len(ref[r].fields)
    BY <2>2, <2>4 DEF r
  <2>7. PICK m \in DOMAIN ref[r].fields : ref[r].fields[m].name = p[2]
    BY <2>2
  <2>8. a = g => m < k
    BY <2>3, <2>6
  <2>9. QED
    BY <2>1, <2>4, <2>5, <2>7, <2>8 DEF Seen, r
<1>2. ASSUME NEW p \in Seen(obs, ref, g, k) PROVE p \in Seen(obs, ref, g + 1, 1)
  <2>1. PICK a \in DOMAIN obs : obs[a].name = p[1] /\ (a < g \/ a = g)
    BY DEF Seen
  <2>2. a < g + 1
    BY <1>0, <2>1
  <2>3. QED
    BY <2>1, <2>2 DEF Seen
<1>3. QED
  BY <1>1, <1>2

(* The next field: this one is seen too if it is common.                   *)
LEMMA SeenNextField ==
  ASSUME NEW obs, NEW ref, Compare!IsFingerprint(obs), Compare!IsFingerprint(ref),
         NEW g \in DOMAIN obs, NEW k \in Nat,
         NEW r, r = Compare!find_group(ref, obs[g].name), r # 0,
         k \in DOMAIN ref[r].fields
  PROVE  LET p == <<obs[g].name, ref[r].fields[k].name>>
         IN  /\ p \in CommonOf(obs, ref) <=> Compare!find_field(obs[g], ref[r].fields[k].name) # 0
             /\ p \notin Seen(obs, ref, g, k)
             /\ Seen(obs, ref, g, k + 1)
                  = Seen(obs, ref, g, k) \cup ({p} \cap CommonOf(obs, ref))
             /\ AnswerIn(ref, p) = ref[r].fields[k].value
<1> DEFINE p == <<obs[g].name, ref[r].fields[k].name>>
<1>0. g \in Nat /\ \A a \in DOMAIN obs : a \in Nat
  BY FingerprintParts
<1>1. r \in DOMAIN ref /\ ref[r].name = obs[g].name
  BY FindGroup
<1>2. /\ DOMAIN ref[r].fields = 1 .. Len(ref[r].fields) /\ Len(ref[r].fields) \in Nat
      /\ \A m, n \in DOMAIN ref[r].fields :
           ref[r].fields[m].name = ref[r].fields[n].name => m = n
  BY <1>1, FingerprintParts DEF Compare!OnceEach
<1>3. p[1] = obs[g].name /\ p[2] = ref[r].fields[k].name /\ p = <<p[1], p[2]>>
  OBVIOUS
<1>4. \A a \in DOMAIN obs : obs[a].name = p[1] => a = g
  BY FingerprintParts DEF Compare!OnceEach
<1>5. p \in Compare!Pairs(ref)
  BY <1>1, InPairs
<1> HIDE DEF p
<1>6. p \in Compare!Pairs(obs) <=> Compare!find_field(obs[g], ref[r].fields[k].name) # 0
  <2>1. ASSUME Compare!find_field(obs[g], ref[r].fields[k].name) # 0
        PROVE  p \in Compare!Pairs(obs)
    <3>1. PICK m \in DOMAIN obs[g].fields : obs[g].fields[m].name = ref[r].fields[k].name
      BY <2>1, FindField
    <3>2. p = <<obs[g].name, obs[g].fields[m].name>>
      BY <1>3, <3>1
    <3>3. QED
      BY <3>2, InPairs
  <2>2. ASSUME p \in Compare!Pairs(obs)
        PROVE  Compare!find_field(obs[g], ref[r].fields[k].name) # 0
    <3>1. PICK a \in DOMAIN obs : \E m \in DOMAIN obs[a].fields :
                p = <<obs[a].name, obs[a].fields[m].name>>
      BY <2>2, InPairs
    <3>2. a = g
      BY <1>4, <3>1
    <3>3. PICK m \in DOMAIN obs[g].fields : obs[g].fields[m].name = ref[r].fields[k].name
      BY <1>3, <3>1, <3>2
    <3>4. QED
      BY <3>3, FindField
  <2>3. QED
    BY <2>1, <2>2
<1>7. p \in CommonOf(obs, ref) <=> Compare!find_field(obs[g], ref[r].fields[k].name) # 0
  BY <1>5, <1>6 DEF CommonOf
<1>8. p \notin Seen(obs, ref, g, k)
  <2> SUFFICES ASSUME p \in Seen(obs, ref, g, k) PROVE FALSE
    OBVIOUS
  <2>1. PICK a \in DOMAIN obs :
               /\ obs[a].name = p[1]
               /\ \/ a < g
                  \/ \E m \in DOMAIN ref[r].fields : m < k /\ ref[r].fields[m].name = p[2]
    BY <1>3 DEF Seen
  <2>2. ~(a < g)
    BY <1>0, <1>4, <2>1
  <2>3. PICK m \in DOMAIN ref[r].fields : m < k /\ ref[r].fields[m].name = p[2]
    BY <2>1, <2>2
  <2>4. m = k
    BY <1>2, <1>3, <2>3
  <2>5. QED
    BY <2>3, <2>4
<1>9. Seen(obs, ref, g, k + 1) = Seen(obs, ref, g, k) \cup ({p} \cap CommonOf(obs, ref))
  <2>1. ASSUME NEW q \in Seen(obs, ref, g, k + 1)
        PROVE  q \in Seen(obs, ref, g, k) \/ q = p
    <3> DEFINE n == Compare!find_group(ref, q[1])
    <3>1. q \in CommonOf(obs, ref)
      BY DEF Seen
    <3>2. /\ n # 0 /\ n \in DOMAIN ref
          /\ \E m \in DOMAIN ref[n].fields :
               ref[n].fields[m].name = q[2] /\ q = <<ref[n].name, ref[n].fields[m].name>>
      BY <3>1, CommonParts
    <3> HIDE DEF n
    <3>3. PICK a \in DOMAIN obs :
                 /\ obs[a].name = q[1]
                 /\ \/ a < g
                    \/ a = g /\ \E m \in DOMAIN ref[n].fields :
                                  m < k + 1 /\ ref[n].fields[m].name = q[2]
      BY DEF Seen, n
    <3>4. CASE a < g
      BY <3>1, <3>3, <3>4 DEF Seen
    <3>5. CASE a = g
      <4>1. n = r /\ q[1] = p[1]
        BY <1>3, <3>3, <3>5 DEF n
      <4>2. PICK m \in DOMAIN ref[r].fields : m < k + 1 /\ ref[r].fields[m].name = q[2]
        BY <1>0, <3>3, <3>5, <4>1
      <4>3. m < k \/ m = k
        BY <1>2, <4>2
      <4>4. CASE m < k
        BY <3>1, <3>3, <3>5, <4>1, <4>2, <4>4 DEF Seen, n
      <4>5. CASE m = k
        <5>1. q[2] = p[2]
          BY <1>3, <4>2, <4>5
        <5>2. q = <<q[1], q[2]>>
          BY <3>2
        <5>3. QED
          BY <1>3, <4>1, <5>1, <5>2
      <4>6. QED
        BY <4>3, <4>4, <4>5
    <3>6. QED
      BY <3>3, <3>4, <3>5
  <2>2. ASSUME NEW q \in Seen(obs, ref, g, k) PROVE q \in Seen(obs, ref, g, k + 1)
    <3> DEFINE n == Compare!find_group(ref, q[1])
    <3>1. q \in CommonOf(obs, ref)
      BY DEF Seen
    <3>2. n # 0 /\ n \in DOMAIN ref
      BY <3>1, CommonParts
    <3>3. \A m \in DOMAIN ref[n].fields : m \in Nat
      BY <3>2, FingerprintParts
    <3> HIDE DEF n
    <3>4. PICK a \in DOMAIN obs :
                 /\ obs[a].name = q[1]
                 /\ \/ a < g
                    \/ a = g /\ \E m \in DOMAIN ref[n].fields :
                                  m < k /\ ref[n].fields[m].name = q[2]
      BY DEF Seen, n
    <3>5. \A m \in DOMAIN ref[n].fields : m < k => m < k + 1
      BY <3>3
    <3>6. QED
      BY <3>1, <3>4, <3>5 DEF Seen, n
  <2>3. ASSUME p \in CommonOf(obs, ref) PROVE p \in Seen(obs, ref, g, k + 1)
    <3>1. k < k + 1 /\ Compare!find_group(ref, p[1]) = r
      BY <1>3
    <3>2. QED
      BY <1>3, <2>3, <3>1 DEF Seen
  <2>4. \A q \in Seen(obs, ref, g, k + 1) : q \in CommonOf(obs, ref)
    BY DEF Seen
  <2>5. QED
    BY <2>1, <2>2, <2>3, <2>4
<1>10. AnswerIn(ref, p) = ref[r].fields[k].value
  <2> DEFINE v == ref[r].fields[k].value
  <2>1. v \in -1 .. 1
    BY <1>1, FingerprintParts
  <2>2. ASSUME NEW a \in -1 .. 1, NEW h \in DOMAIN ref, NEW f \in DOMAIN ref[h].fields,
               <<ref[h].name, ref[h].fields[f].name>> = p, ref[h].fields[f].value = a
        PROVE  a = v
    <3>1. ref[h].name = p[1] /\ ref[h].fields[f].name = p[2]
      BY <2>2
    <3>2. h = r
      BY <1>3, <3>1, FindGroup
    <3>3. f = k
      BY <1>2, <1>3, <3>1, <3>2
    <3>4. QED
      BY <2>2, <3>2, <3>3
  <2>3. <<ref[r].name, ref[r].fields[k].name>> = p
    BY <1>1, <1>3
  <2> HIDE DEF v
  <2>4. \E h \in DOMAIN ref : \E f \in DOMAIN ref[h].fields :
          <<ref[h].name, ref[h].fields[f].name>> = p /\ ref[h].fields[f].value = v
    BY <1>1, <2>3 DEF v
  <2> DEFINE Q(a) == \E h \in DOMAIN ref : \E f \in DOMAIN ref[h].fields :
                       <<ref[h].name, ref[h].fields[f].name>> = p /\ ref[h].fields[f].value = a
  <2>5. \A a \in -1 .. 1 : Q(a) => a = v
    BY <2>2
  <2>6. Q(v)
    BY <2>4
  <2> HIDE DEF Q
  <2>7. (CHOOSE a \in -1 .. 1 : Q(a)) = v
    BY <2>1, <2>5, <2>6
  <2>8. QED
    BY <2>7 DEF v, AnswerIn, Q
<1>11. QED
  BY <1>7, <1>8, <1>9, <1>10 DEF p

-----------------------------------------------------------------------------
(* What counting one more field does to the score.                         *)

LEMMA TablePrices ==
  ASSUME NEW w, Compare!IsTable(w), NEW p
  PROVE  /\ PointsIn(w, p) # {} => Worth(w, p) \in Nat /\ PointsIn(w, p) = {Worth(w, p)}
         /\ \A k \in DOMAIN w : <<w[k].group, w[k].field>> = p => w[k].points = Worth(w, p)
<1> DEFINE Row == [group : STRING, field : STRING, points : Nat]
<1>1. w \in Seq(Row)
  BY DEF Compare!IsTable
<1>2. ASSUME NEW k \in DOMAIN w PROVE w[k].points \in Nat
  <2> HIDE DEF Row
  <2>1. w[k] \in Row
    BY <1>1, ElementOfSeq
  <2>2. QED
    BY <2>1 DEF Row
<1>3. ASSUME NEW k \in DOMAIN w, NEW m \in DOMAIN w,
             <<w[k].group, w[k].field>> = p, <<w[m].group, w[m].field>> = p
      PROVE  w[k].points = w[m].points
  <2>1. w[k].group = w[m].group /\ w[k].field = w[m].field
    BY <1>3
  <2>2. QED
    BY <2>1 DEF Compare!IsTable
<1> HIDE DEF Row
<1>4. ASSUME NEW k \in DOMAIN w, <<w[k].group, w[k].field>> = p
      PROVE  PointsIn(w, p) = {w[k].points}
  BY <1>3, <1>4 DEF PointsIn
<1>5. ASSUME NEW k \in DOMAIN w, <<w[k].group, w[k].field>> = p
      PROVE  Worth(w, p) = w[k].points
  BY <1>4, <1>5 DEF Worth
<1>6. PointsIn(w, p) # {} => \E k \in DOMAIN w : <<w[k].group, w[k].field>> = p
  BY DEF PointsIn
<1>7. QED
  BY <1>2, <1>4, <1>5, <1>6

LEMMA FindWeight ==
  ASSUME Compare!IsTable(weights), NEW gname, NEW fname
  PROVE  LET k == Compare!find_match_weight(gname, fname)
             p == <<gname, fname>>
         IN  /\ k = 0 <=> PointsIn(weights, p) = {}
             /\ k # 0 => /\ weights[k].points = Worth(weights, p)
                         /\ Worth(weights, p) \in Nat
                         /\ PointsIn(weights, p) = {Worth(weights, p)}
<1> DEFINE places == {k \in DOMAIN weights :
                        weights[k].group = gname /\ weights[k].field = fname}
           p == <<gname, fname>>
<1>1. places \subseteq Nat /\ 0 \notin places
  BY PlacesInSeq DEF Compare!IsTable
<1>2. /\ Compare!First(places) = 0 <=> places = {}
      /\ places # {} => Compare!First(places) \in places
  BY <1>1, FirstOfPlaces
<1>3. Compare!find_match_weight(gname, fname) = Compare!First(places)
  BY DEF Compare!find_match_weight
<1>4. \A k \in DOMAIN weights : k \in places <=> <<weights[k].group, weights[k].field>> = p
  OBVIOUS
<1>5. PointsIn(weights, p) = {} <=> places = {}
  BY <1>4 DEF PointsIn
<1>6. ASSUME NEW k \in places PROVE weights[k].points = Worth(weights, p)
  BY <1>4, TablePrices
<1> HIDE DEF places, p
<1>7. PointsIn(weights, p) # {} =>
        Worth(weights, p) \in Nat /\ PointsIn(weights, p) = {Worth(weights, p)}
  BY TablePrices
<1>8. QED
  BY <1>2, <1>3, <1>5, <1>6, <1>7 DEF p

LEMMA CountingFinite ==
  ASSUME NEW obs, NEW ref, Compare!IsFingerprint(obs), Compare!IsFingerprint(ref), NEW w,
         NEW S, S \subseteq CommonOf(obs, ref)
  PROVE  IsFiniteSet(Counting(w, S))
<1>1. IsFiniteSet(Compare!Pairs(ref))
  BY PairsFinite
<1>2. Counting(w, S) \subseteq Compare!Pairs(ref)
  BY DEF Counting, CommonOf
<1>3. QED
  BY <1>1, <1>2, FS_Subset

(* A field without points changes nothing, ...                             *)
LEMMA ScoredSame ==
  ASSUME NEW obs, NEW ref, NEW w, NEW S, NEW r, Scored(obs, ref, w, S, r),
         NEW p, PointsIn(w, p) = {0}
  PROVE  Scored(obs, ref, w, S \cup {p}, r)
<1>1. Counting(w, S \cup {p}) = Counting(w, S)
  BY DEF Counting
<1>2. QED
  BY <1>1 DEF Scored

(* ... and one with points counts as much as it is worth.                  *)
LEMMA ScoredMore ==
  ASSUME NEW obs, NEW ref, Compare!IsFingerprint(obs), Compare!IsFingerprint(ref),
         NEW w, Compare!IsTable(w), NEW S, S \subseteq CommonOf(obs, ref),
         NEW r, Scored(obs, ref, w, S, r),
         NEW p, p \notin S, PointsIn(w, p) # {}, PointsIn(w, p) # {0},
         NEW answer \in 0 .. 1, AnswerIn(ref, p) = answer
  PROVE  Scored(obs, ref, w, S \cup {p},
                [compared |-> r.compared + 1,
                 matched  |-> r.matched + answer * Worth(w, p),
                 possible |-> r.possible + Worth(w, p)])
<1> DEFINE C == Counting(w, S)
           M == {q \in C : AnswerIn(ref, q) = 1}
           D == Counting(w, S \cup {p})
           N == {q \in D : AnswerIn(ref, q) = 1}
           x == Worth(w, p)
<1>1. D = C \cup {p} /\ p \notin C
  BY DEF Counting
<1>2. answer = 1 => N = M \cup {p} /\ p \notin M
  BY <1>1
<1>3. answer = 0 => N = M
  BY <1>1
<1>4. IsFiniteSet(C)
  BY CountingFinite
<1>5. /\ \A q \in C : PointsIn(w, q) # {} /\ AnswerIn(ref, q) # -1
      /\ r = [compared |-> Cardinality(C), matched |-> Total(w, M), possible |-> Total(w, C)]
  BY DEF Scored
<1>6. Priced(w, C) /\ x \in Nat
  BY <1>5, TablePrices DEF Priced
<1>7. M \subseteq C
  OBVIOUS
<1> HIDE DEF C, D, M, N, x
<1>8. IsFiniteSet(M) /\ Priced(w, M)
  BY <1>4, <1>6, <1>7, FS_Subset DEF Priced
<1>9. Cardinality(D) = Cardinality(C) + 1
  BY <1>1, <1>4, FS_AddElement
<1>10. Total(w, D) = Total(w, C) + x
  BY <1>1, <1>4, <1>6, TotalAdds DEF x
<1>11. Total(w, N) = Total(w, M) + answer * x
  <2>1. CASE answer = 1
    <3>1. Total(w, N) = Total(w, M) + x
      BY <1>2, <1>6, <1>8, <2>1, TotalAdds DEF x
    <3>2. QED
      BY <1>6, <2>1, <3>1
  <2>2. CASE answer = 0
    <3>1. Total(w, M) \in Nat
      BY <1>8, TotalNat
    <3>2. QED
      BY <1>3, <1>6, <2>2, <3>1
  <2>3. QED
    BY <2>1, <2>2
<1>12. /\ r.compared = Cardinality(C) /\ r.matched = Total(w, M) /\ r.possible = Total(w, C)
  BY <1>5
<1>13. \A q \in D : PointsIn(w, q) # {} /\ AnswerIn(ref, q) # -1
  BY <1>1, <1>5
<1>14. QED
  BY <1>9, <1>10, <1>11, <1>12, <1>13 DEF Scored, D, N, x

-----------------------------------------------------------------------------
(* compare_fingerprints.                                                   *)

CompareInv ==
  part = "compare_fingerprints" =>
    /\ Compare!IsFingerprint(observed) /\ Compare!IsFingerprint(reference)
    /\ Compare!IsTable(weights)
    /\ group \in Nat /\ group >= 1 /\ j \in Nat /\ j >= 1
    /\ compared \in {Compare!RUNNING, 0, -1}
    /\ compared \in {Compare!RUNNING, 0}
         => Scored(observed, reference, weights, Seen(observed, reference, group, j), res)
    /\ compared = 0 => group > Len(observed)
    /\ compared = -1 => \E p \in CommonOf(observed, reference) :
                          /\ PointsIn(weights, p) # {0}
                          /\ PointsIn(weights, p) = {} \/ AnswerIn(reference, p) = -1

LEMMA NothingScored ==
  ASSUME NEW obs, NEW ref, NEW w
  PROVE  Scored(obs, ref, w, {}, [compared |-> 0, matched |-> 0, possible |-> 0])
<1>1. Counting(w, {}) = {}
  BY DEF Counting
<1>2. Cardinality({}) = 0 /\ Total(w, {}) = 0
  BY FS_EmptySet, TotalEmpty
<1>3. {p \in {} : AnswerIn(ref, p) = 1} = {}
  OBVIOUS
<1>4. QED
  BY <1>1, <1>2, <1>3 DEF Scored

LEMMA CompareStarts == InitPart => CompareInv
<1> SUFFICES ASSUME InitPart, part = "compare_fingerprints" PROVE CompareInv
  BY DEF CompareInv
<1>1. Compare!Init
  BY DEF InitPart
<1>2. /\ Compare!IsFingerprint(observed) /\ Compare!IsFingerprint(reference)
      /\ Compare!IsTable(weights)
  BY <1>1, FingerprintAssumption, WeightsAssumption DEF Compare!Init
<1>3. Seen(observed, reference, 1, 1) = {}
  BY <1>2, NothingSeen
<1>4. QED
  BY <1>1, <1>2, <1>3, NothingScored DEF CompareInv, Compare!Init, Compare!RUNNING

(* A turn of the inner loop in a group that both have.                     *)
LEMMA TurnFacts ==
  ASSUME CompareInv, part = "compare_fingerprints", Compare!InGroup
  PROVE  LET r == Compare!RefIndex
             p == <<Compare!ObsGroup.name, Compare!RefField.name>>
             S == Seen(observed, reference, group, j)
         IN  /\ group \in DOMAIN observed
             /\ p \in CommonOf(observed, reference) <=> Compare!Shared
             /\ p \notin S /\ S \subseteq CommonOf(observed, reference)
             /\ Seen(observed, reference, group, j + 1)
                  = S \cup ({p} \cap CommonOf(observed, reference))
             /\ AnswerIn(reference, p) = Compare!RefField.value
             /\ Compare!RefField.value \in -1 .. 1
             /\ Scored(observed, reference, weights, S, res)
<1> DEFINE r == Compare!find_group(reference, observed[group].name)
<1>1. /\ Compare!IsFingerprint(observed) /\ Compare!IsFingerprint(reference)
      /\ group \in Nat /\ group >= 1 /\ j \in Nat /\ j >= 1
      /\ Scored(observed, reference, weights, Seen(observed, reference, group, j), res)
      /\ group <= Len(observed) /\ r # 0 /\ j <= Len(reference[r].fields)
  BY DEF CompareInv, Compare!InGroup, Compare!Running, Compare!RefIndex, Compare!RefGroup,
         Compare!ObsGroup
<1>2. group \in DOMAIN observed
  BY <1>1, FingerprintParts
<1>3. r \in DOMAIN reference
  BY <1>1, FindGroup
<1>4. j \in DOMAIN reference[r].fields
  BY <1>1, <1>3, FingerprintParts
<1>5. reference[r].fields[j].value \in -1 .. 1
  BY <1>1, <1>3, <1>4, FingerprintParts
<1> DEFINE p == <<observed[group].name, reference[r].fields[j].name>>
           S == Seen(observed, reference, group, j)
<1>6. /\ p \in CommonOf(observed, reference)
           <=> Compare!find_field(observed[group], reference[r].fields[j].name) # 0
      /\ p \notin S
      /\ Seen(observed, reference, group, j + 1)
           = S \cup ({p} \cap CommonOf(observed, reference))
      /\ AnswerIn(reference, p) = reference[r].fields[j].value
  <2> HIDE DEF r
  <2>1. QED
    BY <1>1, <1>2, <1>4, SeenNextField DEF r
<1>7. S \subseteq CommonOf(observed, reference)
  BY DEF Seen
<1>8. /\ Compare!ObsGroup = observed[group] /\ Compare!RefIndex = r
      /\ Compare!RefField = reference[r].fields[j]
      /\ Compare!Shared <=> Compare!find_field(observed[group], reference[r].fields[j].name) # 0
  BY DEF Compare!ObsGroup, Compare!RefIndex, Compare!RefGroup, Compare!RefField, Compare!Shared
<1> HIDE DEF r, S
<1>9. QED
  BY <1>1, <1>2, <1>5, <1>6, <1>7, <1>8 DEF S

LEMMA CompareSteps ==
  ASSUME CompareInv, NextPart, part = "compare_fingerprints"
  PROVE  CompareInv'
<1>0. Compare!Next /\ part' = part
  BY DEF NextPart
<1> DEFINE S == Seen(observed, reference, group, j)
           fixed == UNCHANGED <<observed, reference, weights>>
<1>1. /\ Compare!IsFingerprint(observed) /\ Compare!IsFingerprint(reference)
      /\ Compare!IsTable(weights)
      /\ group \in Nat /\ group >= 1 /\ j \in Nat /\ j >= 1
      /\ compared = Compare!RUNNING => Scored(observed, reference, weights, S, res)
  BY DEF CompareInv
<1>2. ASSUME fixed, compared' = compared, compared = Compare!RUNNING,
             group' \in Nat, group' >= 1, j' \in Nat, j' >= 1,
             Scored(observed, reference, weights,
                    Seen(observed, reference, group', j'), res')
      PROVE  CompareInv'
  BY <1>0, <1>1, <1>2 DEF CompareInv, Compare!RUNNING
<1>3. ASSUME fixed, compared' = -1, group' = group, j' = j,
             \E p \in CommonOf(observed, reference) :
               /\ PointsIn(weights, p) # {0}
               /\ PointsIn(weights, p) = {} \/ AnswerIn(reference, p) = -1
      PROVE  CompareInv'
  BY <1>0, <1>1, <1>3 DEF CompareInv, Compare!RUNNING
<1> DEFINE p == <<Compare!ObsGroup.name, Compare!RefField.name>>
           k == Compare!Weight
<1>4. ASSUME Compare!InGroup
      PROVE  /\ group \in DOMAIN observed
             /\ p \in CommonOf(observed, reference) <=> Compare!Shared
             /\ p \notin S /\ S \subseteq CommonOf(observed, reference)
             /\ Seen(observed, reference, group, j + 1)
                  = S \cup ({p} \cap CommonOf(observed, reference))
             /\ AnswerIn(reference, p) = Compare!RefField.value
             /\ Compare!RefField.value \in -1 .. 1
             /\ Scored(observed, reference, weights, S, res)
             /\ k = 0 <=> PointsIn(weights, p) = {}
             /\ k # 0 => /\ Compare!Points = Worth(weights, p)
                         /\ Worth(weights, p) \in Nat
                         /\ PointsIn(weights, p) = {Worth(weights, p)}
  <2>1. Compare!Weight = Compare!find_match_weight(Compare!ObsGroup.name, Compare!RefField.name)
        /\ Compare!Points = weights[Compare!Weight].points
    BY DEF Compare!Weight, Compare!Points
  <2>2. QED
    BY <1>1, <1>4, <2>1, TurnFacts, FindWeight
<1> HIDE DEF S, p, k
<1>5. CASE Compare!NextGroup
  <2>1. /\ fixed /\ compared' = compared /\ compared = Compare!RUNNING /\ res' = res
        /\ group' = group + 1 /\ j' = 1 /\ group <= Len(observed)
        /\ Compare!RefIndex = 0 \/ j > Len(Compare!RefGroup.fields)
    BY <1>5 DEF Compare!NextGroup, Compare!Running
  <2>2. group \in DOMAIN observed
    BY <1>1, <2>1, FingerprintParts
  <2> DEFINE r == Compare!find_group(reference, observed[group].name)
  <2>3. r # 0 => j > Len(reference[r].fields)
    BY <2>1 DEF Compare!RefIndex, Compare!RefGroup, Compare!ObsGroup
  <2> HIDE DEF r
  <2>4. Seen(observed, reference, group + 1, 1) = S
    BY <1>1, <2>2, <2>3, SeenNextGroup DEF S, r
  <2>5. QED
    BY <1>1, <1>2, <2>1, <2>4
<1>6. CASE Compare!NotShared
  <2>1. /\ fixed /\ compared' = compared /\ compared = Compare!RUNNING /\ res' = res
        /\ group' = group /\ j' = j + 1 /\ Compare!InGroup /\ ~Compare!Shared
    BY <1>6 DEF Compare!NotShared, Compare!InGroup, Compare!Running
  <2>2. Seen(observed, reference, group, j + 1) = S
    BY <1>4, <2>1
  <2>3. QED
    BY <1>1, <1>2, <2>1, <2>2
<1>7. CASE Compare!NoWeight
  <2>1. /\ fixed /\ compared' = -1 /\ group' = group /\ j' = j
        /\ Compare!InGroup /\ Compare!Shared /\ k = 0
    BY <1>7 DEF Compare!NoWeight, k
  <2>2. p \in CommonOf(observed, reference) /\ PointsIn(weights, p) = {}
    BY <1>4, <2>1
  <2>3. {} # {0}
    OBVIOUS
  <2>4. QED
    BY <1>3, <2>1, <2>2, <2>3
<1>8. CASE Compare!NoPoints
  <2>1. /\ fixed /\ compared' = compared /\ compared = Compare!RUNNING /\ res' = res
        /\ group' = group /\ j' = j + 1
        /\ Compare!InGroup /\ Compare!Shared /\ k # 0 /\ Compare!Points = 0
    BY <1>8 DEF Compare!NoPoints, Compare!InGroup, Compare!Running, k
  <2>2. /\ Seen(observed, reference, group, j + 1) = S \cup {p}
        /\ PointsIn(weights, p) = {0} /\ Scored(observed, reference, weights, S, res)
    BY <1>4, <2>1
  <2>3. Scored(observed, reference, weights, S \cup {p}, res)
    BY <2>2, ScoredSame
  <2>4. QED
    BY <1>1, <1>2, <2>1, <2>2, <2>3
<1>9. CASE Compare!InvalidExpression
  <2>1. /\ fixed /\ compared' = -1 /\ group' = group /\ j' = j
        /\ Compare!InGroup /\ Compare!Shared /\ k # 0 /\ Compare!Points # 0
        /\ Compare!RefField.value = -1
    BY <1>9 DEF Compare!InvalidExpression, Compare!Worth, k
  <2>2. /\ p \in CommonOf(observed, reference) /\ PointsIn(weights, p) # {0}
        /\ AnswerIn(reference, p) = -1
    BY <1>4, <2>1
  <2>3. QED
    BY <1>3, <2>1, <2>2
<1>10. CASE Compare!CompareField
  <2> DEFINE answer == Compare!RefField.value
  <2>1. /\ fixed /\ compared' = compared /\ compared = Compare!RUNNING
        /\ group' = group /\ j' = j + 1
        /\ Compare!InGroup /\ Compare!Shared /\ k # 0 /\ Compare!Points # 0 /\ answer # -1
        /\ res' = Compare!scored(Compare!Points, answer)
    BY <1>10 DEF Compare!CompareField, Compare!InGroup, Compare!Running, Compare!Worth, k
  <2> HIDE DEF answer
  <2>2. /\ Seen(observed, reference, group, j + 1) = S \cup {p}
        /\ PointsIn(weights, p) # {} /\ PointsIn(weights, p) # {0}
        /\ Scored(observed, reference, weights, S, res)
        /\ Compare!Points = Worth(weights, p)
        /\ answer \in 0 .. 1 /\ AnswerIn(reference, p) = answer
        /\ p \notin S /\ S \subseteq CommonOf(observed, reference)
    BY <1>4, <2>1 DEF answer
  <2>3. Scored(observed, reference, weights, S \cup {p},
               [compared |-> res.compared + 1,
                matched  |-> res.matched + answer * Worth(weights, p),
                possible |-> res.possible + Worth(weights, p)])
    BY <1>1, <2>2, ScoredMore
  <2>4. res' = [compared |-> res.compared + 1,
                matched  |-> res.matched + answer * Worth(weights, p),
                possible |-> res.possible + Worth(weights, p)]
    BY <2>1, <2>2 DEF Compare!scored
  <2>5. Scored(observed, reference, weights, Seen(observed, reference, group', j'), res')
    BY <2>1, <2>2, <2>3, <2>4
  <2>6. QED
    BY <1>1, <1>2, <2>1, <2>5
<1>11. CASE Compare!Finish
  <2>1. /\ fixed /\ compared' = 0 /\ compared = Compare!RUNNING /\ res' = res
        /\ group' = group /\ j' = j /\ group > Len(observed)
    BY <1>11 DEF Compare!Finish
  <2>2. QED
    BY <1>0, <1>1, <2>1 DEF CompareInv, S, Compare!RUNNING
<1>12. QED
  BY <1>0, <1>5, <1>6, <1>7, <1>8, <1>9, <1>10, <1>11 DEF Compare!Next

LEMMA CompareInvariant == SpecPart => []CompareInv
<1>1. CompareInv /\ [NextPart]_<<part, vars, compare_vars>> => CompareInv'
  <2> SUFFICES ASSUME CompareInv, [NextPart]_<<part, vars, compare_vars>> PROVE CompareInv'
    OBVIOUS
  <2>1. CASE part = "compare_fingerprints" /\ NextPart
    BY <2>1, CompareSteps
  <2>2. CASE part # "compare_fingerprints" /\ NextPart
    <3>1. part' # "compare_fingerprints"
      BY <2>2 DEF NextPart
    <3>2. QED
      BY <3>1 DEF CompareInv
  <2>3. CASE UNCHANGED <<part, vars, compare_vars>>
    BY <2>3 DEF CompareInv, compare_vars
  <2>4. QED
    BY <2>1, <2>2, <2>3
<1>2. QED
  BY <1>1, CompareStarts, PTL DEF SpecPart

(* Whatever the order of groups, fields and weights: each common field     *)
(* counts once, by the two loops of compare_fingerprints                   *)
(* (src/src/matcher.c:307-361).                                            *)
THEOREM EachCommonFieldCountsOnce == SpecPart => []ScoresCommonFields
<1>1. CompareInv => ScoresCommonFields
  <2> SUFFICES ASSUME CompareInv, part = "compare_fingerprints"
               PROVE  Compare!ScoresCommonFields
    BY DEF ScoresCommonFields
  <2>1. /\ Compare!Common = CommonOf(observed, reference)
        /\ \A p : Compare!PointsOf(p) = PointsIn(weights, p)
        /\ \A p : Compare!Answer(p) = AnswerIn(reference, p)
    BY DEF Compare!Common, CommonOf, Compare!PointsOf, PointsIn, Compare!Answer, AnswerIn
  <2>2. ASSUME NEW T PROVE Compare!Sum(T) = Total(weights, T)
    BY Zenon DEF Compare!Sum, Total, Summed, Summing, Some, Compare!Worths, Worth,
                 Compare!PointsOf, PointsIn
  <2>3. Compare!WorthPoints = Counting(weights, CommonOf(observed, reference))
    BY <2>1 DEF Compare!WorthPoints, Counting
  <2>4. CASE compared = 0
    <3>1. /\ Scored(observed, reference, weights, Seen(observed, reference, group, j), res)
          /\ Seen(observed, reference, group, j) = CommonOf(observed, reference)
      BY <2>4, AllSeen DEF CompareInv
    <3>2. Scored(observed, reference, weights, CommonOf(observed, reference), res)
      BY <3>1
    <3>3. \A p \in Compare!WorthPoints : PointsIn(weights, p) # {} /\ AnswerIn(reference, p) # -1
      BY <2>3, <3>2 DEF Scored
    <3>4. Compare!Failing = {}
      BY <2>1, <3>3 DEF Compare!Failing
    <3>5. Compare!Matching = {p \in Compare!WorthPoints : AnswerIn(reference, p) = 1}
      BY <2>1 DEF Compare!Matching
    <3>6. /\ res.compared = Cardinality(Compare!WorthPoints)
          /\ res.matched = Total(weights, Compare!Matching)
          /\ res.possible = Total(weights, Compare!WorthPoints)
      BY <2>3, <3>2, <3>5 DEF Scored
    <3>7. /\ Compare!Sum(Compare!Matching) = Total(weights, Compare!Matching)
          /\ Compare!Sum(Compare!WorthPoints) = Total(weights, Compare!WorthPoints)
      BY <2>2
    <3>8. Compare!Cardinality(Compare!WorthPoints) = Cardinality(Compare!WorthPoints)
      BY Zenon DEF Compare!Cardinality, Cardinality
    <3>9. QED
      BY <2>4, <3>4, <3>6, <3>7, <3>8 DEF Compare!ScoresCommonFields
  <2>5. CASE compared = -1
    <3>1. PICK p \in CommonOf(observed, reference) :
                 /\ PointsIn(weights, p) # {0}
                 /\ PointsIn(weights, p) = {} \/ AnswerIn(reference, p) = -1
      BY <2>5 DEF CompareInv
    <3>2. p \in Compare!Failing
      BY <2>1, <2>3, <3>1 DEF Compare!Failing, Counting
    <3>3. QED
      BY <2>5, <3>2 DEF Compare!ScoresCommonFields
  <2>6. CASE compared \notin {0, -1}
    BY <2>6 DEF Compare!ScoresCommonFields
  <2>7. QED
    BY <2>4, <2>5, <2>6
<1>2. QED
  BY <1>1, CompareInvariant, PTL
-----------------------------------------------------------------------------
(* A recursion up to a number.                                             *)
Recursive(h, S, c, len, g) ==
  /\ h \in [0 .. len -> S] /\ h[0] = c
  /\ \A n \in 1 .. len : h[n] = g[<<n - 1, h[n - 1]>>]

LEMMA FiniteRecursion ==
  ASSUME NEW S, NEW c \in S, NEW len \in Nat, NEW g \in StepOn(S)
  PROVE  \E h : Recursive(h, S, c, len, g)
<1>1. PICK f \in [Nat -> S] : f[0] = c /\ \A n \in Nat : f[n + 1] = g[<<n, f[n]>>]
  BY Recursion
<1> DEFINE h == [n \in 0 .. len |-> f[n]]
<1>2. h \in [0 .. len -> S] /\ h[0] = c
  BY <1>1
<1>3. ASSUME NEW n \in 1 .. len PROVE h[n] = g[<<n - 1, h[n - 1]>>]
  <2>1. n - 1 \in Nat /\ n - 1 \in 0 .. len /\ (n - 1) + 1 = n
    OBVIOUS
  <2>2. f[n] = g[<<n - 1, f[n - 1]>>]
    BY <1>1, <2>1
  <2>3. QED
    BY <2>1, <2>2
<1> HIDE DEF h
<1>4. Recursive(h, S, c, len, g)
  BY <1>2, <1>3 DEF Recursive
<1>5. QED
  BY <1>4

-----------------------------------------------------------------------------
(* Digits and numbers.                                                     *)

LEMMA HexCharsAre ==
  HexChars = {"0", "1", "2", "3", "4", "5", "6", "7", "8", "9",
              "A", "B", "C", "D", "E", "F", "a", "b", "c", "d", "e", "f"}
<1>1. {Digits[d] : d \in 1 .. 16} = {"0", "1", "2", "3", "4", "5", "6", "7", "8", "9",
              "A", "B", "C", "D", "E", "F"}
  BY DEF Digits
<1>2. {Lower[d] : d \in 1 .. 6} = {"a", "b", "c", "d", "e", "f"}
  BY DEF Lower
<1>3. QED
  BY <1>1, <1>2 DEF HexChars

LEMMA SignsAreNoDigits == Signs \cap (HexChars \cup {"~"}) = {}
BY HexCharsAre DEF Signs

LEMMA HexDigitRange ==
  ASSUME NEW c \in HexChars
  PROVE  hex_digit[c] \in 0 .. 15
<1>1. CASE c \in {Digits[d] : d \in 1 .. 16}
  <2>1. PICK d \in 1 .. 16 : c = Digits[d]
    BY <1>1
  <2>2. d - 1 \in 0 .. 15 /\ Digits[(d - 1) + 1] = c
    BY <2>1
  <2>3. QED
    BY <2>2 DEF hex_digit
<1>2. CASE c \in {Lower[d] : d \in 1 .. 6}
  <2>1. PICK d \in 1 .. 6 : c = Lower[d]
    BY <1>2
  <2>2. d + 9 \in 0 .. 15 /\ d + 9 > 9 /\ Lower[(d + 9) - 9] = c
    BY <2>1
  <2>3. QED
    BY <2>2 DEF hex_digit
<1>3. QED
  BY <1>1, <1>2 DEF HexChars

(* One turn of parse_hex_slice, and one of reading without a limit.        *)
ParseTurn(c, v) ==
  IF c \notin HexChars \/ v = -1 \/ v > (UINT32 - 1 - hex_digit[c]) \div 16
  THEN -1 ELSE v * 16 + hex_digit[c]

Parsing(text, f) ==
  [k \in 0 .. Len(text) |->
     IF k = 0 THEN 0
     ELSE IF \/ text[k] \notin HexChars
             \/ f[k - 1] = -1
             \/ f[k - 1] > (UINT32 - 1 - hex_digit[text[k]]) \div 16
     THEN -1
     ELSE f[k - 1] * 16 + hex_digit[text[k]]]
Parsed(text) == CHOOSE f : f = Parsing(text, f)

Valuing(text, f) ==
  [k \in 0 .. Len(text) |-> IF k = 0 THEN 0 ELSE f[k - 1] * 16 + hex_digit[text[k]]]
Valued(text) == CHOOSE f : f = Valuing(text, f)

LEMMA ParseIsParsed ==
  ASSUME NEW text
  PROVE  parse_hex_slice(text) = IF text = <<>> THEN -1 ELSE Parsed(text)[Len(text)]
BY Zenon DEF parse_hex_slice, Parsing, Parsed

LEMMA ValueIsValued ==
  ASSUME NEW text
  PROVE  ValueOf(text) = IF text # <<>> /\ Chars(text) \subseteq HexChars
                         THEN Valued(text)[Len(text)] ELSE -1
BY Zenon DEF ValueOf, Valuing, Valued

LEMMA ParsedSteps ==
  ASSUME NEW text, Len(text) \in Nat
  PROVE  /\ Parsed(text)[0] = 0
         /\ \A k \in 1 .. Len(text) : Parsed(text)[k] = ParseTurn(text[k], Parsed(text)[k - 1])
         /\ \A k \in 0 .. Len(text) : Parsed(text)[k] \in Int
<1> DEFINE g == [x \in Nat \X Int |-> ParseTurn(text[x[1] + 1], x[2])]
<1>1. g \in StepOn(Int)
  <2>1. ASSUME NEW c, NEW v \in Int PROVE ParseTurn(c, v) \in Int
    <3>1. CASE c \in HexChars
      BY <3>1, HexDigitRange DEF ParseTurn
    <3>2. CASE c \notin HexChars
      BY <3>2 DEF ParseTurn
    <3>3. QED
      BY <3>1, <3>2
  <2>2. QED
    BY <2>1 DEF StepOn
<1>2. \A k \in Nat, v \in Int : g[<<k, v>>] = ParseTurn(text[k + 1], v)
  OBVIOUS
<1> DEFINE S == Int
           c == 0
<1> HIDE DEF g
<1>a. c \in S /\ g \in StepOn(S)
  BY <1>1
<1> HIDE DEF S, c
<1>b. PICK h : Recursive(h, S, c, Len(text), g)
  BY <1>a, FiniteRecursion
<1>3. /\ h \in [0 .. Len(text) -> Int] /\ h[0] = 0
      /\ \A n \in 1 .. Len(text) : h[n] = g[<<n - 1, h[n - 1]>>]
  BY <1>b DEF Recursive, S, c
<1>4. \A n \in 1 .. Len(text) : h[n] = ParseTurn(text[n], h[n - 1])
  <2> SUFFICES ASSUME NEW n \in 1 .. Len(text) PROVE h[n] = ParseTurn(text[n], h[n - 1])
    OBVIOUS
  <2>1. n - 1 \in Nat /\ n - 1 \in 0 .. Len(text) /\ (n - 1) + 1 = n
    OBVIOUS
  <2>2. h[n - 1] \in Int
    BY <1>3, <2>1
  <2>3. QED
    BY <1>2, <1>3, <2>1, <2>2
<1>5. h = Parsing(text, h)
  <2>1. \A n \in 0 .. Len(text) : n # 0 => n \in 1 .. Len(text)
    OBVIOUS
  <2>2. h = [n \in 0 .. Len(text) |-> h[n]]
    BY <1>3
  <2>3. QED
    BY <1>3, <1>4, <2>1, <2>2 DEF Parsing, ParseTurn
<1>6. Parsed(text) = Parsing(text, Parsed(text))
  BY <1>5 DEF Parsed
<1>7. Parsed(text)[0] = 0
  BY <1>6 DEF Parsing
<1>8. \A k \in 1 .. Len(text) : Parsed(text)[k] = ParseTurn(text[k], Parsed(text)[k - 1])
  BY <1>6 DEF Parsing, ParseTurn
<1> DEFINE T == {n \in Nat : n <= Len(text) => Parsed(text)[n] \in Int}
<1>9. 0 \in T
  BY <1>7
<1>10. ASSUME NEW n \in Nat, n \in T PROVE n + 1 \in T
  <2> SUFFICES ASSUME n + 1 <= Len(text) PROVE Parsed(text)[n + 1] \in Int
    OBVIOUS
  <2>1. n + 1 \in 1 .. Len(text) /\ (n + 1) - 1 = n /\ Parsed(text)[n] \in Int
    BY <1>10
  <2>2. Parsed(text)[n + 1] = ParseTurn(text[n + 1], Parsed(text)[n])
    BY <1>8, <2>1
  <2>3. text[n + 1] \in HexChars => hex_digit[text[n + 1]] \in 0 .. 15
    BY HexDigitRange
  <2> DEFINE p == Parsed(text)[n]
  <2> HIDE DEF p
  <2>4. p \in Int /\ Parsed(text)[n + 1] = ParseTurn(text[n + 1], p)
    BY <2>1, <2>2 DEF p
  <2>5. CASE text[n + 1] \in HexChars
    <3>1. p * 16 + hex_digit[text[n + 1]] \in Int
      BY <2>3, <2>4, <2>5
    <3>2. QED
      BY <2>4, <3>1 DEF ParseTurn
  <2>6. CASE text[n + 1] \notin HexChars
    BY <2>4, <2>6 DEF ParseTurn
  <2>7. QED
    BY <2>5, <2>6
<1> HIDE DEF T
<1>11. \A n \in Nat : n \in T
  BY <1>9, <1>10, Induction
<1>12. \A k \in 0 .. Len(text) : Parsed(text)[k] \in Int
  BY <1>11 DEF T
<1>13. QED
  BY <1>7, <1>8, <1>12

LEMMA ValuedSteps ==
  ASSUME NEW text, Len(text) \in Nat, \A k \in 1 .. Len(text) : text[k] \in HexChars
  PROVE  /\ Valued(text)[0] = 0
         /\ \A k \in 1 .. Len(text) :
              Valued(text)[k] = Valued(text)[k - 1] * 16 + hex_digit[text[k]]
         /\ \A k \in 0 .. Len(text) : Valued(text)[k] \in Nat
<1> DEFINE g == [x \in Nat \X Nat |->
                   IF x[1] + 1 \in 1 .. Len(text) THEN x[2] * 16 + hex_digit[text[x[1] + 1]]
                   ELSE 0]
<1>1. g \in StepOn(Nat)
  <2>1. ASSUME NEW k \in 1 .. Len(text), NEW v \in Nat
        PROVE  v * 16 + hex_digit[text[k]] \in Nat
    <3>1. hex_digit[text[k]] \in 0 .. 15
      BY HexDigitRange
    <3>2. QED
      BY <3>1
  <2>2. QED
    BY <2>1 DEF StepOn
<1>2. \A k \in Nat, v \in Nat :
        k + 1 \in 1 .. Len(text) => g[<<k, v>>] = v * 16 + hex_digit[text[k + 1]]
  OBVIOUS
<1> DEFINE S == Nat
           c == 0
<1> HIDE DEF g
<1>a. c \in S /\ g \in StepOn(S)
  BY <1>1
<1> HIDE DEF S, c
<1>b. PICK h : Recursive(h, S, c, Len(text), g)
  BY <1>a, FiniteRecursion
<1>3. /\ h \in [0 .. Len(text) -> Nat] /\ h[0] = 0
      /\ \A n \in 1 .. Len(text) : h[n] = g[<<n - 1, h[n - 1]>>]
  BY <1>b DEF Recursive, S, c
<1>4. \A n \in 1 .. Len(text) : h[n] = h[n - 1] * 16 + hex_digit[text[n]]
  <2> SUFFICES ASSUME NEW n \in 1 .. Len(text)
               PROVE  h[n] = h[n - 1] * 16 + hex_digit[text[n]]
    OBVIOUS
  <2>1. n - 1 \in Nat /\ n - 1 \in 0 .. Len(text) /\ (n - 1) + 1 = n
    OBVIOUS
  <2>2. h[n - 1] \in Nat
    BY <1>3, <2>1
  <2>3. QED
    BY <1>2, <1>3, <2>1, <2>2
<1>5. h = Valuing(text, h)
  <2>1. \A n \in 0 .. Len(text) : n # 0 => n \in 1 .. Len(text)
    OBVIOUS
  <2>2. h = [n \in 0 .. Len(text) |-> h[n]]
    BY <1>3
  <2>3. QED
    BY <1>3, <1>4, <2>1, <2>2 DEF Valuing
<1>6. Valued(text) = Valuing(text, Valued(text))
  BY <1>5 DEF Valued
<1>7. Valued(text)[0] = 0
  BY <1>6 DEF Valuing
<1>8. \A k \in 1 .. Len(text) : Valued(text)[k] = Valued(text)[k - 1] * 16 + hex_digit[text[k]]
  BY <1>6 DEF Valuing
<1> DEFINE T == {n \in Nat : n <= Len(text) => Valued(text)[n] \in Nat}
<1>9. 0 \in T
  BY <1>7
<1>10. ASSUME NEW n \in Nat, n \in T PROVE n + 1 \in T
  <2> SUFFICES ASSUME n + 1 <= Len(text) PROVE Valued(text)[n + 1] \in Nat
    OBVIOUS
  <2>1. n + 1 \in 1 .. Len(text) /\ (n + 1) - 1 = n /\ Valued(text)[n] \in Nat
    BY <1>10
  <2>2. Valued(text)[n + 1] = Valued(text)[n] * 16 + hex_digit[text[n + 1]]
    BY <1>8, <2>1
  <2>3. hex_digit[text[n + 1]] \in 0 .. 15
    BY <2>1, HexDigitRange
  <2>4. \A x \in Nat, d \in 0 .. 15 : x * 16 + d \in Nat
    OBVIOUS
  <2>5. QED
    BY <2>1, <2>2, <2>3, <2>4
<1> HIDE DEF T
<1>11. \A n \in Nat : n \in T
  BY <1>9, <1>10, Induction
<1>12. \A k \in 0 .. Len(text) : Valued(text)[k] \in Nat
  BY <1>11 DEF T
<1>13. QED
  BY <1>7, <1>8, <1>12

(* The test before the multiplication is exact.                            *)
LEMMA OverflowTest ==
  ASSUME NEW v \in Nat, NEW d \in 0 .. 15
  PROVE  v > (UINT32 - 1 - d) \div 16 <=> v * 16 + d > UINT32 - 1
<1>1. UINT32 \in Nat /\ UINT32 > 15
  BY UintAssumption
<1> DEFINE n == UINT32 - 1 - d
<1>2. n \in Nat
  BY <1>1
<1>3. n \div 16 \in Nat /\ 16 * (n \div 16) <= n /\ n < 16 * (n \div 16) + 16
  BY <1>2
<1>4. QED
  BY <1>1, <1>2, <1>3

(* parse_hex_slice is exact below the limit, and refuses the rest.         *)
LEMMA ParseIsValue ==
  ASSUME NEW S, NEW text \in Seq(S)
  PROVE  /\ parse_hex_slice(text) = IF Fits(ValueOf(text)) THEN ValueOf(text) ELSE -1
         /\ ValueOf(text) \in Nat \cup {-1}
<1>1. Len(text) \in Nat /\ UINT32 \in Nat /\ UINT32 > 15 /\ DOMAIN text = 1 .. Len(text)
  BY UintAssumption
<1> DEFINE p == Parsed(text)
           v == Valued(text)
<1>2. /\ p[0] = 0
      /\ \A k \in 1 .. Len(text) : p[k] = ParseTurn(text[k], p[k - 1])
      /\ \A k \in 0 .. Len(text) : p[k] \in Int
  BY <1>1, ParsedSteps
<1>3. CASE text = <<>>
  BY <1>1, <1>3, ParseIsParsed, ValueIsValued DEF Fits
<1>4. CASE text # <<>> /\ ~Chars(text) \subseteq HexChars
  <2>1. PICK m \in 1 .. Len(text) : text[m] \notin HexChars
    BY <1>1, <1>4 DEF Chars
  <2> DEFINE T == {k \in Nat : m <= k /\ k <= Len(text) => p[k] = -1}
  <2> HIDE DEF p, v
  <2>2. 0 \in T
    OBVIOUS
  <2>3. ASSUME NEW k \in Nat, k \in T PROVE k + 1 \in T
    <3> SUFFICES ASSUME m <= k + 1, k + 1 <= Len(text) PROVE p[k + 1] = -1
      OBVIOUS
    <3>1. k + 1 \in 1 .. Len(text) /\ (k + 1) - 1 = k
      BY <1>1
    <3>2. p[k + 1] = ParseTurn(text[k + 1], p[k])
      BY <1>2, <3>1
    <3>3. CASE m = k + 1
      BY <2>1, <3>2, <3>3 DEF ParseTurn
    <3>4. CASE m # k + 1
      <4>1. p[k] = -1
        BY <1>1, <2>3, <3>4
      <4>2. QED
        BY <3>2, <4>1 DEF ParseTurn
    <3>5. QED
      BY <3>3, <3>4
  <2> HIDE DEF T
  <2>4. \A k \in Nat : k \in T
    BY <2>2, <2>3, Induction
  <2>5. p[Len(text)] = -1
    BY <1>1, <2>4 DEF T
  <2>6. parse_hex_slice(text) = -1 /\ ValueOf(text) = -1
    BY <1>4, <2>5, ParseIsParsed, ValueIsValued DEF p
  <2>7. QED
    BY <1>1, <2>6 DEF Fits
<1>5. CASE text # <<>> /\ Chars(text) \subseteq HexChars
  <2>1. \A k \in 1 .. Len(text) : text[k] \in HexChars
    BY <1>1, <1>5 DEF Chars
  <2>2. /\ v[0] = 0
        /\ \A k \in 1 .. Len(text) : v[k] = v[k - 1] * 16 + hex_digit[text[k]]
        /\ \A k \in 0 .. Len(text) : v[k] \in Nat
    BY <1>1, <2>1, ValuedSteps
  <2> DEFINE T == {k \in Nat : k <= Len(text) => p[k] = IF v[k] < UINT32 THEN v[k] ELSE -1}
  <2> HIDE DEF p, v
  <2>3. 0 \in T
    BY <1>1, <1>2, <2>2
  <2>4. ASSUME NEW k \in Nat, k \in T PROVE k + 1 \in T
    <3> SUFFICES ASSUME k + 1 <= Len(text)
                 PROVE  p[k + 1] = IF v[k + 1] < UINT32 THEN v[k + 1] ELSE -1
      OBVIOUS
    <3>1. k + 1 \in 1 .. Len(text) /\ (k + 1) - 1 = k /\ k \in 0 .. Len(text)
      BY <1>1
    <3> DEFINE d == hex_digit[text[k + 1]]
    <3>2. p[k + 1] = ParseTurn(text[k + 1], p[k]) /\ v[k + 1] = v[k] * 16 + d /\ v[k] \in Nat
      BY <1>2, <2>2, <3>1
    <3>3. text[k + 1] \in HexChars /\ d \in 0 .. 15
      BY <2>1, <3>1, HexDigitRange
    <3>4. v[k] > (UINT32 - 1 - d) \div 16 <=> v[k] * 16 + d > UINT32 - 1
      BY <3>2, <3>3, OverflowTest
    <3>5. p[k] = IF v[k] < UINT32 THEN v[k] ELSE -1
      BY <2>4, <3>1
    <3>6. p[k + 1] = IF p[k] = -1 \/ p[k] > (UINT32 - 1 - d) \div 16 THEN -1 ELSE p[k] * 16 + d
      BY <3>2, <3>3 DEF ParseTurn
    <3> HIDE DEF d
    <3>7. CASE v[k] < UINT32
      BY <1>1, <3>2, <3>3, <3>4, <3>5, <3>6, <3>7
    <3>8. CASE ~v[k] < UINT32
      BY <1>1, <3>2, <3>3, <3>5, <3>6, <3>8
    <3>9. QED
      BY <3>7, <3>8
  <2> HIDE DEF T
  <2>5. \A k \in Nat : k \in T
    BY <2>3, <2>4, Induction
  <2>6. p[Len(text)] = IF v[Len(text)] < UINT32 THEN v[Len(text)] ELSE -1
    BY <1>1, <2>5 DEF T
  <2>7. parse_hex_slice(text) = p[Len(text)] /\ ValueOf(text) = v[Len(text)]
    BY <1>5, ParseIsParsed, ValueIsValued DEF p, v
  <2>8. v[Len(text)] \in Nat
    BY <1>1, <2>2
  <2>9. QED
    BY <1>1, <2>6, <2>7, <2>8 DEF Fits
<1>6. QED
  BY <1>3, <1>4, <1>5
-----------------------------------------------------------------------------
(* What stands where in a text.                                            *)

At(t, o, s) ==
  /\ o \in Nat /\ o + Len(s) <= Len(t)
  /\ \A p \in 1 .. Len(s) : t[o + p] = s[p]

LEMMA AtIsSubSeq ==
  ASSUME NEW S, NEW t \in Seq(S), NEW s \in Seq(S), NEW o \in Nat
  PROVE  /\ At(t, o, s) => SubSeq(t, o + 1, o + Len(s)) = s
         /\ o + Len(s) <= Len(t) /\ SubSeq(t, o + 1, o + Len(s)) = s => At(t, o, s)
<1>1. Len(t) \in Nat /\ Len(s) \in Nat
  BY LenProperties
<1> SUFFICES ASSUME o + Len(s) <= Len(t)
             PROVE  SubSeq(t, o + 1, o + Len(s)) = s <=> \A p \in 1 .. Len(s) : t[o + p] = s[p]
  BY DEF At
<1> DEFINE r == SubSeq(t, o + 1, o + Len(s))
<1>2. \A k \in o + 1 .. o + Len(s) : t[k] \in S
  <2>1. \A k \in o + 1 .. o + Len(s) : k \in 1 .. Len(t)
    BY <1>1
  <2>2. QED
    BY <2>1, ElementOfSeq
<1>3. /\ r \in Seq(S)
      /\ Len(r) = IF o + 1 <= o + Len(s) THEN o + Len(s) - (o + 1) + 1 ELSE 0
      /\ \A k \in 1 .. o + Len(s) - (o + 1) + 1 : r[k] = t[(o + 1) + k - 1]
  BY <1>1, <1>2, SubSeqProperties
<1> HIDE DEF r
<1>4. Len(r) = Len(s) /\ \A k \in 1 .. Len(s) : r[k] = t[o + k]
  <2>1. o + Len(s) - (o + 1) + 1 = Len(s)
    BY <1>1
  <2>2. \A k \in 1 .. Len(s) : (o + 1) + k - 1 = o + k
    BY <1>1
  <2>3. Len(r) = Len(s)
    BY <1>1, <1>3
  <2>4. QED
    BY <1>3, <2>1, <2>2, <2>3
<1>5. (\A p \in 1 .. Len(s) : t[o + p] = s[p]) => r = s
  BY <1>3, <1>4, SeqEqual
<1>6. QED
  BY <1>4, <1>5 DEF r

LEMMA AtItself ==
  ASSUME NEW S, NEW t \in Seq(S)
  PROVE  At(t, 0, t)
<1>1. Len(t) \in Nat
  BY LenProperties
<1>2. \A p \in 1 .. Len(t) : 0 + p = p
  BY <1>1
<1>3. QED
  BY <1>1, <1>2 DEF At

LEMMA AtConcat ==
  ASSUME NEW S, NEW a \in Seq(S), NEW b \in Seq(S), NEW t \in Seq(S), NEW o \in Nat
  PROVE  /\ At(t, o, a \o b) <=> At(t, o, a) /\ At(t, o + Len(a), b)
         /\ a \o b \in Seq(S) /\ Len(a \o b) = Len(a) + Len(b)
<1>1. Len(t) \in Nat /\ Len(a) \in Nat /\ Len(b) \in Nat
  BY LenProperties
<1>2. /\ a \o b \in Seq(S) /\ Len(a \o b) = Len(a) + Len(b)
      /\ \A k \in 1 .. Len(a) + Len(b) :
           (a \o b)[k] = IF k <= Len(a) THEN a[k] ELSE b[k - Len(a)]
  BY ConcatProperties
<1>3. ASSUME At(t, o, a \o b)
      PROVE  At(t, o, a) /\ At(t, o + Len(a), b)
  <2>1. \A p \in 1 .. Len(a) : t[o + p] = a[p]
    <3> SUFFICES ASSUME NEW p \in 1 .. Len(a) PROVE t[o + p] = a[p]
      OBVIOUS
    <3>1. p \in 1 .. Len(a) + Len(b) /\ p <= Len(a)
      BY <1>1
    <3>2. QED
      BY <1>2, <1>3, <3>1 DEF At
  <2>2. \A p \in 1 .. Len(b) : t[o + Len(a) + p] = b[p]
    <3> SUFFICES ASSUME NEW p \in 1 .. Len(b) PROVE t[o + Len(a) + p] = b[p]
      OBVIOUS
    <3>1. /\ Len(a) + p \in 1 .. Len(a) + Len(b) /\ ~(Len(a) + p <= Len(a))
          /\ Len(a) + p - Len(a) = p /\ o + Len(a) + p = o + (Len(a) + p)
      BY <1>1
    <3>2. QED
      BY <1>2, <1>3, <3>1 DEF At
  <2>3. o + Len(a) <= Len(t) /\ o + Len(a) \in Nat /\ o + Len(a) + Len(b) <= Len(t)
    BY <1>1, <1>2, <1>3 DEF At
  <2>4. QED
    BY <2>1, <2>2, <2>3 DEF At
<1>4. ASSUME At(t, o, a), At(t, o + Len(a), b)
      PROVE  At(t, o, a \o b)
  <2>1. \A p \in 1 .. Len(a) + Len(b) : t[o + p] = (a \o b)[p]
    <3> SUFFICES ASSUME NEW p \in 1 .. Len(a) + Len(b) PROVE t[o + p] = (a \o b)[p]
      OBVIOUS
    <3>1. CASE p <= Len(a)
      <4>1. p \in 1 .. Len(a)
        BY <1>1, <3>1
      <4>2. QED
        BY <1>2, <1>4, <3>1, <4>1 DEF At
    <3>2. CASE ~(p <= Len(a))
      <4>1. p - Len(a) \in 1 .. Len(b) /\ o + Len(a) + (p - Len(a)) = o + p
        BY <1>1, <3>2
      <4>2. t[o + Len(a) + (p - Len(a))] = b[p - Len(a)]
        BY <1>4, <4>1 DEF At
      <4>3. QED
        BY <1>2, <3>2, <4>1, <4>2
    <3>3. QED
      BY <3>1, <3>2
  <2>2. o + (Len(a) + Len(b)) <= Len(t)
    BY <1>1, <1>4 DEF At
  <2>3. QED
    BY <1>2, <2>1, <2>2 DEF At
<1>5. QED
  BY <1>2, <1>3, <1>4

LEMMA AtInside ==
  ASSUME NEW S, NEW t \in Seq(S), NEW s \in Seq(S), NEW r \in Seq(S),
         NEW o \in Nat, NEW p \in Nat, At(t, o, s), At(s, p, r)
  PROVE  At(t, o + p, r)
<1>1. Len(t) \in Nat /\ Len(s) \in Nat /\ Len(r) \in Nat
  BY LenProperties
<1>2. ASSUME NEW k \in 1 .. Len(r) PROVE t[o + p + k] = r[k]
  <2>1. p + k \in 1 .. Len(s) /\ o + p + k = o + (p + k)
    BY <1>1 DEF At
  <2>2. t[o + (p + k)] = s[p + k] /\ s[p + k] = r[k]
    BY <2>1 DEF At
  <2>3. QED
    BY <2>1, <2>2
<1>3. o + p \in Nat /\ o + p + Len(r) <= Len(t)
  BY <1>1 DEF At
<1>4. QED
  BY <1>2, <1>3 DEF At

(* One sign.                                                               *)
LEMMA OneSign ==
  ASSUME NEW S, NEW c \in S
  PROVE  <<c>> \in Seq(S) /\ Len(<<c>>) = 1 /\ <<c>>[1] = c
OBVIOUS

LEMMA AtSign ==
  ASSUME NEW t, NEW o, NEW c, At(t, o, <<c>>)
  PROVE  t[o + 1] = c /\ o + 1 <= Len(t) /\ o \in Nat
<1>1. Len(<<c>>) = 1 /\ <<c>>[1] = c /\ 1 \in 1 .. Len(<<c>>)
  OBVIOUS
<1>2. QED
  BY <1>1 DEF At

-----------------------------------------------------------------------------
(* The least of some places.                                               *)

LEMMA LeastPlace ==
  ASSUME NEW places, places \subseteq Nat, NEW end
  PROVE  /\ places = {} => least(places, end) = end
         /\ places # {} => /\ least(places, end) \in places
                           /\ \A x \in places : least(places, end) <= x
<1>1. CASE places = {}
  BY <1>1 DEF least
<1>2. CASE places # {}
  <2>1. \E m \in places : \A x \in places : m <= x
    BY <1>2, SmallestMember
  <2>2. QED
    BY <1>2, <2>1 DEF least
<1>3. QED
  BY <1>1, <1>2

LEMMA LeastIs ==
  ASSUME NEW places, places \subseteq Nat, NEW end, NEW m \in places, \A x \in places : m <= x
  PROVE  least(places, end) = m
<1>1. least(places, end) \in places /\ least(places, end) <= m
  BY LeastPlace
<1>2. m <= least(places, end) /\ m \in Nat /\ least(places, end) \in Nat
  BY <1>1
<1>3. QED
  BY <1>1, <1>2

LEMMA FirstIs ==
  ASSUME NEW text, Len(text) \in Nat, NEW c, NEW k \in Nat, NEW m \in k .. Len(text), text[m] = c,
         \A x \in k .. m - 1 : text[x] # c
  PROVE  first(text, c, k) = m
<1> DEFINE places == {x \in k .. Len(text) : text[x] = c}
<1>1. places \subseteq Nat /\ m \in places
  OBVIOUS
<1>2. \A x \in places : m <= x
  <2> SUFFICES ASSUME NEW x \in places, ~(m <= x) PROVE FALSE
    OBVIOUS
  <2>1. x \in k .. m - 1
    OBVIOUS
  <2>2. QED
    BY <2>1
<1>3. first(text, c, k) = least(places, Len(text) + 1)
  BY DEF first
<1> HIDE DEF places
<1>4. QED
  BY <1>1, <1>2, <1>3, LeastIs

LEMMA FirstIsEnd ==
  ASSUME NEW text, NEW c, NEW k, \A x \in k .. Len(text) : text[x] # c
  PROVE  first(text, c, k) = Len(text) + 1
<1>1. {x \in k .. Len(text) : text[x] = c} = {}
  OBVIOUS
<1>2. QED
  BY <1>1 DEF first, least

-----------------------------------------------------------------------------
(* Plain alternatives.                                                     *)

Sign == STRING \cup Signs

LEMMA TextIsSigns ==
  ASSUME NEW t \in Text
  PROVE  /\ t \in Seq(Sign) /\ Len(t) \in Nat /\ DOMAIN t = 1 .. Len(t)
         /\ \A k \in 1 .. Len(t) : t[k] \notin Signs /\ t[k] \in STRING
<1>1. t \in Seq(STRING \ Signs)
  BY DEF Text
<1>2. STRING \ Signs \subseteq Sign
  BY DEF Sign
<1>3. QED
  BY <1>1, <1>2, SeqMonotonic, LenProperties, ElementOfSeq

LEMMA BoundMeaning ==
  ASSUME NEW text \in Seq(STRING), NEW t \in Text, NEW c \in {"<", ">"}, NEW tcp_options
  PROVE  match_plain(text, <<c>> \o t, tcp_options) =
           IF Fits(ValueOf(t))
           THEN Truth(Fits(ValueOf(text)) /\ IF c = "<" THEN ValueOf(text) < ValueOf(t)
                                                        ELSE ValueOf(text) > ValueOf(t))
           ELSE -1
<1>1. c \in Sign
  BY DEF Sign, Signs
<1>2. t \in Seq(Sign) /\ <<c>> \in Seq(Sign) /\ Len(<<c>>) = 1 /\ <<c>>[1] = c /\ Len(t) \in Nat
  BY <1>1, OneSign, TextIsSigns
<1> DEFINE e == <<c>> \o t
<1>3. /\ e \in Seq(Sign) /\ Len(e) = 1 + Len(t)
      /\ \A k \in 1 .. 1 + Len(t) : e[k] = IF k <= 1 THEN <<c>>[k] ELSE t[k - 1]
  BY <1>2, ConcatProperties
<1> HIDE DEF e
<1>4. e # <<>> /\ e[1] = c
  BY <1>2, <1>3
<1>5. Tail(e) = t
  <2>1. /\ Tail(e) \in Seq(Sign) /\ Len(Tail(e)) = Len(e) - 1
        /\ \A k \in 1 .. Len(Tail(e)) : Tail(e)[k] = e[k + 1]
    BY <1>3, <1>4, HeadTailProperties
  <2>2. Len(Tail(e)) = Len(t)
    BY <1>2, <1>3, <2>1
  <2>3. \A k \in 1 .. Len(t) : Tail(e)[k] = t[k]
    <3> SUFFICES ASSUME NEW k \in 1 .. Len(t) PROVE Tail(e)[k] = t[k]
      OBVIOUS
    <3>1. k + 1 \in 1 .. 1 + Len(t) /\ ~(k + 1 <= 1) /\ (k + 1) - 1 = k
      BY <1>2
    <3>2. QED
      BY <1>3, <2>1, <2>2, <3>1
  <2>4. QED
    BY <1>2, <2>1, <2>2, <2>3, SeqEqual
<1>6. match_plain(text, e, tcp_options) = MatchBound(text, e)
  BY <1>4 DEF match_plain
<1>7. /\ parse_hex_slice(t) = (IF Fits(ValueOf(t)) THEN ValueOf(t) ELSE -1)
      /\ ValueOf(t) \in Nat \cup {-1}
  BY <1>2, ParseIsValue
<1>8. /\ parse_hex_slice(text) = (IF Fits(ValueOf(text)) THEN ValueOf(text) ELSE -1)
      /\ ValueOf(text) \in Nat \cup {-1}
  BY ParseIsValue
<1>9. Fits(ValueOf(t)) => ValueOf(t) # -1
  BY <1>7, UintAssumption DEF Fits
<1>10. Fits(ValueOf(text)) => ValueOf(text) # -1
  BY <1>8, UintAssumption DEF Fits
<1>11. QED
  BY <1>4, <1>5, <1>6, <1>7, <1>8, <1>9, <1>10 DEF MatchBound, Truth, e

LEMMA SpanMeaning ==
  ASSUME NEW text \in Seq(STRING), NEW t \in Text, NEW u \in Text, NEW tcp_options
  PROVE  match_plain(text, t \o <<"-">> \o u, tcp_options) =
           IF Fits(ValueOf(t)) /\ Fits(ValueOf(u)) /\ ValueOf(t) <= ValueOf(u)
           THEN Truth(/\ Fits(ValueOf(text))
                      /\ ValueOf(t) <= ValueOf(text) /\ ValueOf(text) <= ValueOf(u))
           ELSE -1
<1>1. "-" \in Sign
  BY DEF Sign, Signs
<1>2. /\ t \in Seq(Sign) /\ Len(t) \in Nat /\ u \in Seq(Sign) /\ Len(u) \in Nat
      /\ <<"-">> \in Seq(Sign) /\ Len(<<"-">>) = 1
  BY <1>1, OneSign, TextIsSigns
<1> DEFINE d == t \o <<"-">>
           e == d \o u
<1>3. d \in Seq(Sign) /\ Len(d) = Len(t) + 1
  BY <1>2, ConcatProperties
<1>4. e \in Seq(Sign) /\ Len(e) = Len(t) + 1 + Len(u)
  BY <1>2, <1>3, ConcatProperties
<1>5. At(e, 0, t) /\ At(e, Len(t), <<"-">>) /\ At(e, Len(t) + 1, u)
  <2> HIDE DEF e
  <2>1. At(e, 0, e)
    BY <1>4, AtItself
  <2>2. At(e, 0, d) /\ At(e, 0 + Len(d), u)
    <3> HIDE DEF d
    <3>1. At(e, 0, d \o u)
      BY <2>1 DEF e
    <3>2. QED
      BY <1>2, <1>3, <1>4, <3>1, AtConcat
  <2>3. At(e, 0, t) /\ At(e, 0 + Len(t), <<"-">>)
    BY <1>2, <1>4, <2>2, AtConcat
  <2>4. 0 + Len(t) = Len(t) /\ 0 + Len(d) = Len(t) + 1
    BY <1>2, <1>3
  <2>5. QED
    BY <2>2, <2>3, <2>4
<1> HIDE DEF d, e
<1>6. e[Len(t) + 1] = "-" /\ Len(t) + 1 <= Len(e)
  BY <1>5, AtSign
<1>7. \A k \in 1 .. Len(t) : e[k] = t[k] /\ e[k] \notin Signs
  <2>1. \A k \in 1 .. Len(t) : e[0 + k] = t[k]
    BY <1>5 DEF At
  <2>2. QED
    BY <1>2, <2>1, TextIsSigns
<1>8. e # <<>> /\ e[1] \notin {"<", ">"} /\ "-" \in Chars(e)
  <2>1. Len(t) + 1 \in 1 .. Len(e) /\ DOMAIN e = 1 .. Len(e)
    BY <1>2, <1>4, <1>6
  <2>2. "-" \in Chars(e) /\ e # <<>>
    BY <1>6, <2>1 DEF Chars
  <2>3. CASE Len(t) = 0
    BY <1>6, <2>2, <2>3
  <2>4. CASE Len(t) # 0
    <3>1. 1 \in 1 .. Len(t)
      BY <1>2, <2>4
    <3>2. QED
      BY <1>7, <2>2, <3>1 DEF Signs
  <2>5. QED
    BY <1>2, <2>3, <2>4
<1>9. first(e, "-", 1) = Len(t) + 1
  <2>1. Len(e) \in Nat /\ Len(t) + 1 \in 1 .. Len(e) /\ (Len(t) + 1) - 1 = Len(t)
    BY <1>2, <1>4
  <2>2. \A x \in 1 .. (Len(t) + 1) - 1 : e[x] # "-"
    BY <1>7, <2>1 DEF Signs
  <2>3. QED
    BY <1>6, <2>1, <2>2, FirstIs
<1>10. SubSeq(e, 1, (Len(t) + 1) - 1) = t
  <2>1. SubSeq(e, 0 + 1, 0 + Len(t)) = t
    BY <1>2, <1>4, <1>5, AtIsSubSeq
  <2>2. 0 + 1 = 1 /\ 0 + Len(t) = (Len(t) + 1) - 1
    BY <1>2
  <2>3. QED
    BY <2>1, <2>2
<1>11. SubSeq(e, (Len(t) + 1) + 1, Len(e)) = u
  <2>1. SubSeq(e, (Len(t) + 1) + 1, (Len(t) + 1) + Len(u)) = u
    BY <1>2, <1>4, <1>5, AtIsSubSeq
  <2>2. QED
    BY <1>4, <2>1
<1>12. match_plain(text, e, tcp_options) = MatchRange(text, e)
  BY <1>8 DEF match_plain
<1>13. /\ parse_hex_slice(t) = (IF Fits(ValueOf(t)) THEN ValueOf(t) ELSE -1)
       /\ ValueOf(t) \in Nat \cup {-1}
  BY <1>2, ParseIsValue
<1>14. /\ parse_hex_slice(u) = (IF Fits(ValueOf(u)) THEN ValueOf(u) ELSE -1)
       /\ ValueOf(u) \in Nat \cup {-1}
  BY <1>2, ParseIsValue
<1>15. /\ parse_hex_slice(text) = (IF Fits(ValueOf(text)) THEN ValueOf(text) ELSE -1)
       /\ ValueOf(text) \in Nat \cup {-1}
  BY ParseIsValue
<1>16. \A v \in Nat \cup {-1} : Fits(v) => v # -1
  BY UintAssumption DEF Fits
<1> DEFINE x == ValueOf(t)
           y == ValueOf(u)
           z == ValueOf(text)
<1>17. MatchRange(text, e) =
         LET lower == parse_hex_slice(t)
             upper == parse_hex_slice(u)
             value == parse_hex_slice(text)
         IN  IF lower = -1 \/ upper = -1 \/ lower > upper THEN -1
             ELSE Truth(value # -1 /\ lower <= value /\ value <= upper)
  BY <1>9, <1>10, <1>11 DEF MatchRange
<1> HIDE DEF x, y, z
<1>18. /\ parse_hex_slice(t) = (IF Fits(x) THEN x ELSE -1) /\ x \in Nat \cup {-1}
       /\ parse_hex_slice(u) = (IF Fits(y) THEN y ELSE -1) /\ y \in Nat \cup {-1}
       /\ parse_hex_slice(text) = (IF Fits(z) THEN z ELSE -1) /\ z \in Nat \cup {-1}
  BY <1>13, <1>14, <1>15 DEF x, y, z
<1>19. MatchRange(text, e) = IF Fits(x) /\ Fits(y) /\ x <= y
                             THEN Truth(Fits(z) /\ x <= z /\ z <= y) ELSE -1
  BY <1>16, <1>17, <1>18 DEF Truth
<1>20. QED
  BY <1>12, <1>19 DEF d, e, x, y, z

LEMMA LiteralMeaning ==
  ASSUME NEW text \in Seq(STRING), NEW t \in Text, NEW tcp_options \in BOOLEAN
  PROVE  match_plain(text, t, tcp_options) =
           IF "~" \notin Chars(t)
           THEN Truth(text = t \/ (~tcp_options /\ Fits(ValueOf(text)) /\ ValueOf(text) = ValueOf(t)))
           ELSE -1
<1>1. t \in Seq(Sign) /\ Len(t) \in Nat /\ DOMAIN t = 1 .. Len(t)
  BY TextIsSigns
<1>2. /\ parse_hex_slice(t) = (IF Fits(ValueOf(t)) THEN ValueOf(t) ELSE -1)
      /\ ValueOf(t) \in Nat \cup {-1}
  BY <1>1, ParseIsValue
<1>3. /\ parse_hex_slice(text) = (IF Fits(ValueOf(text)) THEN ValueOf(text) ELSE -1)
      /\ ValueOf(text) \in Nat \cup {-1}
  BY ParseIsValue
<1>4. \A v \in Nat \cup {-1} : Fits(v) => v # -1
  BY UintAssumption DEF Fits
<1>5. CASE t = <<>>
  <2>1. ValueOf(t) = -1 /\ Chars(t) = {}
    BY <1>5, ValueIsValued DEF Chars
  <2>2. Fits(ValueOf(text)) => ValueOf(text) # ValueOf(t)
    BY <1>3, <1>4, <2>1
  <2>3. QED
    BY <1>5, <2>1, <2>2 DEF match_plain, Truth
<1>6. CASE t # <<>>
  <2>1. \A k \in 1 .. Len(t) : t[k] \notin Signs
    BY TextIsSigns
  <2>2. 1 \in 1 .. Len(t)
    BY <1>1, <1>6
  <2>3. t[1] \notin {"<", ">"} /\ "-" \notin Chars(t) /\ "<" \notin Chars(t) /\ ">" \notin Chars(t)
    BY <1>1, <2>1, <2>2 DEF Chars, Signs
  <2>4. Chars(t) \cap {"~", "<", ">"} # {} <=> "~" \in Chars(t)
    BY <2>3
  <2>5. match_plain(text, t, tcp_options) =
          IF "~" \in Chars(t) THEN -1 ELSE MatchLiteral(text, t, tcp_options)
    BY <1>6, <2>3, <2>4 DEF match_plain
  <2>6. MatchLiteral(text, t, tcp_options) =
          Truth(text = t \/ (~tcp_options /\ Fits(ValueOf(text)) /\ ValueOf(text) = ValueOf(t)))
    <3>1. CASE tcp_options
      BY <3>1 DEF MatchLiteral, Truth
    <3>2. CASE ~tcp_options /\ Fits(ValueOf(text)) /\ Fits(ValueOf(t))
      BY <1>2, <1>3, <1>4, <3>2 DEF MatchLiteral, Truth
    <3>3. CASE ~tcp_options /\ ~(Fits(ValueOf(text)) /\ Fits(ValueOf(t)))
      <4>1. parse_hex_slice(text) = -1 \/ parse_hex_slice(t) = -1
        BY <1>2, <1>3, <3>3
      <4>2. MatchLiteral(text, t, tcp_options) = Truth(text = t)
        BY <3>3, <4>1 DEF MatchLiteral
      <4>3. ~(Fits(ValueOf(text)) /\ ValueOf(text) = ValueOf(t))
        BY <3>3
      <4>4. QED
        BY <4>2, <4>3 DEF Truth
    <3>4. QED
      BY <3>1, <3>2, <3>3
  <2>7. QED
    BY <2>5, <2>6
<1>7. QED
  BY <1>5, <1>6

(* A plain alternative is refused exactly when it is not valid, and else   *)
(* matches what it denotes; it is written without brackets or bars.        *)
LEMMA PlainMeaning ==
  ASSUME NEW a \in Plain, NEW text \in Seq(STRING), NEW tcp_options \in BOOLEAN
  PROVE  match_plain(text, WrittenPlain(a), tcp_options) =
           IF ValidPlain(a) THEN Truth(DenotesPlain(a, text, tcp_options)) ELSE -1
<1>1. CASE a.kind = "literal" /\ a.text \in Text
  <2>1. WrittenPlain(a) = a.text
    BY <1>1 DEF WrittenPlain
  <2>2. ValidPlain(a) <=> "~" \notin Chars(a.text)
    BY <1>1 DEF ValidPlain
  <2>3. DenotesPlain(a, text, tcp_options) <=>
          \/ text = a.text
          \/ ~tcp_options /\ Fits(ValueOf(text)) /\ ValueOf(text) = ValueOf(a.text)
    BY <1>1 DEF DenotesPlain
  <2>4. QED
    BY <1>1, <2>1, <2>2, <2>3, LiteralMeaning DEF Truth
<1>2. CASE a.kind = "below" /\ a.text \in Text
  <2>1. WrittenPlain(a) = <<"<">> \o a.text
    BY <1>2 DEF WrittenPlain
  <2>2. ValidPlain(a) <=> Fits(ValueOf(a.text))
    BY <1>2 DEF ValidPlain
  <2>3. DenotesPlain(a, text, tcp_options) <=> Fits(ValueOf(text)) /\ ValueOf(text) < ValueOf(a.text)
    BY <1>2 DEF DenotesPlain
  <2>4. QED
    BY <1>2, <2>1, <2>2, <2>3, BoundMeaning DEF Truth
<1>3. CASE a.kind = "above" /\ a.text \in Text
  <2>1. WrittenPlain(a) = <<">">> \o a.text
    BY <1>3 DEF WrittenPlain
  <2>2. ValidPlain(a) <=> Fits(ValueOf(a.text))
    BY <1>3 DEF ValidPlain
  <2>3. DenotesPlain(a, text, tcp_options) <=> Fits(ValueOf(text)) /\ ValueOf(text) > ValueOf(a.text)
    BY <1>3 DEF DenotesPlain
  <2>4. QED
    BY <1>3, <2>1, <2>2, <2>3, BoundMeaning DEF Truth
<1>4. CASE a.kind = "span" /\ a.text \in Text /\ a.upper \in Text
  <2>1. WrittenPlain(a) = a.text \o <<"-">> \o a.upper
    BY <1>4 DEF WrittenPlain
  <2>2. ValidPlain(a) <=> /\ Fits(ValueOf(a.text)) /\ Fits(ValueOf(a.upper))
                          /\ ValueOf(a.text) <= ValueOf(a.upper)
    BY <1>4 DEF ValidPlain
  <2>3. DenotesPlain(a, text, tcp_options) <=>
          /\ Fits(ValueOf(text))
          /\ ValueOf(a.text) <= ValueOf(text) /\ ValueOf(text) <= ValueOf(a.upper)
    BY <1>4 DEF DenotesPlain
  <2>4. QED
    BY <1>4, <2>1, <2>2, <2>3, SpanMeaning DEF Truth
<1>5. QED
  BY <1>1, <1>2, <1>3, <1>4 DEF Plain

(* The signs that an alternative is cut at.                                *)
Cuts == {"[", "]", "|"}

LEMMA PlainText ==
  ASSUME NEW a \in Plain
  PROVE  /\ WrittenPlain(a) \in Seq(Sign)
         /\ \A k \in 1 .. Len(WrittenPlain(a)) : WrittenPlain(a)[k] \notin Cuts
<1>1. \A t \in Text : /\ t \in Seq(Sign \ Cuts) /\ Len(t) \in Nat
  BY DEF Text, Sign, Signs, Cuts
<1>2. \A c \in {"<", ">", "-"} : <<c>> \in Seq(Sign \ Cuts)
  BY DEF Sign, Signs, Cuts
<1>3. ASSUME NEW s \in Seq(Sign \ Cuts), NEW t \in Seq(Sign \ Cuts)
      PROVE  s \o t \in Seq(Sign \ Cuts)
  BY ConcatProperties
<1>4. WrittenPlain(a) \in Seq(Sign \ Cuts)
  <2>1. CASE a.kind = "literal" /\ a.text \in Text
    BY <1>1, <2>1 DEF WrittenPlain
  <2>2. CASE a.kind = "below" /\ a.text \in Text
    BY <1>1, <1>2, <1>3, <2>2 DEF WrittenPlain
  <2>3. CASE a.kind = "above" /\ a.text \in Text
    BY <1>1, <1>2, <1>3, <2>3 DEF WrittenPlain
  <2>4. CASE a.kind = "span" /\ a.text \in Text /\ a.upper \in Text
    <3>1. a.text \o <<"-">> \in Seq(Sign \ Cuts)
      BY <1>1, <1>2, <1>3, <2>4
    <3>2. (a.text \o <<"-">>) \o a.upper \in Seq(Sign \ Cuts)
      BY <1>1, <1>3, <2>4, <3>1
    <3>3. QED
      BY <2>4, <3>2 DEF WrittenPlain
  <2>5. QED
    BY <2>1, <2>2, <2>3, <2>4 DEF Plain
<1> DEFINE w == WrittenPlain(a)
           R == Sign \ Cuts
<1>5. R \subseteq Sign /\ w \in Seq(R)
  BY <1>4
<1> HIDE DEF w, R
<1>6. w \in Seq(Sign) /\ \A k \in 1 .. Len(w) : w[k] \in R
  BY <1>5, SeqMonotonic, ElementOfSeq
<1>7. QED
  BY <1>6 DEF w, R
-----------------------------------------------------------------------------
(* Texts one behind the other: where each of them ends.                    *)

Building(texts, f) ==
  [n \in 0 .. Len(texts) |-> IF n = 0 THEN <<>> ELSE f[n - 1] \o texts[n]]
Built(texts) == CHOOSE f : f = Building(texts, f)

LEMMA TogetherIsBuilt ==
  ASSUME NEW texts
  PROVE  Together(texts) = Built(texts)[Len(texts)]
BY Zenon DEF Together, Building, Built

LEMMA BuiltSteps ==
  ASSUME NEW R, NEW texts \in Seq(Seq(R))
  PROVE  /\ Built(texts)[0] = <<>>
         /\ \A k \in 1 .. Len(texts) : Built(texts)[k] = Built(texts)[k - 1] \o texts[k]
         /\ \A k \in 0 .. Len(texts) : Built(texts)[k] \in Seq(R)
<1>0. Len(texts) \in Nat /\ \A k \in 1 .. Len(texts) : texts[k] \in Seq(R)
  BY LenProperties, ElementOfSeq
<1> DEFINE S == Seq(R)
           c == <<>>
           g == [x \in Nat \X S |->
                   IF x[1] + 1 \in 1 .. Len(texts) THEN x[2] \o texts[x[1] + 1] ELSE <<>>]
<1>1. g \in StepOn(S)
  <2>1. ASSUME NEW k \in 1 .. Len(texts), NEW v \in S PROVE v \o texts[k] \in S
    <3>1. texts[k] \in Seq(R) /\ v \in Seq(R)
      BY <1>0
    <3>2. QED
      BY <3>1, ConcatProperties
  <2>2. <<>> \in S
    BY EmptySeq
  <2> HIDE DEF S
  <2>3. QED
    BY <2>1, <2>2 DEF StepOn
<1>2. \A k \in Nat, v \in S : k + 1 \in 1 .. Len(texts) => g[<<k, v>>] = v \o texts[k + 1]
  OBVIOUS
<1>a. c \in S
  BY EmptySeq
<1> HIDE DEF g, S, c
<1>b. PICK h : Recursive(h, S, c, Len(texts), g)
  BY <1>0, <1>1, <1>a, FiniteRecursion
<1>3. /\ h \in [0 .. Len(texts) -> S] /\ h[0] = c
      /\ \A n \in 1 .. Len(texts) : h[n] = g[<<n - 1, h[n - 1]>>]
  BY <1>b DEF Recursive
<1>4. \A n \in 1 .. Len(texts) : h[n] = h[n - 1] \o texts[n]
  <2> SUFFICES ASSUME NEW n \in 1 .. Len(texts) PROVE h[n] = h[n - 1] \o texts[n]
    OBVIOUS
  <2>1. n - 1 \in Nat /\ n - 1 \in 0 .. Len(texts) /\ (n - 1) + 1 = n
    BY <1>0
  <2>2. h[n - 1] \in S
    BY <1>3, <2>1
  <2>3. QED
    BY <1>2, <1>3, <2>1, <2>2
<1>5. h = Building(texts, h)
  <2>1. \A n \in 0 .. Len(texts) : n # 0 => n \in 1 .. Len(texts)
    BY <1>0
  <2>2. h = [n \in 0 .. Len(texts) |-> h[n]]
    BY <1>3
  <2>3. QED
    BY <1>3, <1>4, <2>1, <2>2 DEF Building, c
<1>6. Built(texts) = Building(texts, Built(texts))
  BY <1>5 DEF Built
<1>7. Built(texts)[0] = <<>>
  BY <1>0, <1>6 DEF Building
<1>8. \A k \in 1 .. Len(texts) : Built(texts)[k] = Built(texts)[k - 1] \o texts[k]
  <2> DEFINE b == Built(texts)
  <2> HIDE DEF b
  <2>1. b = Building(texts, b)
    BY <1>6 DEF b
  <2>2. \A k \in 1 .. Len(texts) : k \in 0 .. Len(texts) /\ k # 0
    BY <1>0
  <2>3. \A k \in 0 .. Len(texts) : b[k] = IF k = 0 THEN <<>> ELSE b[k - 1] \o texts[k]
    BY <2>1 DEF Building
  <2>4. QED
    BY <2>2, <2>3 DEF b
<1> DEFINE T == {n \in Nat : n <= Len(texts) => Built(texts)[n] \in Seq(R)}
<1>9. 0 \in T
  BY <1>7, EmptySeq
<1>10. ASSUME NEW n \in Nat, n \in T PROVE n + 1 \in T
  <2> SUFFICES ASSUME n + 1 <= Len(texts) PROVE Built(texts)[n + 1] \in Seq(R)
    OBVIOUS
  <2>1. n + 1 \in 1 .. Len(texts) /\ (n + 1) - 1 = n /\ Built(texts)[n] \in Seq(R)
    BY <1>0, <1>10
  <2>2. Built(texts)[n + 1] = Built(texts)[n] \o texts[n + 1] /\ texts[n + 1] \in Seq(R)
    BY <1>0, <1>8, <2>1
  <2>3. QED
    BY <2>1, <2>2, ConcatProperties
<1> HIDE DEF T
<1>11. \A n \in Nat : n \in T
  BY <1>9, <1>10, Induction
<1>12. \A k \in 0 .. Len(texts) : Built(texts)[k] \in Seq(R)
  BY <1>0, <1>11 DEF T
<1>13. QED
  BY <1>7, <1>8, <1>12

(* edge[k] is where the first k texts end.                                 *)
Edges(texts, edge) ==
  /\ edge \in [0 .. Len(texts) -> Nat] /\ edge[0] = 0
  /\ \A k \in 1 .. Len(texts) : edge[k] = edge[k - 1] + Len(texts[k])

Laid(t, texts, edge) ==
  /\ Edges(texts, edge)
  /\ \A k \in 1 .. Len(texts) : At(t, edge[k - 1], texts[k])

LEMMA TogetherLaid ==
  ASSUME NEW R, NEW texts \in Seq(Seq(R))
  PROVE  /\ Together(texts) \in Seq(R)
         /\ \E edge : /\ Laid(Together(texts), texts, edge)
                      /\ Len(Together(texts)) = edge[Len(texts)]
<1>0. Len(texts) \in Nat /\ \A k \in 1 .. Len(texts) : texts[k] \in Seq(R)
  BY LenProperties, ElementOfSeq
<1> DEFINE b == Built(texts)
           n == Len(texts)
           edge == [k \in 0 .. n |-> Len(b[k])]
<1>1. /\ b[0] = <<>>
      /\ \A k \in 1 .. n : b[k] = b[k - 1] \o texts[k]
      /\ \A k \in 0 .. n : b[k] \in Seq(R)
  BY BuiltSteps
<1>2. Together(texts) = b[n] /\ n \in Nat
  BY <1>0, TogetherIsBuilt
<1> HIDE DEF b
<1>3. Edges(texts, edge)
  <2>1. \A k \in 0 .. n : Len(b[k]) \in Nat
    BY <1>1, LenProperties
  <2>2. Len(b[0]) = 0
    BY <1>1
  <2>3. ASSUME NEW k \in 1 .. n PROVE Len(b[k]) = Len(b[k - 1]) + Len(texts[k])
    <3>1. k - 1 \in 0 .. n
      BY <1>2
    <3>2. b[k - 1] \in Seq(R) /\ texts[k] \in Seq(R)
      BY <1>0, <1>1, <3>1
    <3>3. Len(b[k - 1] \o texts[k]) = Len(b[k - 1]) + Len(texts[k])
      BY <3>2, ConcatProperties
    <3>4. b[k] = b[k - 1] \o texts[k]
      BY <1>1
    <3>5. QED
      BY <3>3, <3>4
  <2>4. \A k \in 1 .. n : k \in 0 .. n /\ k - 1 \in 0 .. n
    BY <1>2
  <2>5. 0 \in 0 .. n
    BY <1>2
  <2>6. QED
    BY <2>1, <2>2, <2>3, <2>4, <2>5 DEF Edges
<1> DEFINE T == {d \in Nat : \A k \in 0 .. n : k + d <= n => At(b[k + d], 0, b[k])}
<1>4. 0 \in T
  <2>1. \A k \in 0 .. n : At(b[k], 0, b[k])
    BY <1>1, AtItself
  <2>2. \A k \in 0 .. n : k + 0 = k
    BY <1>2
  <2>3. QED
    BY <2>1, <2>2
<1>5. ASSUME NEW d \in Nat, d \in T PROVE d + 1 \in T
  <2> SUFFICES ASSUME NEW k \in 0 .. n, k + (d + 1) <= n PROVE At(b[k + (d + 1)], 0, b[k])
    OBVIOUS
  <2> DEFINE m == k + d
  <2>1. m \in 0 .. n /\ m + 1 \in 0 .. n /\ m + 1 \in 1 .. n /\ (m + 1) - 1 = m
        /\ k + (d + 1) = m + 1 /\ k + d <= n
    BY <1>2
  <2>2. b[m + 1] = b[m] \o texts[m + 1]
    BY <1>1, <2>1
  <2>3. b[m] \in Seq(R) /\ b[m + 1] \in Seq(R) /\ b[k] \in Seq(R) /\ texts[m + 1] \in Seq(R)
    BY <1>0, <1>1, <2>1
  <2>4. At(b[m + 1], 0, b[m] \o texts[m + 1])
    BY <2>2, <2>3, AtItself
  <2>5. At(b[m + 1], 0, b[m])
    BY <2>3, <2>4, AtConcat
  <2>6. At(b[m], 0, b[k])
    BY <1>5, <2>1
  <2> HIDE DEF m
  <2>7. At(b[m + 1], 0 + 0, b[k])
    BY <2>3, <2>5, <2>6, AtInside
  <2>8. QED
    BY <2>1, <2>7
<1> HIDE DEF T
<1>6. \A d \in Nat : d \in T
  BY <1>4, <1>5, Induction
<1>7. ASSUME NEW k \in 1 .. n PROVE At(b[n], edge[k - 1], texts[k])
  <2>1. k \in 0 .. n /\ k - 1 \in 0 .. n /\ n - k \in Nat /\ k + (n - k) = n /\ n \in 0 .. n
    BY <1>2
  <2>2. At(b[n], 0, b[k])
    <3> DEFINE d == n - k
    <3>1. d \in T /\ k + d = n
      BY <1>6, <2>1
    <3> HIDE DEF d
    <3>2. At(b[k + d], 0, b[k])
      BY <2>1, <3>1 DEF T
    <3>3. QED
      BY <3>1, <3>2
  <2>3. b[k] = b[k - 1] \o texts[k]
    BY <1>1
  <2>4. b[n] \in Seq(R) /\ b[k - 1] \in Seq(R) /\ texts[k] \in Seq(R)
    BY <1>0, <1>1, <2>1
  <2>5. At(b[n], 0 + Len(b[k - 1]), texts[k])
    BY <2>2, <2>3, <2>4, AtConcat
  <2>6. edge[k - 1] = 0 + Len(b[k - 1])
    BY <2>1, <2>4, LenProperties
  <2>7. QED
    BY <2>5, <2>6
<1>8. n \in 0 .. n /\ edge[n] = Len(b[n])
  BY <1>2
<1> HIDE DEF edge
<1>9. Laid(b[n], texts, edge)
  BY <1>3, <1>7 DEF Laid
<1>10. QED
  BY <1>1, <1>2, <1>8, <1>9

(* Every place lies in one of the texts.                                   *)
LEMMA Covered ==
  ASSUME NEW texts, Len(texts) \in Nat, NEW edge, Edges(texts, edge),
         NEW p \in 1 .. edge[Len(texts)]
  PROVE  \E k \in 1 .. Len(texts) :
           /\ edge[k - 1] \in Nat
           /\ p - edge[k - 1] \in 1 .. Len(texts[k])
<1> DEFINE places == {k \in 0 .. Len(texts) : p <= edge[k]}
<1>1. edge \in [0 .. Len(texts) -> Nat] /\ edge[0] = 0
  BY DEF Edges
<1>2. Len(texts) \in places /\ places \subseteq Nat
  BY <1>1
<1>3. PICK k \in places : \A m \in places : k <= m
  BY <1>2, SmallestMember
<1>4. k # 0
  BY <1>1
<1>5. k \in 1 .. Len(texts) /\ k - 1 \in 0 .. Len(texts) /\ k - 1 \notin places
  BY <1>2, <1>3, <1>4
<1>6. edge[k - 1] \in Nat /\ edge[k] \in Nat /\ edge[k] = edge[k - 1] + Len(texts[k])
  BY <1>1, <1>5 DEF Edges
<1>7. p \in Nat /\ ~(p <= edge[k - 1]) /\ p <= edge[k] /\ p >= 1
  BY <1>1, <1>5
<1>8. p - edge[k - 1] \in 1 .. Len(texts[k])
  <2>1. Len(texts[k]) = edge[k] - edge[k - 1] \/ Len(texts[k]) \notin Int
    BY <1>6
  <2>2. QED
    BY <1>6, <1>7
<1>9. QED
  BY <1>5, <1>6, <1>8

LEMMA EdgesUnique ==
  ASSUME NEW texts, Len(texts) \in Nat, NEW edge, NEW other, Edges(texts, edge), Edges(texts, other)
  PROVE  edge = other
<1> DEFINE T == {k \in Nat : k <= Len(texts) => edge[k] = other[k]}
<1>1. 0 \in T
  BY DEF Edges
<1>2. ASSUME NEW k \in Nat, k \in T PROVE k + 1 \in T
  <2> SUFFICES ASSUME k + 1 <= Len(texts) PROVE edge[k + 1] = other[k + 1]
    OBVIOUS
  <2>1. k + 1 \in 1 .. Len(texts) /\ (k + 1) - 1 = k /\ k <= Len(texts)
    OBVIOUS
  <2>2. edge[k] = other[k]
    BY <1>2, <2>1
  <2>3. QED
    BY <2>1, <2>2 DEF Edges
<1> HIDE DEF T
<1>3. \A k \in Nat : k \in T
  BY <1>1, <1>2, Induction
<1>4. \A k \in 0 .. Len(texts) : edge[k] = other[k]
  BY <1>3 DEF T
<1>5. QED
  BY <1>4 DEF Edges

(* What has every text at its place is the texts together.                 *)
LEMMA LaidIsTogether ==
  ASSUME NEW R, NEW texts \in Seq(Seq(R)), NEW t \in Seq(R), NEW edge,
         Laid(t, texts, edge), Len(t) = edge[Len(texts)]
  PROVE  t = Together(texts)
<1>0. Len(texts) \in Nat /\ \A k \in 1 .. Len(texts) : texts[k] \in Seq(R)
  BY LenProperties, ElementOfSeq
<1> DEFINE s == Together(texts)
<1>1. s \in Seq(R)
  BY TogetherLaid
<1>2. PICK other : Laid(s, texts, other) /\ Len(s) = other[Len(texts)]
  BY TogetherLaid
<1> HIDE DEF s
<1>3. other = edge
  BY <1>0, <1>2, EdgesUnique DEF Laid
<1>4. Len(s) = Len(t)
  BY <1>2, <1>3
<1>5. ASSUME NEW p \in 1 .. Len(t) PROVE t[p] = s[p]
  <2>1. PICK k \in 1 .. Len(texts) :
          /\ edge[k - 1] \in Nat
          /\ p - edge[k - 1] \in 1 .. Len(texts[k])
    BY <1>0, Covered DEF Laid
  <2>2. At(t, edge[k - 1], texts[k]) /\ At(s, edge[k - 1], texts[k])
    BY <1>2, <1>3 DEF Laid
  <2>3. edge[k - 1] + (p - edge[k - 1]) = p
    BY <2>1
  <2>4. QED
    BY <2>1, <2>2, <2>3 DEF At
<1>6. t = s
  BY <1>1, <1>4, <1>5, SeqEqual
<1>7. QED
  BY <1>6 DEF s

LEMMA FunctionIsSeq ==
  ASSUME NEW S, NEW n \in Nat, NEW f \in [1 .. n -> S]
  PROVE  f \in Seq(S) /\ Len(f) = n /\ DOMAIN f = 1 .. n
<1>1. f \in Seq(S)
  BY SeqDef
<1>2. DOMAIN f = 1 .. n /\ DOMAIN f = 1 .. Len(f) /\ Len(f) \in Nat
  BY <1>1, LenProperties
<1>3. QED
  BY <1>1, <1>2

(* Joined texts: edge[k] is where text k and the bar behind it end.        *)
JoinedAt(texts, edge) ==
  /\ edge \in [0 .. Len(texts) -> Nat] /\ edge[0] = 0
  /\ \A k \in 1 .. Len(texts) :
       /\ At(Joined(texts), edge[k - 1], texts[k])
       /\ k = Len(texts) => edge[k] = edge[k - 1] + Len(texts[k])
       /\ k < Len(texts) => /\ edge[k] = edge[k - 1] + Len(texts[k]) + 1
                            /\ Joined(texts)[edge[k]] = "|"
  /\ Len(Joined(texts)) = edge[Len(texts)]
  /\ \A p \in 1 .. Len(Joined(texts)) :
       \E k \in 1 .. Len(texts) : \/ p - edge[k - 1] \in 1 .. Len(texts[k])
                                  \/ k < Len(texts) /\ p = edge[k]

LEMMA JoinedLaid ==
  ASSUME NEW texts \in Seq(Seq(Sign))
  PROVE  Joined(texts) \in Seq(Sign) /\ \E edge : JoinedAt(texts, edge)
<1>0. Len(texts) \in Nat /\ \A k \in 1 .. Len(texts) : texts[k] \in Seq(Sign)
  BY LenProperties, ElementOfSeq
<1>1. <<"|">> \in Seq(Sign) /\ Len(<<"|">>) = 1
  <2>1. "|" \in Sign
    BY DEF Sign, Signs
  <2>2. QED
    BY <2>1, OneSign
<1> DEFINE n == Len(texts)
           pieces == [k \in 1 .. n |-> IF k < n THEN texts[k] \o <<"|">> ELSE texts[k]]
           t == Joined(texts)
<1>2. pieces \in [1 .. n -> Seq(Sign)]
  <2>1. \A k \in 1 .. n : texts[k] \o <<"|">> \in Seq(Sign)
    BY <1>0, <1>1, ConcatProperties
  <2>2. QED
    BY <1>0, <2>1
<1>3. pieces \in Seq(Seq(Sign)) /\ Len(pieces) = n /\ n \in Nat
  <2> HIDE DEF pieces
  <2>1. QED
    BY <1>0, <1>2, FunctionIsSeq
<1>4. t = Together(pieces)
  BY DEF Joined
<1>5. \A k \in 1 .. n : /\ k < n => pieces[k] = texts[k] \o <<"|">>
                        /\ k = n => pieces[k] = texts[k]
  BY <1>0
<1> HIDE DEF pieces, t
<1>6. t \in Seq(Sign)
  BY <1>3, <1>4, TogetherLaid
<1>7. PICK edge : Laid(t, pieces, edge) /\ Len(t) = edge[n]
  BY <1>3, <1>4, TogetherLaid
<1>8. edge \in [0 .. n -> Nat] /\ edge[0] = 0
  BY <1>3, <1>7 DEF Laid, Edges
<1>9. ASSUME NEW k \in 1 .. n
      PROVE  /\ At(t, edge[k - 1], texts[k])
             /\ k = n => edge[k] = edge[k - 1] + Len(texts[k])
             /\ k < n => edge[k] = edge[k - 1] + Len(texts[k]) + 1 /\ t[edge[k]] = "|"
  <2>1. /\ At(t, edge[k - 1], pieces[k]) /\ edge[k] = edge[k - 1] + Len(pieces[k])
        /\ edge[k - 1] \in Nat /\ texts[k] \in Seq(Sign) /\ Len(texts[k]) \in Nat
    <3>1. k - 1 \in 0 .. n
      BY <1>3
    <3>2. edge[k - 1] \in Nat
      BY <1>8, <3>1
    <3>3. texts[k] \in Seq(Sign) /\ Len(texts[k]) \in Nat
      BY <1>0, LenProperties
    <3>4. QED
      BY <1>3, <1>7, <3>2, <3>3 DEF Laid, Edges
  <2>2. CASE k = n
    BY <1>5, <2>1, <2>2
  <2>3. CASE k < n
    <3>1. pieces[k] = texts[k] \o <<"|">>
      BY <1>5, <2>3
    <3>2. PICK o \in Nat, l \in Nat : o = edge[k - 1] /\ l = Len(texts[k])
      BY <2>1
    <3>3. /\ At(t, o, texts[k]) /\ At(t, o + l, <<"|">>)
          /\ Len(pieces[k]) = l + 1
      <4> DEFINE bar == <<"|">>
                 s   == texts[k]
      <4>1. bar \in Seq(Sign) /\ Len(bar) = 1 /\ s \in Seq(Sign) /\ Len(s) = l
            /\ At(t, o, s \o bar) /\ pieces[k] = s \o bar
        BY <1>1, <2>1, <3>1, <3>2
      <4> HIDE DEF bar, s
      <4>2. At(t, o, s) /\ At(t, o + Len(s), bar) /\ Len(s \o bar) = Len(s) + Len(bar)
        BY <1>6, <4>1, AtConcat
      <4>3. QED
        BY <4>1, <4>2 DEF bar, s
    <3>4. t[o + l + 1] = "|"
      BY <3>3, AtSign
    <3>5. edge[k] = o + l + 1
      <4>1. edge[k] = o + Len(pieces[k])
        BY <2>1, <3>2
      <4>2. QED
        BY <3>3, <4>1
    <3>6. QED
      BY <2>1, <2>3, <3>2, <3>3, <3>4, <3>5
  <2>4. QED
    BY <1>3, <2>2, <2>3
<1>10. ASSUME NEW p \in 1 .. Len(t)
       PROVE  \E k \in 1 .. n : \/ p - edge[k - 1] \in 1 .. Len(texts[k])
                                \/ k < n /\ p = edge[k]
  <2>1. PICK k \in 1 .. n :
          edge[k - 1] \in Nat /\ p - edge[k - 1] \in 1 .. Len(pieces[k])
    BY <1>3, <1>7, Covered DEF Laid
  <2>2. CASE k = n
    BY <1>5, <2>1, <2>2
  <2>3. CASE k < n
    <3>1. pieces[k] = texts[k] \o <<"|">> /\ texts[k] \in Seq(Sign) /\ Len(texts[k]) \in Nat
      BY <1>0, <1>5, <2>3, LenProperties
    <3>2. Len(pieces[k]) = Len(texts[k]) + 1
      BY <1>1, <3>1, ConcatProperties
    <3>3. edge[k] = edge[k - 1] + Len(texts[k]) + 1
      BY <1>9, <2>3
    <3>4. p - edge[k - 1] \in 1 .. Len(texts[k]) \/ p = edge[k]
      <4>1. PICK o \in Nat, l \in Nat : o = edge[k - 1] /\ l = Len(texts[k])
        BY <2>1, <3>1
      <4>2. p - o \in 1 .. l + 1 /\ edge[k] = o + l + 1 /\ p \in Int
        <5>1. p - o \in 1 .. Len(pieces[k]) /\ Len(pieces[k]) = l + 1
          BY <2>1, <3>2, <4>1
        <5>2. Len(t) \in Nat
          BY <1>6, LenProperties
        <5>3. QED
          BY <3>3, <4>1, <5>1, <5>2
      <4>3. p - o \in 1 .. l \/ p = o + l + 1
        BY <4>2
      <4>4. QED
        BY <4>1, <4>2, <4>3
    <3>5. QED
      BY <2>3, <3>4
  <2>4. QED
    BY <1>3, <2>2, <2>3
<1>11. JoinedAt(texts, edge)
  BY <1>7, <1>8, <1>9, <1>10 DEF JoinedAt, t
<1>12. QED
  BY <1>6, <1>11 DEF t

(* The texts are what stands between the bars.                             *)
LEMMA JoinedAlternatives ==
  ASSUME NEW texts \in Seq(Seq(Sign)), texts # <<>>,
         \A k \in 1 .. Len(texts) : \A p \in 1 .. Len(texts[k]) : texts[k][p] # "|"
  PROVE  Alternatives(Joined(texts)) = {texts[k] : k \in 1 .. Len(texts)}
<1> DEFINE n == Len(texts)
           t == Joined(texts)
           starts == {1} \cup {m + 1 : m \in {b \in DOMAIN t : t[b] = "|"}}
<1>0. n \in Nat /\ n # 0 /\ \A k \in 1 .. n : texts[k] \in Seq(Sign) /\ Len(texts[k]) \in Nat
  BY EmptySeq, LenProperties, ElementOfSeq
<1>1. t \in Seq(Sign) /\ Len(t) \in Nat /\ DOMAIN t = 1 .. Len(t)
  BY JoinedLaid, LenProperties
<1>2. PICK edge : JoinedAt(texts, edge)
  BY JoinedLaid
<1> HIDE DEF t
<1>3. /\ edge \in [0 .. n -> Nat] /\ edge[0] = 0 /\ Len(t) = edge[n]
      /\ \A k \in 1 .. n :
           /\ At(t, edge[k - 1], texts[k])
           /\ k = n => edge[k] = edge[k - 1] + Len(texts[k])
           /\ k < n => edge[k] = edge[k - 1] + Len(texts[k]) + 1 /\ t[edge[k]] = "|"
      /\ \A p \in 1 .. Len(t) :
           \E k \in 1 .. n : \/ p - edge[k - 1] \in 1 .. Len(texts[k])
                             \/ k < n /\ p = edge[k]
  BY <1>2 DEF JoinedAt, t
<1>4. \A k \in 1 .. n : edge[k - 1] \in Nat
  <2>1. \A k \in 1 .. n : k - 1 \in 0 .. n
    BY <1>0
  <2>2. QED
    BY <1>3, <2>1
<1>5. ASSUME NEW k \in 1 .. n
      PROVE  SubSeq(t, edge[k - 1] + 1, first(t, "|", edge[k - 1] + 1) - 1) = texts[k]
  <2>1. At(t, edge[k - 1], texts[k]) /\ edge[k - 1] \in Nat
        /\ texts[k] \in Seq(Sign) /\ Len(texts[k]) \in Nat
    BY <1>0, <1>3, <1>4
  <2>2. SubSeq(t, edge[k - 1] + 1, edge[k - 1] + Len(texts[k])) = texts[k]
    BY <1>1, <2>1, AtIsSubSeq
  <2>3. \A x \in edge[k - 1] + 1 .. edge[k - 1] + Len(texts[k]) : t[x] # "|"
    <3> SUFFICES ASSUME NEW x \in edge[k - 1] + 1 .. edge[k - 1] + Len(texts[k]) PROVE t[x] # "|"
      OBVIOUS
    <3>1. x - edge[k - 1] \in 1 .. Len(texts[k]) /\ edge[k - 1] + (x - edge[k - 1]) = x
      BY <2>1
    <3>2. t[x] = texts[k][x - edge[k - 1]]
      BY <2>1, <3>1 DEF At
    <3>3. QED
      BY <3>1, <3>2
  <2>4. first(t, "|", edge[k - 1] + 1) = edge[k - 1] + Len(texts[k]) + 1
    <3>1. CASE k = n
      <4>1. Len(t) = edge[k - 1] + Len(texts[k])
        BY <1>3, <3>1
      <4>2. QED
        BY <2>3, <4>1, FirstIsEnd
    <3>2. CASE k < n
      <4> DEFINE m == edge[k - 1] + Len(texts[k]) + 1
      <4>1. t[m] = "|" /\ m = edge[k]
        BY <1>3, <3>2
      <4>2. m <= Len(t)
        <5>1. k + 1 \in 1 .. n /\ (k + 1) - 1 = k
          BY <1>0, <3>2
        <5>2. At(t, edge[k], texts[k + 1])
          BY <1>3, <5>1
        <5>3. edge[k] + Len(texts[k + 1]) <= Len(t) /\ Len(texts[k + 1]) \in Nat /\ edge[k] \in Nat
          BY <1>0, <5>1, <5>2 DEF At
        <5>4. QED
          BY <1>1, <4>1, <5>3
      <4>3. m \in edge[k - 1] + 1 .. Len(t) /\ m - 1 = edge[k - 1] + Len(texts[k])
        BY <1>1, <2>1, <4>2
      <4>4. edge[k - 1] + 1 \in Nat
        BY <2>1
      <4>5. \A x \in edge[k - 1] + 1 .. m - 1 : t[x] # "|"
        BY <2>3, <4>3
      <4>a. PICK from \in Nat : from = edge[k - 1] + 1
        BY <4>4
      <4> HIDE DEF m
      <4>b. m \in from .. Len(t) /\ \A x \in from .. m - 1 : t[x] # "|"
        BY <4>3, <4>5, <4>a
      <4>c. first(t, "|", from) = m
        BY <1>1, <4>1, <4>b, FirstIs
      <4>6. first(t, "|", edge[k - 1] + 1) = m
        BY <4>a, <4>c
      <4>7. QED
        BY <4>6 DEF m
    <3>3. QED
      BY <1>0, <3>1, <3>2
  <2>5. (edge[k - 1] + Len(texts[k]) + 1) - 1 = edge[k - 1] + Len(texts[k])
    BY <2>1
  <2>6. QED
    BY <2>2, <2>4, <2>5
<1>6. ASSUME NEW s \in starts PROVE \E k \in 1 .. n : s = edge[k - 1] + 1
  <2>1. CASE s = 1
    <3>1. 1 \in 1 .. n /\ 1 - 1 = 0 /\ edge[0] + 1 = 1
      BY <1>0, <1>3
    <3>2. QED
      BY <2>1, <3>1
  <2>2. CASE s # 1
    <3>1. PICK m \in 1 .. Len(t) : t[m] = "|" /\ s = m + 1
      BY <1>1, <2>2
    <3>2. PICK k \in 1 .. n : \/ m - edge[k - 1] \in 1 .. Len(texts[k])
                              \/ k < n /\ m = edge[k]
      BY <1>3
    <3>3. ~(m - edge[k - 1] \in 1 .. Len(texts[k]))
      <4> SUFFICES ASSUME m - edge[k - 1] \in 1 .. Len(texts[k]) PROVE FALSE
        OBVIOUS
      <4>1. edge[k - 1] + (m - edge[k - 1]) = m
        BY <1>4
      <4> DEFINE o == edge[k - 1]
                 q == m - o
      <4>a. At(t, o, texts[k]) /\ q \in 1 .. Len(texts[k]) /\ o + q = m
        BY <1>3, <4>1
      <4> HIDE DEF o, q
      <4>b. t[o + q] = texts[k][q]
        BY <4>a DEF At
      <4>2. t[m] = texts[k][m - edge[k - 1]]
        BY <4>a, <4>b DEF o, q
      <4>3. QED
        BY <3>1, <4>2
    <3>4. k + 1 \in 1 .. n /\ (k + 1) - 1 = k /\ m = edge[k]
      BY <1>0, <3>2, <3>3
    <3>5. QED
      BY <3>1, <3>4
  <2>3. QED
    BY <2>1, <2>2
<1>7. ASSUME NEW k \in 1 .. n PROVE edge[k - 1] + 1 \in starts
  <2>1. CASE k = 1
    <3>1. k - 1 = 0
      BY <2>1
    <3>2. QED
      BY <1>3, <3>1
  <2>2. CASE k # 1
    <3> DEFINE m == edge[k - 1]
    <3>1. k - 1 \in 1 .. n /\ k - 1 < n
      BY <1>0, <2>2
    <3>2. t[m] = "|" /\ m = edge[(k - 1) - 1] + Len(texts[k - 1]) + 1
      BY <1>3, <3>1
    <3>3. m >= 1 /\ m \in Nat
      BY <1>0, <1>4, <3>1, <3>2
    <3>4. m <= Len(t)
      <4>1. At(t, edge[k - 1], texts[k]) /\ Len(texts[k]) \in Nat
        BY <1>0, <1>3
      <4>2. QED
        BY <1>1, <3>3, <4>1 DEF At
    <3>5. m \in DOMAIN t
      BY <1>1, <3>3, <3>4
    <3>6. QED
      BY <3>2, <3>5
  <2>3. QED
    BY <2>1, <2>2
<1>8. Alternatives(t) = {SubSeq(t, s, first(t, "|", s) - 1) : s \in starts}
  BY DEF Alternatives
<1> HIDE DEF starts
<1>9. ASSUME NEW x \in Alternatives(t) PROVE x \in {texts[k] : k \in 1 .. n}
  <2>1. PICK s \in starts : x = SubSeq(t, s, first(t, "|", s) - 1)
    BY <1>8
  <2>2. PICK k \in 1 .. n : s = edge[k - 1] + 1
    BY <1>6
  <2>3. QED
    BY <1>5, <2>1, <2>2
<1>10. ASSUME NEW k \in 1 .. n PROVE texts[k] \in Alternatives(t)
  BY <1>5, <1>7, <1>8
<1>11. QED
  BY <1>9, <1>10 DEF t

-----------------------------------------------------------------------------
(* What stands in a bracket.                                               *)

PlainTexts(as) == [k \in DOMAIN as |-> WrittenPlain(as[k])]

LEMMA PlainTextsAre ==
  ASSUME NEW as \in Seq(Plain)
  PROVE  /\ PlainTexts(as) \in Seq(Seq(Sign)) /\ Len(PlainTexts(as)) = Len(as)
         /\ DOMAIN as = 1 .. Len(as) /\ Len(as) \in Nat
         /\ \A k \in 1 .. Len(as) :
              /\ PlainTexts(as)[k] = WrittenPlain(as[k])
              /\ \A p \in 1 .. Len(PlainTexts(as)[k]) : PlainTexts(as)[k][p] \notin Cuts
<1>1. DOMAIN as = 1 .. Len(as) /\ Len(as) \in Nat /\ \A k \in 1 .. Len(as) : as[k] \in Plain
  BY LenProperties, ElementOfSeq
<1>2. PlainTexts(as) = [k \in 1 .. Len(as) |-> WrittenPlain(as[k])]
  BY <1>1 DEF PlainTexts
<1>3. \A k \in 1 .. Len(as) :
        /\ WrittenPlain(as[k]) \in Seq(Sign)
        /\ \A p \in 1 .. Len(WrittenPlain(as[k])) : WrittenPlain(as[k])[p] \notin Cuts
  BY <1>1, PlainText
<1>4. PlainTexts(as) \in [1 .. Len(as) -> Seq(Sign)]
  BY <1>2, <1>3
<1> DEFINE w == PlainTexts(as)
<1>5. \A k \in 1 .. Len(as) : w[k] = WrittenPlain(as[k])
  BY <1>2
<1> HIDE DEF w
<1>6. w \in Seq(Seq(Sign)) /\ Len(w) = Len(as)
  BY <1>1, <1>4, FunctionIsSeq DEF w
<1>7. QED
  BY <1>1, <1>3, <1>5, <1>6 DEF w

LEMMA InsideText ==
  ASSUME NEW as \in Seq(Plain)
  PROVE  /\ WrittenInside(as) \in Seq(Sign)
         /\ \A p \in 1 .. Len(WrittenInside(as)) : WrittenInside(as)[p] \notin Brackets
<1> DEFINE w == PlainTexts(as)
           t == Joined(w)
<1>1. WrittenInside(as) = t
  BY DEF WrittenInside, PlainTexts
<1>2. /\ w \in Seq(Seq(Sign)) /\ Len(w) \in Nat
      /\ \A k \in 1 .. Len(w) : \A p \in 1 .. Len(w[k]) : w[k][p] \notin Cuts
  BY PlainTextsAre
<1> HIDE DEF w
<1>3. t \in Seq(Sign)
  BY <1>2, JoinedLaid
<1>4. PICK edge : JoinedAt(w, edge)
  BY <1>2, JoinedLaid
<1>5. ASSUME NEW p \in 1 .. Len(t) PROVE t[p] \notin Brackets
  <2>1. PICK k \in 1 .. Len(w) : \/ p - edge[k - 1] \in 1 .. Len(w[k])
                                 \/ k < Len(w) /\ p = edge[k]
    BY <1>4 DEF JoinedAt
  <2>2. CASE p - edge[k - 1] \in 1 .. Len(w[k])
    <3>1. k - 1 \in 0 .. Len(w)
      BY <1>2
    <3>2. edge[k - 1] \in Nat
      BY <1>4, <3>1 DEF JoinedAt
    <3>3. edge[k - 1] + (p - edge[k - 1]) = p
      BY <1>3, <3>2, LenProperties
    <3>4. t[p] = w[k][p - edge[k - 1]]
      BY <1>4, <2>2, <3>3 DEF JoinedAt, At
    <3>5. QED
      BY <1>2, <2>2, <3>4 DEF Brackets, Cuts
  <2>3. CASE k < Len(w) /\ p = edge[k]
    <3>1. t[p] = "|"
      BY <1>4, <2>3 DEF JoinedAt
    <3>2. QED
      BY <3>1 DEF Brackets
  <2>4. QED
    BY <2>1, <2>2, <2>3
<1> HIDE DEF t
<1>6. QED
  BY <1>1, <1>3, <1>5

LEMMA InsideMeaning ==
  ASSUME NEW as \in Seq(Plain), as # <<>>, NEW text \in Seq(STRING)
  PROVE  match_inside(text, WrittenInside(as)) =
           IF \A k \in DOMAIN as : ValidPlain(as[k]) THEN Truth(DenotesInside(as, text)) ELSE -1
<1> DEFINE w == PlainTexts(as)
<1>1. /\ w \in Seq(Seq(Sign)) /\ Len(w) = Len(as) /\ Len(as) \in Nat /\ DOMAIN as = 1 .. Len(as)
      /\ \A k \in 1 .. Len(as) : w[k] = WrittenPlain(as[k])
      /\ \A k \in 1 .. Len(w) : \A p \in 1 .. Len(w[k]) : w[k][p] # "|"
  BY PlainTextsAre DEF Cuts
<1>2. WrittenInside(as) = Joined(w)
  BY DEF WrittenInside, PlainTexts
<1> HIDE DEF w
<1>3. Len(as) # 0
  BY EmptySeq
<1>4. w # <<>>
  BY <1>1, <1>3
<1>5. Alternatives(Joined(w)) = {w[k] : k \in 1 .. Len(w)}
  BY <1>1, <1>4, JoinedAlternatives
<1> DEFINE answer(k) == match_plain(text, WrittenPlain(as[k]), FALSE)
           results == {match_plain(text, a, FALSE) : a \in Alternatives(Joined(w))}
<1>6. \A k \in 1 .. Len(as) :
        answer(k) = IF ValidPlain(as[k]) THEN Truth(DenotesPlain(as[k], text, FALSE)) ELSE -1
  <2>1. \A k \in 1 .. Len(as) : as[k] \in Plain
    BY ElementOfSeq
  <2>2. QED
    BY <2>1, PlainMeaning
<1>7. \A r : r \in results <=> \E k \in 1 .. Len(as) : r = answer(k)
  BY <1>1, <1>5
<1>8. match_inside(text, WrittenInside(as)) = IF -1 \in results THEN -1 ELSE Truth(1 \in results)
  BY <1>2 DEF match_inside
<1> HIDE DEF answer, results
<1>9. CASE \A k \in DOMAIN as : ValidPlain(as[k])
  <2>1. \A k \in 1 .. Len(as) : answer(k) = Truth(DenotesPlain(as[k], text, FALSE))
    BY <1>1, <1>6, <1>9
  <2>a. ASSUME NEW k \in 1 .. Len(as)
        PROVE  answer(k) # -1 /\ (answer(k) = 1 <=> DenotesPlain(as[k], text, FALSE))
    <3>1. DenotesPlain(as[k], text, FALSE) => answer(k) = 1
      BY <2>1, Zenon DEF Truth
    <3>2. ~DenotesPlain(as[k], text, FALSE) => answer(k) = 0
      BY <2>1, Zenon DEF Truth
    <3>3. 1 # -1 /\ 0 # -1 /\ 0 # 1
      OBVIOUS
    <3>4. QED
      BY <3>1, <3>2, <3>3, Zenon
  <2>2. -1 \notin results
    BY <1>7, <2>a
  <2>3. 1 \in results <=> \E k \in 1 .. Len(as) : DenotesPlain(as[k], text, FALSE)
    BY <1>7, <2>a
  <2>4. DenotesInside(as, text) <=> \E k \in 1 .. Len(as) : DenotesPlain(as[k], text, FALSE)
    BY <1>1 DEF DenotesInside
  <2>5. QED
    BY <1>8, <1>9, <2>2, <2>3, <2>4 DEF Truth
<1>10. CASE ~\A k \in DOMAIN as : ValidPlain(as[k])
  <2>1. PICK k \in 1 .. Len(as) : ~ValidPlain(as[k])
    BY <1>1, <1>10
  <2>2. -1 \in results
    BY <1>6, <1>7, <2>1
  <2>3. QED
    BY <1>8, <1>10, <2>2
<1>11. QED
  BY <1>9, <1>10

-----------------------------------------------------------------------------
(* Option lists.  The digits that follow o end at v.                       *)
RunTo(text, o, v) ==
  /\ v \in o .. Len(text)
  /\ \A x \in o + 1 .. v : text[x] \in HexChars
  /\ v < Len(text) => text[v + 1] \notin HexChars

LEMMA HexRun ==
  ASSUME NEW text, Len(text) \in Nat, NEW o \in 0 .. Len(text)
  PROVE  \E v \in Nat : /\ hex_run(text, o) = v - o /\ RunTo(text, o, v)
                        /\ \A w : RunTo(text, o, w) => w = v
<1> DEFINE places == {m \in o + 1 .. Len(text) : text[m] \notin HexChars}
           l      == least(places, Len(text) + 1)
<1>1. places \subseteq Nat
  OBVIOUS
<1>2. /\ l \in o + 1 .. Len(text) + 1
      /\ l <= Len(text) => text[l] \notin HexChars
      /\ \A x \in o + 1 .. Len(text) : x < l => text[x] \in HexChars
  <2>1. places = {} => l = Len(text) + 1
    BY <1>1, LeastPlace
  <2>2. places # {} => l \in places /\ \A x \in places : l <= x
    BY <1>1, LeastPlace
  <2> HIDE DEF l
  <2>3. CASE places = {}
    BY <2>1, <2>3
  <2>4. CASE places # {}
    <3>1. l \in places /\ \A x \in places : l <= x
      BY <2>2, <2>4
    <3>2. l \in o + 1 .. Len(text) /\ text[l] \notin HexChars
      BY <3>1
    <3>3. \A x \in o + 1 .. Len(text) : x < l => text[x] \in HexChars
      BY <3>1, <3>2
    <3>4. QED
      BY <3>2, <3>3
  <2>5. QED
    BY <2>3, <2>4
<1>3. hex_run(text, o) = l - 1 - o
  BY DEF hex_run
<1> HIDE DEF places, l
<1>4. PICK v \in Nat : v = l - 1
  BY <1>2
<1>5. hex_run(text, o) = v - o
  BY <1>2, <1>3, <1>4
<1>6. RunTo(text, o, v)
  BY <1>2, <1>4 DEF RunTo
<1>7. ASSUME NEW w, RunTo(text, o, w) PROVE w = v
  <2>1. w \in Nat /\ w <= Len(text) /\ o <= w /\ o <= v /\ v <= Len(text)
    BY <1>6, <1>7 DEF RunTo
  <2>2. ~(w < v)
    <3> SUFFICES ASSUME w < v PROVE FALSE
      OBVIOUS
    <3>1. w + 1 \in o + 1 .. v /\ w < Len(text)
      BY <2>1
    <3>2. QED
      BY <1>6, <1>7, <3>1 DEF RunTo
  <2>3. ~(v < w)
    <3> SUFFICES ASSUME v < w PROVE FALSE
      OBVIOUS
    <3>1. v + 1 \in o + 1 .. w /\ v < Len(text)
      BY <2>1
    <3>2. QED
      BY <1>6, <1>7, <3>1 DEF RunTo
  <2>4. QED
    BY <2>1, <2>2, <2>3
<1>8. QED
  BY <1>5, <1>6, <1>7

LEMMA ListParts ==
  ASSUME NEW a \in OptionLists
  PROVE  /\ a.kind = "options"
         /\ Len(a.brackets) \in Nat /\ Len(a.brackets) > 0
         /\ DOMAIN a.brackets = 1 .. Len(a.brackets)
         /\ \A k \in 1 .. Len(a.brackets) :
              /\ a.brackets[k].before \in Text
              /\ a.brackets[k].inside \in Seq(Plain) /\ a.brackets[k].inside # <<>>
              /\ k > 1 => a.brackets[k].before # <<>> /\ a.brackets[k].before[1] \notin HexChars
         /\ a.after \in Text
         /\ a.after # <<>> => a.after[1] \notin HexChars
<1> DEFINE B == [before : Text, inside : Seq(Plain)]
           s == a.brackets
<1>1. a.kind = "options" /\ s \in Seq(B) /\ a.after \in Text
  BY DEF OptionLists
<1>2. /\ s # <<>>
      /\ \A k \in DOMAIN s : s[k].inside # <<>>
      /\ \A k \in 2 .. Len(s) : s[k].before # <<>> /\ s[k].before[1] \notin HexChars
      /\ a.after # <<>> => a.after[1] \notin HexChars
  BY DEF OptionLists
<1> HIDE DEF s
<1>3. Len(s) \in Nat /\ DOMAIN s = 1 .. Len(s) /\ Len(s) # 0 /\ \A k \in 1 .. Len(s) : s[k] \in B
  <2> HIDE DEF B
  <2>1. QED
    BY <1>1, <1>2, EmptySeq, LenProperties, ElementOfSeq
<1>4. \A k \in 1 .. Len(s) : k > 1 => k \in 2 .. Len(s)
  BY <1>3
<1>5. \A k \in 1 .. Len(s) : s[k].before \in Text /\ s[k].inside \in Seq(Plain)
  BY <1>3
<1> HIDE DEF B
<1>6. \A k \in 1 .. Len(s) : k \in DOMAIN s
  BY <1>3
<1>7. Len(s) > 0
  BY <1>3
<1>8. QED
  BY <1>1, <1>2, <1>3, <1>4, <1>5, <1>6, <1>7 DEF s

(* A filled list: edge[k] is where what fills bracket k ends.              *)
FilledAt(a, fill, t, edge) ==
  /\ edge \in [0 .. Len(a.brackets) -> Nat] /\ edge[0] = 0
  /\ \A k \in 1 .. Len(a.brackets) :
       /\ At(t, edge[k - 1], a.brackets[k].before)
       /\ At(t, edge[k - 1] + Len(a.brackets[k].before), fill[k])
       /\ edge[k] = edge[k - 1] + Len(a.brackets[k].before) + Len(fill[k])
  /\ At(t, edge[Len(a.brackets)], a.after)
  /\ Len(t) = edge[Len(a.brackets)] + Len(a.after)

Pieces(a, fill) == [k \in 1 .. Len(a.brackets) + 1 |->
                      IF k <= Len(a.brackets) THEN a.brackets[k].before \o fill[k] ELSE a.after]

LEMMA PiecesAre ==
  ASSUME NEW a \in OptionLists, NEW fill \in [DOMAIN a.brackets -> Seq(Sign)]
  PROVE  /\ Pieces(a, fill) \in Seq(Seq(Sign)) /\ Len(Pieces(a, fill)) = Len(a.brackets) + 1
         /\ \A k \in 1 .. Len(a.brackets) :
              /\ Pieces(a, fill)[k] = a.brackets[k].before \o fill[k]
              /\ a.brackets[k].before \in Seq(Sign) /\ Len(a.brackets[k].before) \in Nat
              /\ fill[k] \in Seq(Sign) /\ Len(fill[k]) \in Nat
         /\ Pieces(a, fill)[Len(a.brackets) + 1] = a.after
         /\ a.after \in Seq(Sign) /\ Len(a.after) \in Nat
<1> DEFINE n == Len(a.brackets)
           before(k) == a.brackets[k].before
<1>1. /\ n \in Nat /\ DOMAIN a.brackets = 1 .. n
      /\ \A k \in 1 .. n : before(k) \in Text
      /\ a.after \in Text
  BY ListParts
<1>2. /\ \A k \in 1 .. n : before(k) \in Seq(Sign) /\ Len(before(k)) \in Nat
      /\ a.after \in Seq(Sign) /\ Len(a.after) \in Nat
  <2> HIDE DEF n, before
  <2>1. QED
    BY <1>1, TextIsSigns
<1>3. \A k \in 1 .. n : fill[k] \in Seq(Sign) /\ Len(fill[k]) \in Nat
  BY <1>1, LenProperties
<1>4. \A k \in 1 .. n : before(k) \o fill[k] \in Seq(Sign)
  <2> HIDE DEF n, before
  <2>1. QED
    BY <1>2, <1>3, ConcatProperties
<1>5. Pieces(a, fill) = [k \in 1 .. n + 1 |-> IF k <= n THEN before(k) \o fill[k] ELSE a.after]
  BY DEF Pieces
<1> HIDE DEF n, before
<1> DEFINE p == Pieces(a, fill)
<1>6. p \in [1 .. n + 1 -> Seq(Sign)]
  <2>1. \A k \in 1 .. n + 1 : k <= n => k \in 1 .. n
    BY <1>1
  <2>2. QED
    BY <1>2, <1>4, <1>5, <2>1
<1>7. \A k \in 1 .. n : p[k] = before(k) \o fill[k]
  BY <1>1, <1>5
<1>8. p[n + 1] = a.after
  BY <1>1, <1>5
<1> HIDE DEF p
<1>9. n + 1 \in Nat
  BY <1>1
<1>10. p \in Seq(Seq(Sign)) /\ Len(p) = n + 1
  BY <1>6, <1>9, FunctionIsSeq
<1>11. QED
  BY <1>2, <1>3, <1>7, <1>8, <1>10 DEF n, before, p

LEMMA FilledLaid ==
  ASSUME NEW a \in OptionLists, NEW fill \in [DOMAIN a.brackets -> Seq(Sign)]
  PROVE  /\ Filled(a, fill) \in Seq(Sign)
         /\ \E edge : FilledAt(a, fill, Filled(a, fill), edge)
         /\ \A t \in Seq(Sign) : \A edge : FilledAt(a, fill, t, edge) => t = Filled(a, fill)
<1> DEFINE n == Len(a.brackets)
           p == Pieces(a, fill)
           before(k) == a.brackets[k].before
           whole == Filled(a, fill)
<1>1. /\ p \in Seq(Seq(Sign)) /\ Len(p) = n + 1
      /\ \A k \in 1 .. n : /\ p[k] = before(k) \o fill[k]
                           /\ before(k) \in Seq(Sign) /\ Len(before(k)) \in Nat
                           /\ fill[k] \in Seq(Sign) /\ Len(fill[k]) \in Nat
      /\ p[n + 1] = a.after /\ a.after \in Seq(Sign) /\ Len(a.after) \in Nat
  BY PiecesAre
<1>2. n \in Nat
  BY ListParts
<1>3. whole = Together(p)
  BY DEF Filled, Pieces
<1> HIDE DEF n, p, before, whole
<1>4. ASSUME NEW k \in 1 .. n PROVE Len(p[k]) = Len(before(k)) + Len(fill[k])
  <2> DEFINE b == before(k)
             f == fill[k]
  <2>1. b \in Seq(Sign) /\ f \in Seq(Sign) /\ p[k] = b \o f
    BY <1>1
  <2> HIDE DEF b, f
  <2>2. Len(p[k]) = Len(b) + Len(f)
    BY <2>1, ConcatProperties
  <2>3. QED
    BY <2>2 DEF b, f
<1>5. whole \in Seq(Sign)
  BY <1>1, <1>3, TogetherLaid
<1>6. PICK full : Laid(whole, p, full) /\ Len(whole) = full[n + 1]
  <2>1. \E e : Laid(Together(p), p, e) /\ Len(Together(p)) = e[Len(p)]
    BY <1>1, TogetherLaid
  <2>2. QED
    BY <1>1, <1>3, <2>1
<1>7. /\ full \in [0 .. n + 1 -> Nat] /\ full[0] = 0
      /\ \A k \in 1 .. n + 1 : full[k] = full[k - 1] + Len(p[k]) /\ At(whole, full[k - 1], p[k])
  BY <1>1, <1>6 DEF Laid, Edges
<1> DEFINE edge == [k \in 0 .. n |-> full[k]]
<1>8. FilledAt(a, fill, whole, edge)
  <2>1. edge \in [0 .. n -> Nat] /\ edge[0] = 0
    BY <1>2, <1>7
  <2>2. ASSUME NEW k \in 1 .. n
        PROVE  /\ At(whole, edge[k - 1], before(k))
               /\ At(whole, edge[k - 1] + Len(before(k)), fill[k])
               /\ edge[k] = edge[k - 1] + Len(before(k)) + Len(fill[k])
    <3>1. k \in 1 .. n + 1 /\ k \in 0 .. n /\ k - 1 \in 0 .. n
      BY <1>2
    <3>a. k - 1 \in 0 .. n + 1
      BY <1>2, <3>1
    <3>2. edge[k] = full[k] /\ edge[k - 1] = full[k - 1] /\ full[k - 1] \in Nat
      BY <1>7, <3>1, <3>a
    <3>3. At(whole, full[k - 1], before(k) \o fill[k])
      BY <1>1, <1>7, <3>1
    <3> DEFINE o == full[k - 1]
               b == before(k)
               f == fill[k]
    <3>4. b \in Seq(Sign) /\ f \in Seq(Sign) /\ o \in Nat /\ At(whole, o, b \o f)
      BY <1>1, <3>2, <3>3
    <3> HIDE DEF o, b, f
    <3>5. At(whole, o, b) /\ At(whole, o + Len(b), f)
      BY <1>5, <3>4, AtConcat
    <3>6. full[k] = full[k - 1] + Len(p[k]) /\ Len(p[k]) = Len(before(k)) + Len(fill[k])
          /\ Len(before(k)) \in Nat /\ Len(fill[k]) \in Nat
      BY <1>1, <1>4, <1>7, <3>1
    <3>7. full[k] = full[k - 1] + Len(before(k)) + Len(fill[k])
      BY <3>2, <3>6
    <3>8. QED
      BY <3>2, <3>5, <3>7 DEF o, b, f
  <2>3. n + 1 \in 1 .. n + 1 /\ (n + 1) - 1 = n /\ n \in 0 .. n
    BY <1>2
  <2>4. full[n + 1] = full[n] + Len(p[n + 1]) /\ At(whole, full[n], p[n + 1]) /\ edge[n] = full[n]
    BY <1>7, <2>3
  <2>5. At(whole, edge[n], a.after) /\ Len(whole) = edge[n] + Len(a.after)
    BY <1>1, <1>6, <2>4
  <2> HIDE DEF edge
  <2>6. QED
    BY <2>1, <2>2, <2>5 DEF FilledAt, n, before
<1> HIDE DEF edge
<1>9. ASSUME NEW t \in Seq(Sign), NEW e, FilledAt(a, fill, t, e)
      PROVE  t = whole
  <2>1. /\ e \in [0 .. n -> Nat] /\ e[0] = 0
        /\ \A k \in 1 .. n : /\ At(t, e[k - 1], before(k))
                             /\ At(t, e[k - 1] + Len(before(k)), fill[k])
                             /\ e[k] = e[k - 1] + Len(before(k)) + Len(fill[k])
        /\ At(t, e[n], a.after) /\ Len(t) = e[n] + Len(a.after)
    BY <1>9 DEF FilledAt, n, before
  <2> DEFINE long == [k \in 0 .. n + 1 |-> IF k = n + 1 THEN e[n] + Len(a.after) ELSE e[k]]
  <2>2. n \in 0 .. n /\ e[n] \in Nat /\ \A k \in 0 .. n + 1 : k # n + 1 => k \in 0 .. n
    BY <1>2, <2>1
  <2>3. long \in [0 .. n + 1 -> Nat] /\ long[0] = 0 /\ long[n + 1] = Len(t)
        /\ \A k \in 0 .. n : long[k] = e[k]
    <3>1. e[n] + Len(a.after) \in Nat
      BY <1>1, <2>2
    <3>2. \A k \in 0 .. n : k \in 0 .. n + 1 /\ k # n + 1
      BY <1>2
    <3>3. 0 \in 0 .. n /\ n + 1 \in 0 .. n + 1
      BY <1>2
    <3>4. long \in [0 .. n + 1 -> Nat]
      BY <2>1, <2>2, <3>1
    <3>5. QED
      BY <2>1, <3>2, <3>3, <3>4
  <2> HIDE DEF long
  <2>4. ASSUME NEW k \in 1 .. n + 1
        PROVE  long[k] = long[k - 1] + Len(p[k]) /\ At(t, long[k - 1], p[k])
    <3>1. CASE k = n + 1
      <4>1. k - 1 = n
        BY <1>2, <3>1
      <4>2. QED
        BY <1>1, <2>1, <2>2, <2>3, <3>1, <4>1
    <3>2. CASE k # n + 1
      <4>1. k \in 1 .. n /\ k \in 0 .. n /\ k - 1 \in 0 .. n
        BY <1>2, <3>2
      <4> DEFINE o == e[k - 1]
                 b == before(k)
                 f == fill[k]
      <4>2. /\ b \in Seq(Sign) /\ f \in Seq(Sign) /\ o \in Nat /\ Len(b) \in Nat /\ Len(f) \in Nat
            /\ At(t, o, b) /\ At(t, o + Len(b), f) /\ e[k] = o + Len(b) + Len(f)
            /\ p[k] = b \o f /\ Len(p[k]) = Len(b) + Len(f)
            /\ long[k] = e[k] /\ long[k - 1] = o
        BY <1>1, <1>4, <2>1, <2>3, <4>1
      <4> HIDE DEF o, b, f
      <4>3. At(t, o, b \o f)
        BY <4>2, AtConcat
      <4>4. e[k] = o + Len(p[k])
        BY <4>2
      <4>5. QED
        BY <4>2, <4>3, <4>4
    <3>3. QED
      BY <3>1, <3>2
  <2>5. Laid(t, p, long)
    BY <1>1, <2>3, <2>4 DEF Laid, Edges
  <2>6. t = Together(p)
    BY <1>1, <2>3, <2>5, LaidIsTogether
  <2>7. QED
    BY <1>3, <2>6
<1>10. QED
  BY <1>5, <1>8, <1>9 DEF whole

(* The list as it is written, with brackets.                               *)
InsideOf(a, k) == WrittenInside(a.brackets[k].inside)
Bracketed(a)   == [k \in DOMAIN a.brackets |-> <<"[">> \o InsideOf(a, k) \o <<"]">>]

WrittenAt(a, edge) ==
  /\ edge \in [0 .. Len(a.brackets) -> Nat] /\ edge[0] = 0
  /\ \A k \in 1 .. Len(a.brackets) :
       \E o \in Nat, l \in Nat, h \in Nat :
         /\ o = edge[k - 1] /\ l = Len(a.brackets[k].before) /\ h = Len(InsideOf(a, k))
         /\ At(WrittenList(a), o, a.brackets[k].before)
         /\ WrittenList(a)[o + l + 1] = "["
         /\ At(WrittenList(a), o + l + 1, InsideOf(a, k))
         /\ WrittenList(a)[edge[k]] = "]"
         /\ edge[k] = o + l + h + 2 /\ edge[k] <= Len(WrittenList(a))
  /\ At(WrittenList(a), edge[Len(a.brackets)], a.after)
  /\ Len(WrittenList(a)) = edge[Len(a.brackets)] + Len(a.after)

LEMMA WrittenListAt ==
  ASSUME NEW a \in OptionLists
  PROVE  WrittenList(a) \in Seq(Sign) /\ \E edge : WrittenAt(a, edge)
<1> DEFINE n == Len(a.brackets)
           before(k) == a.brackets[k].before
           fill == Bracketed(a)
           W == WrittenList(a)
<1>1. /\ n \in Nat /\ DOMAIN a.brackets = 1 .. n
      /\ \A k \in 1 .. n : before(k) \in Text /\ a.brackets[k].inside \in Seq(Plain)
  BY ListParts
<1>2. \A k \in 1 .. n : InsideOf(a, k) \in Seq(Sign) /\ Len(InsideOf(a, k)) \in Nat
  BY <1>1, InsideText, LenProperties DEF InsideOf
<1>3. /\ <<"[">> \in Seq(Sign) /\ Len(<<"[">>) = 1
      /\ <<"]">> \in Seq(Sign) /\ Len(<<"]">>) = 1
  <2>1. "[" \in Sign /\ "]" \in Sign
    BY DEF Sign, Signs
  <2>2. QED
    BY <2>1, OneSign
<1>4. ASSUME NEW k \in 1 .. n
      PROVE  /\ fill[k] = <<"[">> \o InsideOf(a, k) \o <<"]">> /\ fill[k] \in Seq(Sign)
             /\ <<"[">> \o InsideOf(a, k) \in Seq(Sign)
             /\ Len(<<"[">> \o InsideOf(a, k)) = Len(InsideOf(a, k)) + 1
             /\ Len(fill[k]) = Len(InsideOf(a, k)) + 2
  <2> DEFINE x == <<"[">>
             y == InsideOf(a, k)
             z == <<"]">>
  <2>1. /\ x \in Seq(Sign) /\ y \in Seq(Sign) /\ z \in Seq(Sign)
        /\ Len(x) = 1 /\ Len(z) = 1 /\ Len(y) \in Nat
    BY <1>2, <1>3
  <2>2. fill[k] = x \o y \o z
    BY <1>1 DEF Bracketed
  <2> HIDE DEF x, y, z, fill
  <2>3. x \o y \in Seq(Sign) /\ Len(x \o y) = Len(x) + Len(y)
    BY <2>1, ConcatProperties
  <2>4. (x \o y) \o z \in Seq(Sign) /\ Len((x \o y) \o z) = Len(x \o y) + Len(z)
    BY <2>1, <2>3, ConcatProperties
  <2>5. QED
    BY <2>1, <2>2, <2>3, <2>4 DEF x, y, z
<1>5. fill \in [DOMAIN a.brackets -> Seq(Sign)]
  <2>1. fill = [k \in DOMAIN a.brackets |-> fill[k]]
    BY DEF Bracketed
  <2> HIDE DEF fill
  <2>2. QED
    BY <1>1, <1>4, <2>1
<1>6. W = Filled(a, fill)
  BY DEF WrittenList, Bracketed, InsideOf
<1> HIDE DEF W, fill
<1>7. W \in Seq(Sign)
  BY <1>5, <1>6, FilledLaid
<1>8. PICK edge : FilledAt(a, fill, W, edge)
  BY <1>5, <1>6, FilledLaid
<1>9. /\ edge \in [0 .. n -> Nat] /\ edge[0] = 0
      /\ \A k \in 1 .. n : /\ At(W, edge[k - 1], before(k))
                           /\ At(W, edge[k - 1] + Len(before(k)), fill[k])
                           /\ edge[k] = edge[k - 1] + Len(before(k)) + Len(fill[k])
      /\ At(W, edge[n], a.after) /\ Len(W) = edge[n] + Len(a.after)
  BY <1>8 DEF FilledAt
<1>10. ASSUME NEW k \in 1 .. n
       PROVE  \E o \in Nat, l \in Nat, h \in Nat :
                /\ o = edge[k - 1] /\ l = Len(before(k)) /\ h = Len(InsideOf(a, k))
                /\ At(W, o, before(k))
                /\ W[o + l + 1] = "["
                /\ At(W, o + l + 1, InsideOf(a, k))
                /\ W[edge[k]] = "]"
                /\ edge[k] = o + l + h + 2 /\ edge[k] <= Len(W)
  <2>1. k - 1 \in 0 .. n
    BY <1>1
  <2>2. edge[k - 1] \in Nat
    BY <1>9, <2>1
  <2>3. Len(before(k)) \in Nat
    BY <1>1, TextIsSigns
  <2> HIDE DEF before
  <2>4. PICK o \in Nat, l \in Nat, h \in Nat :
          o = edge[k - 1] /\ l = Len(before(k)) /\ h = Len(InsideOf(a, k))
    BY <1>2, <2>2, <2>3
  <2> DEFINE x == <<"[">>
             y == InsideOf(a, k)
             z == <<"]">>
  <2>5. /\ At(W, o, before(k)) /\ At(W, o + l, (x \o y) \o z)
        /\ x \in Seq(Sign) /\ y \in Seq(Sign) /\ z \in Seq(Sign) /\ x \o y \in Seq(Sign)
        /\ Len(x \o y) = h + 1 /\ Len(x) = 1 /\ Len(z) = 1 /\ Len(y) = h
    BY <1>2, <1>3, <1>4, <1>9, <2>4
  <2>6. edge[k] = o + l + (h + 2)
    <3>1. edge[k] = o + l + Len(fill[k]) /\ Len(fill[k]) = h + 2
      BY <1>4, <1>9, <2>4
    <3>2. QED
      BY <3>1
  <2>7. o + l \in Nat
    OBVIOUS
  <2>8. At(W, o + l, x \o y) /\ At(W, o + l + (h + 1), z)
    <3> HIDE DEF x, y, z
    <3>1. At(W, o + l, x \o y) /\ At(W, (o + l) + Len(x \o y), z)
      BY <1>7, <2>5, <2>7, AtConcat
    <3>2. QED
      BY <2>5, <3>1
  <2>9. At(W, o + l, x) /\ At(W, o + l + 1, y)
    <3> HIDE DEF x, y, z
    <3>1. At(W, o + l, x) /\ At(W, (o + l) + Len(x), y)
      BY <1>7, <2>5, <2>7, <2>8, AtConcat
    <3>2. QED
      BY <2>5, <3>1
  <2>10. W[o + l + 1] = "["
    BY <2>9, AtSign
  <2>11. W[(o + l + (h + 1)) + 1] = "]" /\ (o + l + (h + 1)) + 1 <= Len(W)
    BY <2>8, AtSign
  <2>12. (o + l + (h + 1)) + 1 = edge[k] /\ edge[k] = o + l + h + 2
    BY <2>6
  <2>13. QED
    BY <2>4, <2>5, <2>9, <2>10, <2>11, <2>12
<1>11. WrittenAt(a, edge)
  BY <1>9, <1>10 DEF WrittenAt, W
<1>12. QED
  BY <1>7, <1>11 DEF W

(* What next_bracket finds before bracket k ...                            *)
LEMMA BracketFound ==
  ASSUME NEW a \in OptionLists, NEW edge, WrittenAt(a, edge), NEW k \in 1 .. Len(a.brackets)
  PROVE  \E o \in Nat, l \in Nat, h \in Nat :
           /\ o = edge[k - 1] /\ l = Len(a.brackets[k].before) /\ h = Len(InsideOf(a, k))
           /\ first(WrittenList(a), "[", o + 1) = o + l + 1
           /\ first(WrittenList(a), "]", o + l + 1) = edge[k]
           /\ SubSeq(WrittenList(a), o + 1, o + l) = a.brackets[k].before
           /\ SubSeq(WrittenList(a), o + l + 2, o + l + h + 1) = InsideOf(a, k)
           /\ edge[k] = o + l + h + 2 /\ edge[k] <= Len(WrittenList(a))
<1> DEFINE W == WrittenList(a)
           b == a.brackets[k].before
           y == InsideOf(a, k)
<1>1. PICK o \in Nat, l \in Nat, h \in Nat :
         /\ o = edge[k - 1] /\ l = Len(b) /\ h = Len(y)
         /\ At(W, o, b) /\ W[o + l + 1] = "[" /\ At(W, o + l + 1, y)
         /\ W[edge[k]] = "]" /\ edge[k] = o + l + h + 2 /\ edge[k] <= Len(W)
  BY DEF WrittenAt
<1>2. W \in Seq(Sign) /\ Len(W) \in Nat
  BY WrittenListAt, LenProperties
<1>3. b \in Text /\ a.brackets[k].inside \in Seq(Plain)
  BY ListParts
<1>4. y \in Seq(Sign) /\ \A p \in 1 .. Len(y) : y[p] \notin Brackets
  BY <1>3, InsideText DEF InsideOf
<1>5. b \in Seq(Sign) /\ \A p \in 1 .. Len(b) : b[p] \notin Signs
  BY <1>3, TextIsSigns
<1> HIDE DEF W, b, y
<1>6. \A x \in o + 1 .. o + l : W[x] # "["
  <2> SUFFICES ASSUME NEW x \in o + 1 .. o + l PROVE W[x] # "["
    OBVIOUS
  <2>1. PICK p \in 1 .. l : x = o + p
    <3>1. x - o \in 1 .. l /\ x = o + (x - o)
      OBVIOUS
    <3>2. QED
      BY <3>1
  <2>2. W[x] = b[p]
    BY <1>1, <2>1 DEF At
  <2>3. QED
    BY <1>1, <1>5, <2>1, <2>2 DEF Signs
<1>7. \A x \in o + l + 1 .. o + l + h + 1 : W[x] # "]"
  <2> SUFFICES ASSUME NEW x \in o + l + 1 .. o + l + h + 1 PROVE W[x] # "]"
    OBVIOUS
  <2>1. CASE x = o + l + 1
    BY <1>1, <2>1
  <2>2. CASE x # o + l + 1
    <3>1. PICK p \in 1 .. h : x = (o + l + 1) + p
      <4>1. x - (o + l + 1) \in 1 .. h /\ x = (o + l + 1) + (x - (o + l + 1))
        BY <2>2
      <4>2. QED
        BY <4>1
    <3>2. W[x] = y[p]
      BY <1>1, <3>1 DEF At
    <3>3. QED
      BY <1>1, <1>4, <3>1, <3>2 DEF Brackets
  <2>3. QED
    BY <2>1, <2>2
<1>8. first(W, "[", o + 1) = o + l + 1
  <2>1. PICK from \in Nat, m \in Nat : from = o + 1 /\ m = o + l + 1
    OBVIOUS
  <2>a. m <= Len(W) /\ from <= m
    <3>1. o + l + h + 2 <= Len(W)
      BY <1>1
    <3>2. QED
      BY <1>2, <2>1, <3>1
  <2>b. from .. m - 1 = o + 1 .. o + l
    BY <2>1
  <2>2. m \in from .. Len(W) /\ W[m] = "[" /\ \A x \in from .. m - 1 : W[x] # "["
    BY <1>1, <1>2, <1>6, <2>1, <2>a, <2>b
  <2>3. first(W, "[", from) = m
    BY <1>2, <2>2, FirstIs
  <2>4. QED
    BY <2>1, <2>3
<1>9. first(W, "]", o + l + 1) = edge[k]
  <2>a. o + l + 1 \in Nat /\ o + l + h + 2 \in Nat
    OBVIOUS
  <2>1. PICK from \in Nat, m \in Nat : from = o + l + 1 /\ m = o + l + h + 2
    BY <2>a
  <2>2. m \in from .. Len(W) /\ W[m] = "]" /\ \A x \in from .. m - 1 : W[x] # "]"
    BY <1>1, <1>2, <1>7, <2>1
  <2>3. first(W, "]", from) = m
    BY <1>2, <2>2, FirstIs
  <2>4. QED
    BY <1>1, <2>1, <2>3
<1>10. SubSeq(W, o + 1, o + l) = b
  BY <1>1, <1>2, <1>5, AtIsSubSeq
<1>11. SubSeq(W, o + l + 2, o + l + h + 1) = y
  <2>1. PICK q \in Nat : q = o + l + 1
    OBVIOUS
  <2>2. SubSeq(W, q + 1, q + h) = y
    BY <1>1, <1>2, <1>4, <2>1, AtIsSubSeq
  <2>3. q + 1 = o + l + 2 /\ q + h = o + l + h + 1
    BY <2>1
  <2>4. QED
    BY <2>2, <2>3
<1>12. QED
  BY <1>1, <1>8, <1>9, <1>10, <1>11 DEF W, b, y

(* ... and behind the last.                                                *)
LEMMA NoBracketFound ==
  ASSUME NEW a \in OptionLists, NEW edge, WrittenAt(a, edge)
  PROVE  \E o \in Nat :
           /\ o = edge[Len(a.brackets)]
           /\ first(WrittenList(a), "[", o + 1) = Len(WrittenList(a)) + 1
           /\ SubSeq(WrittenList(a), o + 1, Len(WrittenList(a))) = a.after
           /\ Len(WrittenList(a)) = o + Len(a.after)
<1> DEFINE W == WrittenList(a)
           z == a.after
<1>1. At(W, edge[Len(a.brackets)], z) /\ Len(W) = edge[Len(a.brackets)] + Len(z)
  BY DEF WrittenAt
<1>2. PICK o \in Nat : o = edge[Len(a.brackets)]
  BY <1>1 DEF At
<1>3. W \in Seq(Sign) /\ Len(W) \in Nat
  BY WrittenListAt, LenProperties
<1>4. z \in Text
  BY ListParts
<1> HIDE DEF W, z
<1>5. z \in Seq(Sign) /\ Len(z) \in Nat /\ \A p \in 1 .. Len(z) : z[p] \notin Signs
  BY <1>4, TextIsSigns
<1>6. At(W, o, z) /\ Len(W) = o + Len(z)
  BY <1>1, <1>2
<1>7. \A x \in o + 1 .. Len(W) : W[x] # "["
  <2> SUFFICES ASSUME NEW x \in o + 1 .. Len(W) PROVE W[x] # "["
    OBVIOUS
  <2>1. PICK p \in 1 .. Len(z) : x = o + p
    <3>1. x - o \in 1 .. Len(z) /\ x = o + (x - o)
      BY <1>5, <1>6
    <3>2. QED
      BY <3>1
  <2>2. W[x] = z[p]
    BY <1>6, <2>1 DEF At
  <2>3. QED
    BY <1>5, <2>1, <2>2 DEF Signs
<1>8. first(W, "[", o + 1) = Len(W) + 1
  BY <1>7, FirstIsEnd
<1>9. SubSeq(W, o + 1, Len(W)) = z
  BY <1>3, <1>5, <1>6, AtIsSubSeq
<1>10. QED
  BY <1>2, <1>6, <1>8, <1>9 DEF W, z

(* Bracket b is filled by the digits between the literal before it, that   *)
(* starts at u, and v.                                                     *)
Turn(text, b, u, v) ==
  /\ At(text, u, b.before)
  /\ v \in Nat /\ v > u + Len(b.before)
  /\ RunTo(text, u + Len(b.before), v)
  /\ DenotesInside(b.inside, SubSeq(text, u + Len(b.before) + 1, v))

LEMMA StringsAreSigns ==
  ASSUME NEW text \in Seq(STRING)
  PROVE  /\ text \in Seq(Sign) /\ Len(text) \in Nat /\ DOMAIN text = 1 .. Len(text)
         /\ \A k \in 1 .. Len(text) : text[k] \in STRING
<1>1. STRING \subseteq Sign
  BY DEF Sign
<1>2. QED
  BY <1>1, SeqMonotonic, LenProperties, ElementOfSeq

LEMMA PartOfText ==
  ASSUME NEW S, NEW text \in Seq(S), NEW o \in Nat, NEW v \in Nat, o <= v, v <= Len(text)
  PROVE  /\ SubSeq(text, o + 1, v) \in Seq(S) /\ Len(SubSeq(text, o + 1, v)) = v - o
         /\ \A p \in 1 .. v - o : SubSeq(text, o + 1, v)[p] = text[o + p]
         /\ At(text, o, SubSeq(text, o + 1, v))
<1>1. Len(text) \in Nat
  BY LenProperties
<1> DEFINE r == SubSeq(text, o + 1, v)
<1>2. \A k \in o + 1 .. v : text[k] \in S
  <2>1. \A k \in o + 1 .. v : k \in 1 .. Len(text)
    BY <1>1
  <2>2. QED
    BY <2>1, ElementOfSeq
<1>3. /\ r \in Seq(S)
      /\ Len(r) = IF o + 1 <= v THEN v - (o + 1) + 1 ELSE 0
      /\ \A k \in 1 .. v - (o + 1) + 1 : r[k] = text[(o + 1) + k - 1]
  BY <1>1, <1>2, SubSeqProperties
<1> HIDE DEF r
<1>4. Len(r) = v - o
  BY <1>3
<1>5. \A p \in 1 .. v - o : r[p] = text[o + p]
  <2>1. v - (o + 1) + 1 = v - o /\ \A p \in 1 .. v - o : (o + 1) + p - 1 = o + p
    OBVIOUS
  <2>2. QED
    BY <1>3, <2>1
<1>6. At(text, o, r)
  <2>1. o + Len(r) <= Len(text)
    BY <1>1, <1>4
  <2>2. \A p \in 1 .. Len(r) : text[o + p] = r[p]
    BY <1>4, <1>5
  <2>3. QED
    BY <2>1, <2>2 DEF At
<1>7. QED
  BY <1>3, <1>4, <1>5, <1>6 DEF r

LEMMA TurnUnique ==
  ASSUME NEW text, Len(text) \in Nat, NEW b, Len(b.before) \in Nat, NEW u \in Nat,
         NEW v, Turn(text, b, u, v), NEW x, Turn(text, b, u, x)
  PROVE  v = x
<1>1. PICK o \in Nat : o = u + Len(b.before)
  OBVIOUS
<1>2. RunTo(text, o, v) /\ RunTo(text, o, x) /\ o <= Len(text)
  BY <1>1 DEF Turn, At
<1>3. o \in 0 .. Len(text)
  BY <1>2
<1>4. PICK y \in Nat : \A w : RunTo(text, o, w) => w = y
  BY <1>3, HexRun
<1>5. QED
  BY <1>2, <1>4

Walked == [used : Nat, at : Nat, result : {RUNNING, 0, 1, -1}]

(* One turn of the walk over a bracket.                                    *)
LEMMA TurnTaken ==
  ASSUME NEW a \in OptionLists, NEW edge, WrittenAt(a, edge), NEW k \in 1 .. Len(a.brackets),
         ValidInside(a.brackets[k].inside), NEW text \in Seq(STRING),
         NEW w \in Walked, w.result = RUNNING, w.at = edge[k - 1]
  PROVE  \/ \E v \in Nat :
              /\ Turn(text, a.brackets[k], w.used, v)
              /\ next_bracket(text, WrittenList(a), w) =
                   [used |-> v, at |-> edge[k], result |-> RUNNING]
         \/ /\ next_bracket(text, WrittenList(a), w).result = 0
            /\ \A v : ~Turn(text, a.brackets[k], w.used, v)
<1> DEFINE W == WrittenList(a)
           b == a.brackets[k]
           y == InsideOf(a, k)
<1>1. PICK o \in Nat, l \in Nat, h \in Nat :
           /\ o = edge[k - 1] /\ l = Len(b.before) /\ h = Len(y)
           /\ first(W, "[", o + 1) = o + l + 1
           /\ first(W, "]", o + l + 1) = edge[k]
           /\ SubSeq(W, o + 1, o + l) = b.before
           /\ SubSeq(W, o + l + 2, o + l + h + 1) = y
           /\ edge[k] = o + l + h + 2 /\ edge[k] <= Len(W)
  BY BracketFound
<1>2. /\ text \in Seq(Sign) /\ Len(text) \in Nat
  BY StringsAreSigns
<1>3. b.before \in Text /\ b.inside \in Seq(Plain) /\ b.inside # <<>>
  BY ListParts
<1>4. b.before \in Seq(Sign)
  BY <1>3, TextIsSigns
<1>5. h # 0
  <2>1. y # <<>>
    BY DEF ValidInside, InsideOf
  <2>2. y \in Seq(Sign)
    BY <1>3, InsideText DEF InsideOf
  <2>3. QED
    BY <1>1, <2>1, <2>2, EmptySeq
<1>6. \A s \in Seq(STRING) : match_inside(s, y) = Truth(DenotesInside(b.inside, s))
  BY <1>3, InsideMeaning DEF ValidInside, InsideOf
<1>7. Len(W) \in Nat
  BY WrittenListAt, LenProperties
<1> HIDE DEF W, b, y
<1>8. PICK u \in Nat : u = w.used
  BY DEF Walked
<1> DEFINE run == hex_run(text, u + l)
           given == SubSeq(text, u + l + 1, u + l + run)
<1>9. next_bracket(text, W, w) =
        IF u + l > Len(text) \/ SubSeq(text, u + 1, u + l) # b.before
        THEN [w EXCEPT !.result = 0]
        ELSE IF run = 0 THEN [w EXCEPT !.result = 0]
        ELSE [used |-> u + l + run, at |-> edge[k],
              result |-> IF match_inside(given, y) = 1 THEN RUNNING ELSE match_inside(given, y)]
  <2>1. /\ first(W, "[", w.at + 1) = o + l + 1
        /\ first(W, "]", o + l + 1) = edge[k]
        /\ SubSeq(W, w.at + 1, (o + l + 1) - 1) = b.before
        /\ SubSeq(W, (o + l + 1) + 1, edge[k] - 1) = y
    <3>1. (o + l + 1) - 1 = o + l /\ (o + l + 1) + 1 = o + l + 2
      OBVIOUS
    <3>2. edge[k] - 1 = o + l + h + 1
      BY <1>1
    <3>3. QED
      BY <1>1, <3>1, <3>2
  <2>2. ~(o + l + 1 > Len(W)) /\ ~(edge[k] > Len(W)) /\ edge[k] # (o + l + 1) + 1
    <3>a. o + l + h + 2 \in Nat
      OBVIOUS
    <3>1. PICK e \in Nat : e = edge[k] /\ e = o + l + h + 2 /\ e <= Len(W)
      BY <1>1, <3>a
    <3>2. QED
      BY <1>5, <1>7, <3>1
  <2>3. QED
    BY <1>1, <1>8, <2>1, <2>2 DEF next_bracket
<1>10. At(text, u, b.before) <=> ~(u + l > Len(text) \/ SubSeq(text, u + 1, u + l) # b.before)
  <2>1. /\ At(text, u, b.before) => SubSeq(text, u + 1, u + Len(b.before)) = b.before
        /\ u + Len(b.before) <= Len(text) /\ SubSeq(text, u + 1, u + Len(b.before)) = b.before
             => At(text, u, b.before)
    BY <1>2, <1>4, AtIsSubSeq
  <2>2. At(text, u, b.before) => u + l <= Len(text)
    BY <1>1 DEF At
  <2>3. QED
    BY <1>1, <1>2, <2>1, <2>2
<1>11. CASE ~At(text, u, b.before)
  <2>1. next_bracket(text, W, w) = [w EXCEPT !.result = 0]
    BY <1>9, <1>10, <1>11
  <2>2. next_bracket(text, W, w).result = 0
    BY <2>1 DEF Walked
  <2>3. \A v : ~Turn(text, b, w.used, v)
    BY <1>8, <1>11 DEF Turn
  <2>4. QED
    BY <2>2, <2>3 DEF W, b
<1>12. CASE At(text, u, b.before)
  <2>1. u + l \in 0 .. Len(text)
    <3>1. PICK x \in Nat : x = Len(text)
      BY <1>2
    <3>2. u + Len(b.before) <= Len(text) /\ Len(b.before) = l
      BY <1>1, <1>12 DEF At
    <3>3. u + l <= x
      BY <3>1, <3>2
    <3>4. u + l \in 0 .. x
      BY <3>3
    <3>5. QED
      BY <3>1, <3>4
  <2>2. PICK v \in Nat : /\ run = v - (u + l) /\ RunTo(text, u + l, v)
                         /\ \A x : RunTo(text, u + l, x) => x = v
    BY <1>2, <2>1, HexRun
  <2>3. v <= Len(text) /\ u + l <= v
    BY <1>2, <2>1, <2>2 DEF RunTo
  <2>4. next_bracket(text, W, w) =
          IF run = 0 THEN [w EXCEPT !.result = 0]
          ELSE [used |-> u + l + run, at |-> edge[k],
                result |-> IF match_inside(given, y) = 1 THEN RUNNING ELSE match_inside(given, y)]
    BY <1>9, <1>10, <1>12
  <2>5. u + l + run = v /\ (run = 0 <=> v = u + l)
    <3> HIDE DEF run
    <3>1. QED
      BY <2>1, <2>2
  <2>6. given = SubSeq(text, u + l + 1, v)
    BY <2>5
  <2>7. given \in Seq(STRING)
    <3>1. PICK q \in Nat : q = u + l
      BY <2>1
    <3>2. SubSeq(text, q + 1, v) \in Seq(STRING)
      BY <2>3, <3>1, PartOfText
    <3>3. QED
      BY <2>6, <3>1, <3>2
  <2>8. match_inside(given, y) = Truth(DenotesInside(b.inside, given))
    BY <1>6, <2>7
  <2> HIDE DEF given, run
  <2>9. \A x : Turn(text, b, w.used, x) => x = v /\ v > u + l /\ DenotesInside(b.inside, given)
    BY <1>1, <1>8, <2>2, <2>6 DEF Turn
  <2>10. CASE v = u + l
    <3>1. next_bracket(text, W, w).result = 0
      BY <2>4, <2>5, <2>10 DEF Walked
    <3>2. \A x : ~Turn(text, b, w.used, x)
      BY <2>9, <2>10
    <3>3. QED
      BY <3>1, <3>2 DEF W, b
  <2>11. CASE v # u + l /\ DenotesInside(b.inside, given)
    <3>1. match_inside(given, y) = 1
      BY <2>8, <2>11, Zenon DEF Truth
    <3>2. next_bracket(text, W, w) = [used |-> v, at |-> edge[k], result |-> RUNNING]
      BY <2>4, <2>5, <2>11, <3>1
    <3>3. Turn(text, b, w.used, v)
      <4>1. v > u + l
        BY <2>1, <2>3, <2>11
      <4>2. QED
        BY <1>1, <1>8, <1>12, <2>2, <2>6, <2>11, <4>1 DEF Turn
    <3>4. QED
      BY <3>2, <3>3 DEF W, b
  <2>12. CASE v # u + l /\ ~DenotesInside(b.inside, given)
    <3>1. match_inside(given, y) = 0
      BY <2>8, <2>12, Zenon DEF Truth
    <3>2. next_bracket(text, W, w) = [used |-> v, at |-> edge[k], result |-> 0]
      BY <2>4, <2>5, <2>12, <3>1
    <3>3. next_bracket(text, W, w).result = 0
      BY <3>2
    <3>4. \A x : ~Turn(text, b, w.used, x)
      BY <2>9, <2>12, Zenon
    <3>5. QED
      BY <3>3, <3>4 DEF W, b
  <2>13. QED
    BY <2>10, <2>11, <2>12
<1>13. QED
  BY <1>11, <1>12

(* The last turn.                                                          *)
LEMMA LastTurn ==
  ASSUME NEW a \in OptionLists, NEW edge, WrittenAt(a, edge), NEW text \in Seq(STRING),
         NEW w \in Walked, w.result = RUNNING, w.at = edge[Len(a.brackets)]
  PROVE  next_bracket(text, WrittenList(a), w).result =
           IF At(text, w.used, a.after) /\ Len(text) = w.used + Len(a.after) THEN 1 ELSE 0
<1> DEFINE W == WrittenList(a)
           z == a.after
<1>1. PICK o \in Nat :
           /\ o = edge[Len(a.brackets)]
           /\ first(W, "[", o + 1) = Len(W) + 1
           /\ SubSeq(W, o + 1, Len(W)) = z
           /\ Len(W) = o + Len(z)
  BY NoBracketFound
<1>2. text \in Seq(Sign) /\ Len(text) \in Nat
  BY StringsAreSigns
<1>3. z \in Text
  BY ListParts
<1>4. z \in Seq(Sign) /\ Len(z) \in Nat
  BY <1>3, TextIsSigns
<1>5. Len(W) \in Nat
  BY WrittenListAt, LenProperties
<1> HIDE DEF W, z
<1>6. PICK u \in Nat, l \in Nat : u = w.used /\ l = Len(z)
  BY <1>4 DEF Walked
<1>7. next_bracket(text, W, w) =
        IF u + l > Len(text) \/ SubSeq(text, u + 1, u + l) # z
        THEN [w EXCEPT !.result = 0]
        ELSE [w EXCEPT !.result = Truth(u + l = Len(text))]
  <2>1. /\ first(W, "[", w.at + 1) = Len(W) + 1
        /\ SubSeq(W, w.at + 1, (Len(W) + 1) - 1) = z
    <3>1. (Len(W) + 1) - 1 = Len(W)
      BY <1>5
    <3>2. QED
      BY <1>1, <3>1
  <2>2. Len(W) + 1 > Len(W)
    BY <1>5
  <2>3. QED
    BY <1>6, <2>1, <2>2 DEF next_bracket
<1>8. At(text, u, z) <=> ~(u + l > Len(text) \/ SubSeq(text, u + 1, u + l) # z)
  <2>1. /\ At(text, u, z) => SubSeq(text, u + 1, u + Len(z)) = z
        /\ u + Len(z) <= Len(text) /\ SubSeq(text, u + 1, u + Len(z)) = z => At(text, u, z)
    BY <1>2, <1>4, AtIsSubSeq
  <2>2. At(text, u, z) => u + l <= Len(text)
    BY <1>6 DEF At
  <2>3. QED
    BY <1>2, <1>6, <2>1, <2>2
<1>9. CASE ~At(text, u, z)
  <2>1. next_bracket(text, W, w) = [w EXCEPT !.result = 0]
    BY <1>7, <1>8, <1>9
  <2>2. next_bracket(text, W, w).result = 0
    BY <2>1 DEF Walked
  <2>3. QED
    BY <1>6, <1>9, <2>2 DEF W, z
<1>10. CASE At(text, u, z)
  <2>1. next_bracket(text, W, w) = [w EXCEPT !.result = Truth(u + l = Len(text))]
    BY <1>7, <1>8, <1>10
  <2>2. next_bracket(text, W, w).result = Truth(u + l = Len(text))
    BY <2>1 DEF Walked
  <2>3. QED
    BY <1>6, <1>10, <2>2 DEF W, z, Truth
<1>11. QED
  BY <1>9, <1>10

(* The walk of match_brackets.                                             *)
WalkStart == [used |-> 0, at |-> 0, result |-> RUNNING]

Walking(text, e, f) ==
  [k \in 0 .. Len(e) |-> IF k = 0 THEN [used |-> 0, at |-> 0, result |-> RUNNING]
                         ELSE next_bracket(text, e, f[k - 1])]
WalkOf(text, e) == CHOOSE f : f = Walking(text, e, f)

LEMMA MatchIsWalk ==
  ASSUME NEW text, NEW e
  PROVE  match_brackets(text, e) = WalkOf(text, e)[Len(e)].result
BY Zenon DEF match_brackets, Walking, WalkOf

LEMMA FirstPlace ==
  ASSUME NEW text, Len(text) \in Nat, NEW c, NEW k \in Nat
  PROVE  first(text, c, k) \in Nat /\ first(text, c, k) <= Len(text) + 1
<1> DEFINE places == {m \in k .. Len(text) : text[m] = c}
<1>1. places \subseteq Nat
  OBVIOUS
<1>2. /\ places = {} => first(text, c, k) = Len(text) + 1
      /\ places # {} => first(text, c, k) \in places
  <2> HIDE DEF places
  <2>1. first(text, c, k) = least(places, Len(text) + 1)
    BY DEF first, places
  <2>2. places = {} => least(places, Len(text) + 1) = Len(text) + 1
    BY <1>1, LeastPlace
  <2>3. places # {} => least(places, Len(text) + 1) \in places
    BY <1>1, LeastPlace
  <2>4. QED
    BY <2>1, <2>2, <2>3
<1>3. QED
  BY <1>2

LEMMA InsideRange ==
  ASSUME NEW text, NEW e
  PROVE  match_inside(text, e) \in {-1, 0, 1}
BY DEF match_inside, Truth

LEMMA NextWalked ==
  ASSUME NEW text \in Seq(STRING), NEW e \in Seq(Sign), NEW w \in Walked
  PROVE  next_bracket(text, e, w) \in Walked
<1>1. Len(text) \in Nat /\ Len(e) \in Nat
  BY LenProperties
<1>2. PICK u \in Nat, p \in Nat : u = w.used /\ p = w.at
  BY DEF Walked
<1> DEFINE open    == first(e, "[", p + 1)
           end     == first(e, "]", open)
           literal == SubSeq(e, p + 1, open - 1)
           used    == u + Len(literal)
           run     == hex_run(text, used)
           inside  == match_inside(SubSeq(text, used + 1, used + run),
                                   SubSeq(e, open + 1, end - 1))
<1>3. open \in Nat /\ open <= Len(e) + 1
  <2>1. p + 1 \in Nat
    OBVIOUS
  <2>2. QED
    BY <1>1, <2>1, FirstPlace
<1> HIDE DEF open
<1>4. end \in Nat
  BY <1>1, <1>3, FirstPlace
<1>5. Len(literal) \in Nat
  <2>1. \A k \in p + 1 .. open - 1 : e[k] \in Sign
    <3>1. \A k \in p + 1 .. open - 1 : k \in 1 .. Len(e)
      BY <1>1, <1>3
    <3>2. QED
      BY <3>1, ElementOfSeq
  <2>2. p + 1 \in 1 .. Len(e) + 1 \/ ~(p + 1 <= open - 1)
    BY <1>1, <1>3
  <2>3. open - 1 \in Int /\ p + 1 \in Int
    BY <1>3
  <2>4. literal \in Seq(Sign)
    BY <2>1, <2>3, SubSeqProperties
  <2>5. QED
    BY <2>4, LenProperties
<1> HIDE DEF literal, end
<1>6. used \in Nat
  BY <1>5
<1> HIDE DEF used
<1>7. ~(used > Len(text)) => run \in Nat
  <2> SUFFICES ASSUME ~(used > Len(text)) PROVE run \in Nat
    OBVIOUS
  <2>1. used \in 0 .. Len(text)
    BY <1>1, <1>6
  <2>2. PICK v \in Nat : run = v - used /\ RunTo(text, used, v)
    BY <1>1, <2>1, HexRun
  <2>3. v >= used
    BY <2>1, <2>2 DEF RunTo
  <2> HIDE DEF run
  <2>4. QED
    BY <1>6, <2>2, <2>3
<1>8. inside \in {-1, 0, 1}
  BY InsideRange
<1>9. next_bracket(text, e, w) =
        IF w.result # RUNNING THEN w
        ELSE IF used > Len(text) \/ SubSeq(text, w.used + 1, used) # literal
        THEN [w EXCEPT !.result = 0]
        ELSE IF open > Len(e)
        THEN [w EXCEPT !.result = Truth(used = Len(text))]
        ELSE IF end > Len(e) \/ end = open + 1
        THEN [w EXCEPT !.result = -1]
        ELSE IF run = 0 THEN [w EXCEPT !.result = 0]
        ELSE [used |-> used + run, at |-> end, result |-> IF inside = 1 THEN RUNNING ELSE inside]
  BY <1>2, Zenon DEF next_bracket, open, end, literal, used, run, inside
<1> HIDE DEF run, inside
<1>10. \A r \in {RUNNING, 0, 1, -1} : [w EXCEPT !.result = r] \in Walked
  BY DEF Walked
<1>11. Truth(used = Len(text)) \in {RUNNING, 0, 1, -1}
  BY DEF Truth
<1>12. (IF inside = 1 THEN RUNNING ELSE inside) \in {RUNNING, 0, 1, -1}
  BY <1>8
<1>13. ~(used > Len(text)) =>
         [used |-> used + run, at |-> end, result |-> IF inside = 1 THEN RUNNING ELSE inside] \in Walked
  <2> SUFFICES ASSUME ~(used > Len(text))
               PROVE  [used |-> used + run, at |-> end,
                       result |-> IF inside = 1 THEN RUNNING ELSE inside] \in Walked
    OBVIOUS
  <2>1. used + run \in Nat
    BY <1>6, <1>7
  <2>2. QED
    BY <1>4, <1>12, <2>1 DEF Walked
<1>14. 0 \in {RUNNING, 0, 1, -1} /\ -1 \in {RUNNING, 0, 1, -1}
  OBVIOUS
<1>15. CASE w.result # RUNNING
  BY <1>9, <1>15
<1>16. CASE w.result = RUNNING /\ (used > Len(text) \/ SubSeq(text, w.used + 1, used) # literal)
  BY <1>9, <1>10, <1>14, <1>16
<1>17. CASE w.result = RUNNING /\ ~(used > Len(text) \/ SubSeq(text, w.used + 1, used) # literal)
  <2>1. next_bracket(text, e, w) =
        IF open > Len(e)
        THEN [w EXCEPT !.result = Truth(used = Len(text))]
        ELSE IF end > Len(e) \/ end = open + 1
        THEN [w EXCEPT !.result = -1]
        ELSE IF run = 0 THEN [w EXCEPT !.result = 0]
        ELSE [used |-> used + run, at |-> end, result |-> IF inside = 1 THEN RUNNING ELSE inside]
    BY <1>9, <1>17
  <2>2. QED
    BY <1>10, <1>11, <1>13, <1>14, <1>17, <2>1
<1>18. QED
  BY <1>15, <1>16, <1>17

LEMMA WalkSteps ==
  ASSUME NEW text \in Seq(STRING), NEW e \in Seq(Sign)
  PROVE  /\ WalkOf(text, e)[0] = WalkStart
         /\ \A k \in 1 .. Len(e) : WalkOf(text, e)[k] = next_bracket(text, e, WalkOf(text, e)[k - 1])
         /\ \A k \in 0 .. Len(e) : WalkOf(text, e)[k] \in Walked
<1>1. Len(e) \in Nat
  BY LenProperties
<1> DEFINE S == Walked
           c == WalkStart
           g == [x \in Nat \X S |-> next_bracket(text, e, x[2])]
<1>2. g \in StepOn(S)
  BY NextWalked DEF StepOn
<1>3. \A k \in Nat, v \in S : g[<<k, v>>] = next_bracket(text, e, v)
  OBVIOUS
<1>4. c \in S
  BY DEF WalkStart, Walked
<1> HIDE DEF g, S, c
<1>5. PICK h : Recursive(h, S, c, Len(e), g)
  BY <1>1, <1>2, <1>4, FiniteRecursion
<1>6. /\ h \in [0 .. Len(e) -> S] /\ h[0] = c
      /\ \A n \in 1 .. Len(e) : h[n] = g[<<n - 1, h[n - 1]>>]
  BY <1>5 DEF Recursive
<1>7. \A n \in 1 .. Len(e) : h[n] = next_bracket(text, e, h[n - 1])
  <2> SUFFICES ASSUME NEW n \in 1 .. Len(e) PROVE h[n] = next_bracket(text, e, h[n - 1])
    OBVIOUS
  <2>1. n - 1 \in Nat /\ n - 1 \in 0 .. Len(e)
    BY <1>1
  <2>2. h[n - 1] \in S
    BY <1>6, <2>1
  <2>3. QED
    BY <1>3, <1>6, <2>1, <2>2
<1>8. h = Walking(text, e, h)
  <2>1. \A n \in 0 .. Len(e) : n # 0 => n \in 1 .. Len(e)
    BY <1>1
  <2>2. h = [n \in 0 .. Len(e) |-> h[n]]
    BY <1>6
  <2>3. QED
    BY <1>6, <1>7, <2>1, <2>2 DEF Walking, c, WalkStart
<1> DEFINE f == WalkOf(text, e)
<1>9. f = Walking(text, e, f)
  BY <1>8 DEF WalkOf
<1> HIDE DEF f
<1>10. \A k \in 0 .. Len(e) : f[k] = IF k = 0 THEN WalkStart ELSE next_bracket(text, e, f[k - 1])
  BY <1>9 DEF Walking, WalkStart
<1>11. f[0] = WalkStart
  BY <1>1, <1>10
<1>12. \A k \in 1 .. Len(e) : f[k] = next_bracket(text, e, f[k - 1])
  <2>1. \A k \in 1 .. Len(e) : k \in 0 .. Len(e) /\ k # 0
    BY <1>1
  <2>2. QED
    BY <1>10, <2>1
<1> DEFINE T == {n \in Nat : n <= Len(e) => f[n] \in Walked}
<1>13. 0 \in T
  BY <1>4, <1>11 DEF c, S
<1>14. ASSUME NEW n \in Nat, n \in T PROVE n + 1 \in T
  <2> SUFFICES ASSUME n + 1 <= Len(e) PROVE f[n + 1] \in Walked
    OBVIOUS
  <2>1. n + 1 \in 1 .. Len(e) /\ (n + 1) - 1 = n /\ f[n] \in Walked
    BY <1>1, <1>14
  <2>2. f[n + 1] = next_bracket(text, e, f[n])
    BY <1>12, <2>1
  <2>3. QED
    BY <2>1, <2>2, NextWalked
<1> HIDE DEF T
<1>15. \A n \in Nat : n \in T
  BY <1>13, <1>14, Induction
<1>16. \A k \in 0 .. Len(e) : f[k] \in Walked
  BY <1>1, <1>15 DEF T
<1>17. QED
  BY <1>11, <1>12, <1>16 DEF f

(* Every bracket filled by digits, up to F[k] for bracket k.               *)
Filling(a, text, F) ==
  /\ F \in [0 .. Len(a.brackets) -> Nat] /\ F[0] = 0
  /\ \A k \in 1 .. Len(a.brackets) : Turn(text, a.brackets[k], F[k - 1], F[k])
  /\ At(text, F[Len(a.brackets)], a.after)
  /\ Len(text) = F[Len(a.brackets)] + Len(a.after)

(* Brackets take room, so that the walk has turns enough.                  *)
LEMMA TurnsEnough ==
  ASSUME NEW a \in OptionLists, NEW edge, WrittenAt(a, edge)
  PROVE  Len(a.brackets) + 1 <= Len(WrittenList(a))
<1> DEFINE n == Len(a.brackets)
           T == {k \in Nat : k <= n => edge[k] >= 2 * k}
<1>1. n \in Nat /\ n > 0
  BY ListParts
<1>2. edge \in [0 .. n -> Nat] /\ edge[0] = 0
  BY DEF WrittenAt
<1>3. 0 \in T
  BY <1>2
<1>4. ASSUME NEW k \in Nat, k \in T PROVE k + 1 \in T
  <2> SUFFICES ASSUME k + 1 <= n PROVE edge[k + 1] >= 2 * (k + 1)
    OBVIOUS
  <2>1. PICK m \in 1 .. n : m = k + 1 /\ m - 1 = k
    BY <1>1
  <2>2. PICK o \in Nat, l \in Nat, h \in Nat : o = edge[m - 1] /\ edge[m] = o + l + h + 2
    BY DEF WrittenAt
  <2>3. o >= 2 * k
    BY <1>1, <1>4, <2>1, <2>2
  <2>4. o + l + h + 2 >= 2 * (k + 1)
    BY <2>3
  <2>5. QED
    BY <2>1, <2>2, <2>4
<1> HIDE DEF T
<1>5. n \in T
  BY <1>1, <1>3, <1>4, Induction
<1>6. edge[n] >= 2 * n
  BY <1>1, <1>5 DEF T
<1>7. \E o \in Nat : o = edge[n] /\ edge[n] <= Len(WrittenList(a))
  <2>1. n \in 1 .. n
    BY <1>1
  <2>2. edge[n] <= Len(WrittenList(a))
    BY <2>1 DEF WrittenAt
  <2>3. n \in 0 .. n
    BY <1>1
  <2>4. QED
    BY <1>2, <2>2, <2>3
<1>8. Len(WrittenList(a)) \in Nat
  BY WrittenListAt, LenProperties
<1>9. QED
  BY <1>1, <1>6, <1>7, <1>8

(* match_brackets finds a filling if there is one.                         *)
LEMMA ListMatched ==
  ASSUME NEW a \in OptionLists, ValidList(a), NEW text \in Seq(STRING)
  PROVE  match_brackets(text, WrittenList(a)) = IF \E F : Filling(a, text, F) THEN 1 ELSE 0
<1> DEFINE n == Len(a.brackets)
           W == WrittenList(a)
           walk == WalkOf(text, W)
           b(k) == a.brackets[k]
<1>1. n \in Nat /\ n > 0 /\ DOMAIN a.brackets = 1 .. n
  BY ListParts
<1>2. PICK edge : WrittenAt(a, edge)
  BY WrittenListAt
<1>3. W \in Seq(Sign) /\ Len(W) \in Nat
  BY WrittenListAt, LenProperties
<1>4. /\ walk[0] = WalkStart
      /\ \A k \in 1 .. Len(W) : walk[k] = next_bracket(text, W, walk[k - 1])
      /\ \A k \in 0 .. Len(W) : walk[k] \in Walked
  BY <1>3, WalkSteps
<1>5. match_brackets(text, W) = walk[Len(W)].result
  BY MatchIsWalk
<1>6. n + 1 <= Len(W)
  BY <1>2, TurnsEnough
<1>7. \A k \in 1 .. n : ValidInside(b(k).inside)
  BY <1>1 DEF ValidList
<1>8. edge[0] = 0
  BY <1>2 DEF WrittenAt
<1> HIDE DEF walk
<1>9. ASSUME NEW k \in 1 .. n, walk[k - 1].result = RUNNING, walk[k - 1].at = edge[k - 1]
      PROVE  \/ \E v \in Nat : /\ Turn(text, b(k), walk[k - 1].used, v)
                               /\ walk[k] = [used |-> v, at |-> edge[k], result |-> RUNNING]
             \/ /\ walk[k].result = 0
                /\ \A v : ~Turn(text, b(k), walk[k - 1].used, v)
  <2>1. k - 1 \in 0 .. Len(W) /\ k \in 1 .. Len(W)
    BY <1>1, <1>3, <1>6
  <2> DEFINE w == walk[k - 1]
  <2>2. w \in Walked /\ walk[k] = next_bracket(text, W, w) /\ w.result = RUNNING /\ w.at = edge[k - 1]
    BY <1>4, <1>9, <2>1
  <2> HIDE DEF w
  <2>3. ValidInside(a.brackets[k].inside)
    BY <1>7
  <2>4. \/ \E v \in Nat :
              /\ Turn(text, a.brackets[k], w.used, v)
              /\ next_bracket(text, W, w) = [used |-> v, at |-> edge[k], result |-> RUNNING]
        \/ /\ next_bracket(text, W, w).result = 0
           /\ \A v : ~Turn(text, a.brackets[k], w.used, v)
    BY <1>2, <2>2, <2>3, TurnTaken
  <2>5. QED
    BY <2>2, <2>4 DEF w
<1>10. \A k \in 1 .. Len(W) : walk[k - 1].result # RUNNING => walk[k] = walk[k - 1]
  BY <1>4 DEF next_bracket
<1> HIDE DEF W
(* While it is running it has filled every bracket so far.                 *)
<1> DEFINE Good(k) == /\ walk[k].result \in {RUNNING, 0}
                      /\ walk[k].result = RUNNING =>
                           /\ walk[k].at = edge[k]
                           /\ \A m \in 1 .. k : Turn(text, b(m), walk[m - 1].used, walk[m].used)
           T == {k \in Nat : k <= n => Good(k)}
<1>11. 0 \in T
  <2>1. Good(0)
    BY <1>4, <1>8 DEF WalkStart
  <2> HIDE DEF Good
  <2>2. QED
    BY <2>1
<1>12. ASSUME NEW k \in Nat, k \in T PROVE k + 1 \in T
  <2> SUFFICES ASSUME k + 1 <= n PROVE Good(k + 1)
    OBVIOUS
  <2>1. Good(k)
    BY <1>1, <1>12
  <2>2. PICK m \in 1 .. n : m = k + 1 /\ m - 1 = k /\ m \in 1 .. Len(W)
    BY <1>1, <1>3, <1>6
  <2>3. CASE walk[k].result # RUNNING
    <3>1. walk[m] = walk[k]
      BY <1>10, <2>2, <2>3
    <3>2. walk[m].result = 0 /\ 0 # RUNNING
      BY <2>1, <2>3, <3>1 DEF RUNNING
    <3>3. Good(m)
      BY <3>2
    <3>4. QED
      BY <2>2, <3>3
  <2>4. CASE walk[k].result = RUNNING
    <3>1. walk[k].at = edge[k] /\ \A x \in 1 .. k : Turn(text, b(x), walk[x - 1].used, walk[x].used)
      BY <2>1, <2>4
    <3>2. \/ \E v \in Nat : /\ Turn(text, b(m), walk[k].used, v)
                            /\ walk[m] = [used |-> v, at |-> edge[m], result |-> RUNNING]
          \/ walk[m].result = 0
      BY <1>9, <2>2, <2>4, <3>1
    <3>3. CASE walk[m].result = 0
      <4>1. 0 # RUNNING
        BY DEF RUNNING
      <4>2. Good(m)
        BY <3>3, <4>1
      <4>3. QED
        BY <2>2, <4>2
    <3>4. CASE \E v \in Nat : /\ Turn(text, b(m), walk[k].used, v)
                              /\ walk[m] = [used |-> v, at |-> edge[m], result |-> RUNNING]
      <4>1. Turn(text, b(m), walk[k].used, walk[m].used)
            /\ walk[m].at = edge[m] /\ walk[m].result = RUNNING
        BY <3>4
      <4>2. ASSUME NEW x \in 1 .. m PROVE Turn(text, b(x), walk[x - 1].used, walk[x].used)
        <5>1. CASE x = m
          BY <2>2, <4>1, <5>1
        <5>2. CASE x # m
          <6>1. x \in 1 .. k
            BY <2>2, <5>2
          <6>2. QED
            BY <3>1, <6>1
        <5>3. QED
          BY <5>1, <5>2
      <4>3. Good(m)
        BY <4>1, <4>2
      <4>4. QED
        BY <2>2, <4>3
    <3>5. QED
      BY <3>2, <3>3, <3>4
  <2>5. QED
    BY <2>3, <2>4
<1> HIDE DEF T
<1>13. n \in T
  BY <1>1, <1>11, <1>12, Induction
<1>14. Good(n)
  BY <1>1, <1>13 DEF T
(* Where it stands behind the last bracket, and at the end.                *)
<1>15. walk[n] \in Walked /\ n + 1 \in 1 .. Len(W) /\ (n + 1) - 1 = n
  BY <1>1, <1>3, <1>4, <1>6
<1>16. /\ walk[n].result # RUNNING => walk[n + 1].result = 0
       /\ walk[n].result = RUNNING =>
            walk[n + 1].result = IF At(text, walk[n].used, a.after)
                                    /\ Len(text) = walk[n].used + Len(a.after) THEN 1 ELSE 0
  <2>1. ASSUME walk[n].result # RUNNING PROVE walk[n + 1].result = 0
    <3>1. walk[n + 1] = walk[n]
      BY <1>10, <1>15, <2>1
    <3>2. QED
      BY <1>14, <2>1, <3>1
  <2>2. ASSUME walk[n].result = RUNNING
        PROVE  walk[n + 1].result = IF At(text, walk[n].used, a.after)
                                       /\ Len(text) = walk[n].used + Len(a.after) THEN 1 ELSE 0
    <3> DEFINE w == walk[n]
    <3>1. /\ w \in Walked /\ walk[n + 1] = next_bracket(text, W, w)
          /\ w.result = RUNNING /\ w.at = edge[Len(a.brackets)]
      BY <1>4, <1>14, <1>15, <2>2
    <3> HIDE DEF w
    <3>2. next_bracket(text, W, w).result =
            IF At(text, w.used, a.after) /\ Len(text) = w.used + Len(a.after) THEN 1 ELSE 0
      BY <1>2, <3>1, LastTurn DEF W
    <3>3. QED
      BY <3>1, <3>2 DEF w
  <2>3. QED
    BY <2>1, <2>2
<1>17. walk[n + 1].result \in {0, 1}
  <2>1. walk[n].result = RUNNING \/ walk[n].result # RUNNING
    OBVIOUS
  <2>2. QED
    BY <1>16, <2>1
<1>18. walk[Len(W)].result = walk[n + 1].result
  <2>1. PICK last \in Nat, total \in Nat : last = n + 1 /\ total = Len(W) /\ last <= total
    BY <1>1, <1>3, <1>6
  <2>2. /\ walk[last].result # RUNNING
        /\ \A k \in 1 .. total : walk[k - 1].result # RUNNING => walk[k] = walk[k - 1]
    BY <1>10, <1>17, <2>1 DEF RUNNING
  <2> DEFINE R == {d \in Nat : last + d <= total => walk[last + d] = walk[last]}
  <2>3. 0 \in R
    OBVIOUS
  <2>4. ASSUME NEW d \in Nat, d \in R PROVE d + 1 \in R
    <3> SUFFICES ASSUME last + (d + 1) <= total PROVE walk[last + (d + 1)] = walk[last]
      OBVIOUS
    <3>1. PICK m \in 1 .. total : m = last + (d + 1) /\ m - 1 = last + d
      OBVIOUS
    <3>2. walk[m - 1] = walk[last]
      BY <2>4, <3>1
    <3>3. QED
      BY <2>2, <3>1, <3>2
  <2> HIDE DEF R
  <2>5. \A d \in Nat : d \in R
    BY <2>3, <2>4, Induction
  <2>6. PICK d \in Nat : last + d = total
    <3>a. last <= total
      BY <2>1
    <3>1. total - last \in Nat /\ last + (total - last) = total
      BY <3>a
    <3>2. QED
      BY <3>1
  <2>7. walk[last + d] = walk[last]
    <3>1. d \in R /\ last + d <= total
      BY <2>5, <2>6
    <3>2. QED
      BY <3>1 DEF R
  <2>8. QED
    BY <2>1, <2>6, <2>7
(* It has matched: what it used is a filling.                              *)
<1>19. ASSUME walk[n + 1].result = 1 PROVE \E F : Filling(a, text, F)
  <2>1. walk[n].result = RUNNING
    BY <1>16, <1>19
  <2>2. \A k \in 1 .. n : Turn(text, b(k), walk[k - 1].used, walk[k].used)
    BY <1>14, <2>1
  <2>3. At(text, walk[n].used, a.after) /\ Len(text) = walk[n].used + Len(a.after)
    BY <1>16, <1>19, <2>1
  <2> DEFINE F == [k \in 0 .. n |-> walk[k].used]
  <2>4. F \in [0 .. n -> Nat]
    <3>1. \A k \in 0 .. n : walk[k].used \in Nat
      <4>1. \A k \in 0 .. n : k \in 0 .. Len(W)
        BY <1>1, <1>3, <1>6
      <4>2. QED
        BY <1>4, <4>1 DEF Walked
    <3>2. QED
      BY <3>1
  <2>5. F[0] = 0 /\ F[n] = walk[n].used
    <3>1. 0 \in 0 .. n /\ n \in 0 .. n
      BY <1>1
    <3>2. QED
      BY <1>4, <3>1 DEF WalkStart
  <2>6. \A k \in 1 .. n : F[k] = walk[k].used /\ F[k - 1] = walk[k - 1].used
    <3>1. \A k \in 1 .. n : k \in 0 .. n /\ k - 1 \in 0 .. n
      BY <1>1
    <3>2. QED
      BY <3>1
  <2> HIDE DEF F
  <2>7. \A k \in 1 .. n : Turn(text, b(k), F[k - 1], F[k])
    BY <2>2, <2>6
  <2>8. Filling(a, text, F)
    BY <2>3, <2>4, <2>5, <2>7 DEF Filling
  <2>9. QED
    BY <2>8
(* There is a filling: it follows it.                                      *)
<1>20. ASSUME NEW F, Filling(a, text, F) PROVE walk[n + 1].result = 1
  <2>1. /\ F \in [0 .. n -> Nat] /\ F[0] = 0
        /\ \A k \in 1 .. n : Turn(text, b(k), F[k - 1], F[k])
        /\ At(text, F[n], a.after) /\ Len(text) = F[n] + Len(a.after)
    BY <1>20 DEF Filling
  <2> DEFINE On(k) == walk[k] = [used |-> F[k], at |-> edge[k], result |-> RUNNING]
             R == {k \in Nat : k <= n => On(k)}
  <2>2. 0 \in R
    BY <1>4, <1>8, <2>1 DEF WalkStart
  <2>3. ASSUME NEW k \in Nat, k \in R PROVE k + 1 \in R
    <3> SUFFICES ASSUME k + 1 <= n PROVE On(k + 1)
      OBVIOUS
    <3>1. PICK m \in 1 .. n : m = k + 1 /\ m - 1 = k
      BY <1>1
    <3>2. On(k)
      BY <1>1, <2>3
    <3>3. walk[m - 1].result = RUNNING /\ walk[m - 1].at = edge[m - 1] /\ walk[m - 1].used = F[m - 1]
      BY <3>1, <3>2
    <3>4. Turn(text, b(m), F[m - 1], F[m])
      BY <2>1
    <3>5. PICK v \in Nat : /\ Turn(text, b(m), F[m - 1], v)
                           /\ walk[m] = [used |-> v, at |-> edge[m], result |-> RUNNING]
      BY <1>9, <3>3, <3>4
    <3>6. v = F[m]
      <4>1. Len(text) \in Nat
        BY LenProperties
      <4>2. b(m).before \in Text
        BY ListParts
      <4>3. Len(b(m).before) \in Nat
        BY <4>2, TextIsSigns
      <4>4. m - 1 \in 0 .. n
        BY <1>1
      <4>5. F[m - 1] \in Nat
        BY <2>1, <4>4
      <4> DEFINE br == b(m)
                 u  == F[m - 1]
                 x  == F[m]
      <4>6. Len(br.before) \in Nat /\ u \in Nat /\ Turn(text, br, u, v) /\ Turn(text, br, u, x)
        BY <3>4, <3>5, <4>3, <4>5
      <4> HIDE DEF br, u, x
      <4>7. v = x
        BY <4>1, <4>6, TurnUnique
      <4>8. QED
        BY <4>7 DEF x
    <3>7. QED
      BY <3>1, <3>5, <3>6
  <2> HIDE DEF R
  <2>4. n \in R
    BY <1>1, <2>2, <2>3, Induction
  <2>5. On(n)
    BY <1>1, <2>4 DEF R
  <2>6. walk[n].result = RUNNING /\ walk[n].used = F[n]
    BY <2>5
  <2>7. QED
    BY <1>16, <2>1, <2>6
<1>21. CASE \E F : Filling(a, text, F)
  <2>1. walk[n + 1].result = 1
    BY <1>20, <1>21
  <2>2. QED
    BY <1>5, <1>18, <1>21, <2>1 DEF W
<1>22. CASE ~\E F : Filling(a, text, F)
  <2>1. walk[n + 1].result = 0
    BY <1>17, <1>19, <1>22
  <2>2. QED
    BY <1>5, <1>18, <1>22, <2>1 DEF W
<1>23. QED
  BY <1>21, <1>22

LEMMA HexValue ==
  ASSUME NEW S, NEW text \in Seq(S)
  PROVE  ValueOf(text) # -1 <=> text # <<>> /\ \A k \in 1 .. Len(text) : text[k] \in HexChars
<1>1. Len(text) \in Nat /\ DOMAIN text = 1 .. Len(text)
  BY LenProperties
<1>2. Chars(text) \subseteq HexChars <=> \A k \in 1 .. Len(text) : text[k] \in HexChars
  BY <1>1 DEF Chars
<1>3. CASE text # <<>> /\ \A k \in 1 .. Len(text) : text[k] \in HexChars
  <2>1. \A k \in 0 .. Len(text) : Valued(text)[k] \in Nat
    BY <1>1, <1>3, ValuedSteps
  <2>2. Valued(text)[Len(text)] \in Nat
    BY <1>1, <2>1
  <2>3. ValueOf(text) \in Nat
    BY <1>2, <1>3, <2>2, ValueIsValued
  <2>4. ValueOf(text) # -1
    BY <2>3
  <2>5. QED
    BY <1>3, <2>4
<1>4. CASE ~(text # <<>> /\ \A k \in 1 .. Len(text) : text[k] \in HexChars)
  <2>1. ValueOf(text) = -1
    BY <1>2, <1>4, ValueIsValued
  <2>2. QED
    BY <1>4, <2>1
<1>5. QED
  BY <1>3, <1>4

(* The fillings are what the list denotes.                                 *)
LEMMA FillingDenotes ==
  ASSUME NEW a \in OptionLists, NEW text \in Seq(STRING), NEW F, Filling(a, text, F)
  PROVE  DenotesList(a, text)
<1> DEFINE n == Len(a.brackets)
           b(k) == a.brackets[k]
           digits == [k \in DOMAIN a.brackets |->
                        SubSeq(text, F[k - 1] + Len(b(k).before) + 1, F[k])]
<1>1. n \in Nat /\ DOMAIN a.brackets = 1 .. n /\ \A k \in 1 .. n : b(k).before \in Text
  BY ListParts
<1>2. /\ F \in [0 .. n -> Nat] /\ F[0] = 0
      /\ \A k \in 1 .. n : Turn(text, b(k), F[k - 1], F[k])
      /\ At(text, F[n], a.after) /\ Len(text) = F[n] + Len(a.after)
  BY DEF Filling
<1>3. text \in Seq(Sign) /\ Len(text) \in Nat
  BY StringsAreSigns
<1>4. ASSUME NEW k \in 1 .. n
      PROVE  /\ At(text, F[k - 1], b(k).before)
             /\ At(text, F[k - 1] + Len(b(k).before), digits[k])
             /\ F[k] = F[k - 1] + Len(b(k).before) + Len(digits[k])
             /\ digits[k] \in Seq(Sign) /\ digits[k] \in Parts(text) /\ ValueOf(digits[k]) # -1
             /\ DenotesInside(b(k).inside, digits[k])
  <2>1. k \in 0 .. n /\ k - 1 \in 0 .. n
    BY <1>1
  <2>2. Len(b(k).before) \in Nat
    BY <1>1, TextIsSigns
  <2>3. PICK u \in Nat, v \in Nat, o \in Nat :
          u = F[k - 1] /\ v = F[k] /\ o = u + Len(b(k).before)
    <3>1. F[k - 1] \in Nat /\ F[k] \in Nat
      BY <1>2, <2>1
    <3>2. F[k - 1] + Len(b(k).before) \in Nat
      BY <2>2, <3>1
    <3>3. QED
      BY <3>1, <3>2
  <2>4. Turn(text, b(k), u, v)
    BY <1>2, <2>3
  <2>5. /\ At(text, u, b(k).before) /\ v > o /\ RunTo(text, o, v)
        /\ DenotesInside(b(k).inside, SubSeq(text, o + 1, v))
    BY <2>3, <2>4 DEF Turn
  <2>6. digits[k] = SubSeq(text, o + 1, v)
    BY <1>1, <2>3
  <2> HIDE DEF digits, b
  <2>7. v <= Len(text) /\ o <= v /\ \A x \in o + 1 .. v : text[x] \in HexChars
    BY <1>3, <2>5 DEF RunTo
  <2>8. /\ digits[k] \in Seq(Sign) /\ Len(digits[k]) = v - o
        /\ \A p \in 1 .. v - o : digits[k][p] = text[o + p]
        /\ At(text, o, digits[k])
    BY <1>3, <2>6, <2>7, PartOfText
  <2>9. v = o + Len(digits[k])
    BY <2>8
  <2>10. digits[k] \in Parts(text)
    <3>1. o + 1 \in 1 .. Len(text) /\ v \in 1 .. Len(text)
      BY <1>3, <2>5, <2>7
    <3>2. QED
      BY <2>6, <3>1 DEF Parts
  <2>11. ValueOf(digits[k]) # -1
    <3> DEFINE d == digits[k]
    <3>1. \A p \in 1 .. Len(d) : d[p] \in HexChars
      <4> SUFFICES ASSUME NEW p \in 1 .. Len(d) PROVE d[p] \in HexChars
        OBVIOUS
      <4>1. p \in 1 .. v - o /\ o + p \in o + 1 .. v
        BY <2>8
      <4>2. QED
        BY <2>7, <2>8, <4>1
    <3>2. d \in Seq(Sign) /\ d # <<>>
      BY <2>5, <2>8
    <3> HIDE DEF d
    <3>3. ValueOf(d) # -1
      BY <3>1, <3>2, HexValue
    <3>4. QED
      BY <3>3 DEF d
  <2>12. QED
    BY <2>3, <2>5, <2>6, <2>8, <2>9, <2>10, <2>11
<1>5. FilledAt(a, digits, text, F)
  <2> HIDE DEF digits
  <2>1. QED
    BY <1>2, <1>4 DEF FilledAt
<1>6. digits \in [DOMAIN a.brackets -> Seq(Sign)]
      /\ digits \in [DOMAIN a.brackets -> {t \in Parts(text) : ValueOf(t) # -1}]
  <2>1. digits = [k \in DOMAIN a.brackets |-> digits[k]]
    OBVIOUS
  <2>2. \A k \in DOMAIN a.brackets :
          digits[k] \in Seq(Sign) /\ digits[k] \in Parts(text) /\ ValueOf(digits[k]) # -1
    BY <1>1, <1>4
  <2> HIDE DEF digits
  <2>3. QED
    BY <2>1, <2>2
<1> HIDE DEF digits
<1>7. text = Filled(a, digits)
  BY <1>3, <1>5, <1>6, FilledLaid
<1>8. \A k \in DOMAIN a.brackets : DenotesInside(a.brackets[k].inside, digits[k])
  BY <1>1, <1>4
<1>9. QED
  BY <1>6, <1>7, <1>8 DEF DenotesList

LEMMA DenotesFilling ==
  ASSUME NEW a \in OptionLists, NEW text \in Seq(STRING), DenotesList(a, text)
  PROVE  \E F : Filling(a, text, F)
<1> DEFINE n == Len(a.brackets)
           b(k) == a.brackets[k]
<1>1. /\ n \in Nat /\ DOMAIN a.brackets = 1 .. n
      /\ \A k \in 1 .. n : /\ b(k).before \in Text
                           /\ k > 1 => b(k).before # <<>> /\ b(k).before[1] \notin HexChars
      /\ a.after \in Text /\ (a.after # <<>> => a.after[1] \notin HexChars)
  BY ListParts
<1>2. PICK digits \in [DOMAIN a.brackets -> {t \in Parts(text) : ValueOf(t) # -1}] :
         /\ text = Filled(a, digits)
         /\ \A k \in DOMAIN a.brackets : DenotesInside(a.brackets[k].inside, digits[k])
  BY DEF DenotesList
<1>3. text \in Seq(Sign) /\ Len(text) \in Nat
  BY StringsAreSigns
<1>4. \A t \in Parts(text) : t \in Seq(Sign)
  <2> SUFFICES ASSUME NEW t \in Parts(text) PROVE t \in Seq(Sign)
    OBVIOUS
  <2>0. PICK m \in 1 .. Len(text), k \in 1 .. Len(text) : t = SubSeq(text, m, k)
    BY DEF Parts
  <2>1. \A x \in m .. k : text[x] \in Sign
    <3>1. \A x \in m .. k : x \in 1 .. Len(text)
      BY <1>3
    <3>2. QED
      BY <1>3, <3>1, ElementOfSeq
  <2>2. m \in Int /\ k \in Int
    BY <1>3
  <2>3. QED
    BY <2>0, <2>1, <2>2, SubSeqProperties
<1>5. \A k \in 1 .. n : digits[k] \in Seq(Sign) /\ ValueOf(digits[k]) # -1
  BY <1>1, <1>2, <1>4
<1>6. digits \in [DOMAIN a.brackets -> Seq(Sign)]
  BY <1>2, <1>4
<1>7. PICK edge : FilledAt(a, digits, text, edge)
  BY <1>2, <1>6, FilledLaid
<1>8. /\ edge \in [0 .. n -> Nat] /\ edge[0] = 0
      /\ \A k \in 1 .. n :
           /\ At(text, edge[k - 1], b(k).before)
           /\ At(text, edge[k - 1] + Len(b(k).before), digits[k])
           /\ edge[k] = edge[k - 1] + Len(b(k).before) + Len(digits[k])
      /\ At(text, edge[n], a.after) /\ Len(text) = edge[n] + Len(a.after)
  BY <1>7 DEF FilledAt
<1>9. ASSUME NEW k \in 1 .. n PROVE Turn(text, b(k), edge[k - 1], edge[k])
  <2>1. k \in 0 .. n /\ k - 1 \in 0 .. n
    BY <1>1
  <2>2. Len(b(k).before) \in Nat
    BY <1>1, TextIsSigns
  <2>3. PICK u \in Nat, v \in Nat, o \in Nat :
          u = edge[k - 1] /\ v = edge[k] /\ o = u + Len(b(k).before)
    <3>1. edge[k - 1] \in Nat /\ edge[k] \in Nat
      BY <1>8, <2>1
    <3>2. edge[k - 1] + Len(b(k).before) \in Nat
      BY <2>2, <3>1
    <3>3. QED
      BY <3>1, <3>2
  <2> DEFINE d == digits[k]
  <2>4. /\ d \in Seq(Sign) /\ d # <<>> /\ \A p \in 1 .. Len(d) : d[p] \in HexChars
    BY <1>5, HexValue
  <2>5. Len(d) \in Nat /\ Len(d) # 0
    BY <2>4, LenProperties, EmptySeq
  <2>6. At(text, u, b(k).before) /\ At(text, o, d) /\ v = o + Len(d)
    BY <1>8, <2>3
  <2>7. DenotesInside(b(k).inside, d)
    BY <1>1, <1>2
  <2> HIDE DEF d
  <2>8. v > o /\ v <= Len(text)
    BY <2>5, <2>6 DEF At
  <2>9. SubSeq(text, o + 1, v) = d
    BY <1>3, <2>4, <2>6, AtIsSubSeq
  <2>10. \A x \in o + 1 .. v : text[x] \in HexChars
    <3> SUFFICES ASSUME NEW x \in o + 1 .. v PROVE text[x] \in HexChars
      OBVIOUS
    <3>1. PICK p \in 1 .. Len(d) : x = o + p
      <4>1. x - o \in 1 .. Len(d) /\ x = o + (x - o)
        BY <2>5, <2>6
      <4>2. QED
        BY <4>1
    <3>2. QED
      BY <2>4, <2>6, <3>1 DEF At
  <2>11. v < Len(text) => text[v + 1] \notin HexChars
    <3> SUFFICES ASSUME v < Len(text) PROVE text[v + 1] \notin HexChars
      OBVIOUS
    <3>1. ASSUME NEW s \in Text, At(text, v, s), s # <<>>, s[1] \notin HexChars
          PROVE  text[v + 1] \notin HexChars
      <4>1. s \in Seq(Sign)
        BY TextIsSigns
      <4>2. 1 \in 1 .. Len(s)
        BY <3>1, <4>1, EmptySeq, LenProperties
      <4>3. QED
        BY <3>1, <4>2 DEF At
    <3>2. CASE k = n
      <4>1. At(text, v, a.after) /\ Len(text) = v + Len(a.after)
        BY <1>8, <2>3, <3>2
      <4>2. a.after # <<>>
        BY <4>1
      <4>3. QED
        BY <1>1, <3>1, <4>1, <4>2
    <3>3. CASE k # n
      <4>1. PICK m \in 1 .. n : m = k + 1 /\ m - 1 = k /\ m > 1
        BY <1>1, <3>3
      <4>2. At(text, v, b(m).before) /\ b(m).before # <<>> /\ b(m).before[1] \notin HexChars
            /\ b(m).before \in Text
        BY <1>1, <1>8, <2>3, <4>1
      <4> HIDE DEF b
      <4>3. QED
        BY <3>1, <4>2
    <3>4. QED
      BY <3>2, <3>3
  <2>12. RunTo(text, o, v)
    BY <2>8, <2>10, <2>11 DEF RunTo
  <2> HIDE DEF b
  <2>13. Turn(text, b(k), u, v)
    BY <2>3, <2>6, <2>7, <2>8, <2>9, <2>12 DEF Turn
  <2>14. QED
    BY <2>3, <2>13
<1>10. Filling(a, text, edge)
  BY <1>8, <1>9 DEF Filling
<1>11. QED
  BY <1>10

(* A valid option list matches what it denotes.                            *)
LEMMA ListMeaning ==
  ASSUME NEW a \in OptionLists, ValidList(a), NEW text \in Seq(STRING)
  PROVE  match_brackets(text, WrittenList(a)) = IF DenotesList(a, text) THEN 1 ELSE 0
<1>1. (\E F : Filling(a, text, F)) <=> DenotesList(a, text)
  BY FillingDenotes, DenotesFilling
<1>2. match_brackets(text, WrittenList(a)) = IF \E F : Filling(a, text, F) THEN 1 ELSE 0
  BY ListMatched
<1>3. QED
  BY <1>1, <1>2

-----------------------------------------------------------------------------
(* Either kind of alternative.                                             *)

LEMMA PlainKind ==
  ASSUME NEW a \in Plain
  PROVE  /\ a.kind # "options"
         /\ Written(a) = WrittenPlain(a) /\ (Valid(a) <=> ValidPlain(a))
         /\ \A text, tcp : Denotes(a, text, tcp) <=> DenotesPlain(a, text, tcp)
<1>1. a.kind \in {"literal", "below", "above", "span"}
  BY DEF Plain
<1>2. a.kind # "options"
  BY <1>1
<1>3. QED
  BY <1>2, Zenon DEF Written, Valid, Denotes

LEMMA ListKind ==
  ASSUME NEW a \in OptionLists
  PROVE  /\ a.kind = "options"
         /\ Written(a) = WrittenList(a) /\ (Valid(a) <=> ValidList(a))
         /\ \A text, tcp : Denotes(a, text, tcp) <=> DenotesList(a, text)
<1>1. a.kind = "options"
  BY ListParts
<1>2. QED
  BY <1>1, Zenon DEF Written, Valid, Denotes

(* match_helper refuses a plain alternative exactly when it is not valid,  *)
(* and what is valid matches what it denotes.                              *)
LEMMA HelperMeaning ==
  ASSUME NEW text \in Seq(STRING), NEW tcp \in BOOLEAN,
         NEW a \in IF tcp THEN Plain \cup OptionLists ELSE Plain
  PROVE  /\ Valid(a) => match_helper(text, Written(a), tcp) = IF Denotes(a, text, tcp) THEN 1 ELSE 0
         /\ a.kind # "options" /\ ~Valid(a) => match_helper(text, Written(a), tcp) = -1
<1>1. CASE a \in Plain
  <2> DEFINE w == WrittenPlain(a)
  <2>1. w \in Seq(Sign) /\ \A k \in 1 .. Len(w) : w[k] \notin Cuts
    BY <1>1, PlainText
  <2>2. DOMAIN w = 1 .. Len(w)
    BY <2>1, LenProperties
  <2>3. "[" \notin Chars(w)
    BY <2>1, <2>2 DEF Chars, Cuts
  <2>4. match_helper(text, w, tcp) = match_plain(text, w, tcp)
    BY <2>3 DEF match_helper
  <2>5. match_plain(text, w, tcp) = IF ValidPlain(a) THEN Truth(DenotesPlain(a, text, tcp)) ELSE -1
    BY <1>1, PlainMeaning
  <2>6. /\ Written(a) = w /\ (Valid(a) <=> ValidPlain(a))
        /\ Denotes(a, text, tcp) <=> DenotesPlain(a, text, tcp)
    BY <1>1, PlainKind
  <2> HIDE DEF w
  <2>7. QED
    BY <2>4, <2>5, <2>6, Zenon DEF Truth
<1>2. CASE a \in OptionLists /\ tcp
  <2> DEFINE w == WrittenList(a)
  <2>1. w \in Seq(Sign) /\ DOMAIN w = 1 .. Len(w) /\ Len(w) \in Nat
    BY <1>2, WrittenListAt, LenProperties
  <2>2. PICK edge : WrittenAt(a, edge)
    BY <1>2, WrittenListAt
  <2>3. "[" \in Chars(w)
    <3>1. 1 \in 1 .. Len(a.brackets)
      BY <1>2, ListParts
    <3>2. PICK o \in Nat, l \in Nat, h \in Nat :
            w[o + l + 1] = "[" /\ edge[1] = o + l + h + 2 /\ edge[1] <= Len(w)
      BY <2>2, <3>1 DEF WrittenAt
    <3>3. o + l + h + 2 <= Len(w)
      BY <3>2
    <3>4. o + l + 1 \in 1 .. Len(w)
      BY <2>1, <3>3
    <3>5. QED
      BY <2>1, <3>2, <3>4 DEF Chars
  <2>4. match_helper(text, w, tcp) = match_brackets(text, w)
    BY <1>2, <2>3 DEF match_helper
  <2>5. ValidList(a) => match_brackets(text, w) = IF DenotesList(a, text) THEN 1 ELSE 0
    BY <1>2, ListMeaning
  <2>6. /\ a.kind = "options" /\ Written(a) = w /\ (Valid(a) <=> ValidList(a))
        /\ Denotes(a, text, tcp) <=> DenotesList(a, text)
    BY <1>2, ListKind
  <2> HIDE DEF w
  <2>7. QED
    BY <2>4, <2>5, <2>6, Zenon
<1>3. QED
  BY <1>1, <1>2

-----------------------------------------------------------------------------
(* Whether a bracket is open behind the first p signs.                     *)
Inside(t, p) == \E m \in 1 .. p : t[m] = "[" /\ \A x \in m + 1 .. p : t[x] # "]"

LEMMA InsideSteps ==
  ASSUME NEW t
  PROVE  /\ ~Inside(t, 0)
         /\ \A p \in Nat : Inside(t, p + 1) <=> t[p + 1] = "[" \/ (Inside(t, p) /\ t[p + 1] # "]")
<1>1. ~Inside(t, 0)
  BY DEF Inside
<1>2. ASSUME NEW p \in Nat, t[p + 1] = "[" PROVE Inside(t, p + 1)
  <2>1. p + 1 \in 1 .. p + 1 /\ (p + 1) + 1 .. p + 1 = {}
    OBVIOUS
  <2>2. QED
    BY <1>2, <2>1 DEF Inside
<1>3. ASSUME NEW p \in Nat, Inside(t, p), t[p + 1] # "]" PROVE Inside(t, p + 1)
  <2>1. PICK m \in 1 .. p : t[m] = "[" /\ \A x \in m + 1 .. p : t[x] # "]"
    BY <1>3 DEF Inside
  <2>2. m \in 1 .. p + 1 /\ \A x \in m + 1 .. p + 1 : x = p + 1 \/ x \in m + 1 .. p
    OBVIOUS
  <2>3. QED
    BY <1>3, <2>1, <2>2 DEF Inside
<1>4. ASSUME NEW p \in Nat, Inside(t, p + 1), t[p + 1] # "[" PROVE Inside(t, p) /\ t[p + 1] # "]"
  <2>1. PICK m \in 1 .. p + 1 : t[m] = "[" /\ \A x \in m + 1 .. p + 1 : t[x] # "]"
    BY <1>4 DEF Inside
  <2>2. m \in 1 .. p /\ p + 1 \in m + 1 .. p + 1 /\ \A x \in m + 1 .. p : x \in m + 1 .. p + 1
    BY <1>4, <2>1
  <2>3. QED
    BY <2>1, <2>2 DEF Inside
<1>5. QED
  BY <1>1, <1>2, <1>3, <1>4

(* Between brackets nothing changes.                                       *)
LEMMA InsideStays ==
  ASSUME NEW t, NEW o \in Nat, NEW q \in Nat, \A x \in o + 1 .. q : t[x] \notin Brackets
  PROVE  \A p \in o .. q : Inside(t, p) <=> Inside(t, o)
<1> DEFINE T == {d \in Nat : o + d <= q => (Inside(t, o + d) <=> Inside(t, o))}
<1>1. 0 \in T
  OBVIOUS
<1>2. ASSUME NEW d \in Nat, d \in T PROVE d + 1 \in T
  <2> SUFFICES ASSUME o + (d + 1) <= q PROVE Inside(t, o + (d + 1)) <=> Inside(t, o)
    OBVIOUS
  <2>1. PICK p \in Nat : p = o + d /\ p + 1 = o + (d + 1) /\ p + 1 \in o + 1 .. q
    OBVIOUS
  <2>2. Inside(t, p) <=> Inside(t, o)
    BY <1>2, <2>1
  <2>3. t[p + 1] # "[" /\ t[p + 1] # "]"
    BY <2>1 DEF Brackets
  <2>4. Inside(t, p + 1) <=> Inside(t, p)
    BY <2>3, InsideSteps
  <2>5. QED
    BY <2>1, <2>2, <2>4
<1> HIDE DEF T
<1>3. \A d \in Nat : d \in T
  BY <1>1, <1>2, Induction
<1>4. ASSUME NEW p \in o .. q PROVE Inside(t, p) <=> Inside(t, o)
  <2>1. PICK d \in Nat : p = o + d /\ o + d <= q
    <3>1. p - o \in Nat /\ p = o + (p - o)
      OBVIOUS
    <3>2. QED
      BY <3>1
  <2>2. QED
    BY <1>3, <2>1 DEF T
<1>5. QED
  BY <1>4

(* How an alternative stands in an expression: every bracket paired, no    *)
(* bar outside, and brackets only in option lists.                         *)
WellBracketed(t, tcp) ==
  /\ \A m \in 1 .. Len(t) : /\ t[m] = "[" => tcp /\ ~Inside(t, m - 1)
                            /\ t[m] \in {"]", "|"} => Inside(t, m - 1)
  /\ ~Inside(t, Len(t))

LEMMA PlainBracketed ==
  ASSUME NEW a \in Plain, NEW tcp
  PROVE  WellBracketed(WrittenPlain(a), tcp)
<1> DEFINE w == WrittenPlain(a)
<1>1. w \in Seq(Sign) /\ \A k \in 1 .. Len(w) : w[k] \notin Cuts
  BY PlainText
<1>2. Len(w) \in Nat
  BY <1>1, LenProperties
<1> HIDE DEF w
<1>3. ~Inside(w, Len(w))
  BY <1>1 DEF Inside, Cuts
<1>4. WellBracketed(w, tcp)
  BY <1>1, <1>3 DEF WellBracketed, Cuts
<1>5. QED
  BY <1>4 DEF w

LEMMA ListBracketed ==
  ASSUME NEW a \in OptionLists
  PROVE  WellBracketed(WrittenList(a), TRUE)
<1> DEFINE n == Len(a.brackets)
           W == WrittenList(a)
           b(k) == a.brackets[k].before
           y(k) == InsideOf(a, k)
<1>1. /\ n \in Nat /\ n > 0
      /\ \A k \in 1 .. n : b(k) \in Text /\ a.brackets[k].inside \in Seq(Plain)
      /\ a.after \in Text
  BY ListParts
<1>2. PICK edge : WrittenAt(a, edge)
  BY WrittenListAt
<1>3. /\ edge \in [0 .. n -> Nat] /\ edge[0] = 0
      /\ \A k \in 1 .. n :
           \E o \in Nat, l \in Nat, h \in Nat :
             /\ o = edge[k - 1] /\ l = Len(b(k)) /\ h = Len(y(k))
             /\ At(W, o, b(k)) /\ W[o + l + 1] = "[" /\ At(W, o + l + 1, y(k))
             /\ W[edge[k]] = "]"
             /\ edge[k] = o + l + h + 2 /\ edge[k] <= Len(W)
      /\ At(W, edge[n], a.after) /\ Len(W) = edge[n] + Len(a.after)
  BY <1>2 DEF WrittenAt
<1>4. Len(W) \in Nat
  BY WrittenListAt, LenProperties
<1>5. ASSUME NEW k \in 1 .. n
      PROVE  /\ \A p \in 1 .. Len(b(k)) : b(k)[p] \notin Signs
             /\ \A p \in 1 .. Len(y(k)) : y(k)[p] \notin Brackets
  <2>1. \A p \in 1 .. Len(b(k)) : b(k)[p] \notin Signs
    BY <1>1, TextIsSigns
  <2>2. \A p \in 1 .. Len(y(k)) : y(k)[p] \notin Brackets
    BY <1>1, InsideText DEF InsideOf
  <2>3. QED
    BY <2>1, <2>2
<1>6. \A p \in 1 .. Len(a.after) : a.after[p] \notin Signs
  BY <1>1, TextIsSigns
<1> HIDE DEF W, b, y, n
(* A part of the list without brackets.                                    *)
<1>7. ASSUME NEW s, NEW o \in Nat, NEW l \in Nat, l = Len(s), At(W, o, s), NEW x \in o + 1 .. o + l
      PROVE  \E p \in 1 .. Len(s) : W[x] = s[p]
  <2>1. x - o \in 1 .. l /\ o + (x - o) = x
    OBVIOUS
  <2>2. PICK p \in 1 .. l : o + p = x
    BY <2>1
  <2>3. W[o + p] = s[p]
    BY <1>7, <2>2 DEF At
  <2>4. QED
    BY <1>7, <2>2, <2>3
(* One bracket, with the literal before it.                                *)
<1>8. ASSUME NEW k \in 1 .. n, ~Inside(W, edge[k - 1])
      PROVE  /\ ~Inside(W, edge[k])
             /\ \A x \in edge[k - 1] + 1 .. edge[k] :
                  /\ W[x] = "[" => ~Inside(W, x - 1)
                  /\ W[x] \in {"]", "|"} => Inside(W, x - 1)
  <2>1. PICK o \in Nat, l \in Nat, h \in Nat :
             /\ o = edge[k - 1] /\ l = Len(b(k)) /\ h = Len(y(k))
             /\ At(W, o, b(k)) /\ W[o + l + 1] = "[" /\ At(W, o + l + 1, y(k))
             /\ W[edge[k]] = "]" /\ edge[k] = o + l + h + 2
    BY <1>3
  <2>2. \A x \in o + 1 .. o + l : W[x] \notin Signs
    <3> SUFFICES ASSUME NEW x \in o + 1 .. o + l PROVE W[x] \notin Signs
      OBVIOUS
    <3>1. l = Len(b(k)) /\ At(W, o, b(k))
      BY <2>1
    <3>2. \E p \in 1 .. Len(b(k)) : W[x] = b(k)[p]
      BY <1>7, <3>1
    <3>3. QED
      BY <1>5, <3>2
  <2>3. \A x \in o + l + 2 .. o + l + 1 + h : W[x] \notin Brackets
    <3>1. PICK q \in Nat : q = o + l + 1
      OBVIOUS
    <3>2. \A x \in q + 1 .. q + h : W[x] \notin Brackets
      <4> SUFFICES ASSUME NEW x \in q + 1 .. q + h PROVE W[x] \notin Brackets
        OBVIOUS
      <4>1. h = Len(y(k)) /\ At(W, q, y(k))
        BY <2>1, <3>1
      <4>2. \E p \in 1 .. Len(y(k)) : W[x] = y(k)[p]
        BY <1>7, <4>1
      <4>3. QED
        BY <1>5, <4>2
    <3>3. q + 1 = o + l + 2 /\ q + h = o + l + 1 + h
      BY <3>1
    <3>4. QED
      BY <3>2, <3>3
  <2>4. \A p \in o .. o + l : ~Inside(W, p)
    <3>1. PICK q \in Nat : q = o + l
      OBVIOUS
    <3>2. \A x \in o + 1 .. q : W[x] \notin Brackets
      BY <2>2, <3>1 DEF Signs, Brackets
    <3>3. \A p \in o .. q : Inside(W, p) <=> Inside(W, o)
      BY <3>2, InsideStays
    <3>4. QED
      BY <1>8, <2>1, <3>1, <3>3
  <2>5. \A p \in o + l + 1 .. o + l + 1 + h : Inside(W, p)
    <3>1. PICK q \in Nat, r \in Nat, z \in Nat : q = o + l + 1 /\ r = o + l + 1 + h /\ z = o + l
      OBVIOUS
    <3>2. Inside(W, z + 1)
      <4>1. W[z + 1] = "["
        BY <2>1, <3>1
      <4>2. QED
        BY <4>1, InsideSteps
    <3>3. q + 1 = o + l + 2 /\ q = z + 1
      BY <3>1
    <3>4. \A x \in q + 1 .. r : W[x] \notin Brackets
      BY <2>3, <3>1, <3>3
    <3>5. \A p \in q .. r : Inside(W, p) <=> Inside(W, q)
      BY <3>4, InsideStays
    <3>6. QED
      BY <3>1, <3>2, <3>3, <3>5
  <2>6. ~Inside(W, edge[k])
    <3>1. PICK r \in Nat : r = o + l + 1 + h /\ r + 1 = o + l + h + 2
      OBVIOUS
    <3>2. W[r + 1] = "]" /\ r + 1 = edge[k]
      BY <2>1, <3>1
    <3>3. W[r + 1] # "["
      BY <3>2
    <3>4. ~Inside(W, r + 1)
      BY <3>2, <3>3, InsideSteps
    <3>5. QED
      BY <3>2, <3>4
  <2>7. ASSUME NEW x \in o + 1 .. o + l + h + 2
        PROVE  /\ W[x] = "[" => ~Inside(W, x - 1)
               /\ W[x] \in {"]", "|"} => Inside(W, x - 1)
    <3>1. CASE x \in o + 1 .. o + l
      BY <2>2, <3>1 DEF Signs
    <3>2. CASE x = o + l + 1
      <4>1. x - 1 \in o .. o + l
        BY <3>2
      <4>2. W[x] = "["
        BY <2>1, <3>2
      <4>3. QED
        BY <2>4, <4>1, <4>2
    <3>3. CASE x \in o + l + 2 .. o + l + 1 + h
      <4>1. x - 1 \in o + l + 1 .. o + l + 1 + h
        BY <3>3
      <4>2. QED
        BY <2>3, <2>5, <3>3, <4>1 DEF Brackets
    <3>4. CASE x = o + l + h + 2
      <4>1. x - 1 \in o + l + 1 .. o + l + 1 + h
        BY <3>4
      <4>2. W[x] = "]"
        BY <2>1, <3>4
      <4>3. QED
        BY <2>5, <4>1, <4>2
    <3>5. QED
      BY <3>1, <3>2, <3>3, <3>4
  <2>8. QED
    BY <2>1, <2>6, <2>7
<1>9. \A k \in 0 .. n : ~Inside(W, edge[k])
  <2> DEFINE T == {k \in Nat : k <= n => ~Inside(W, edge[k])}
  <2>1. 0 \in T
    BY <1>3, InsideSteps
  <2>2. ASSUME NEW k \in Nat, k \in T PROVE k + 1 \in T
    <3> SUFFICES ASSUME k + 1 <= n PROVE ~Inside(W, edge[k + 1])
      OBVIOUS
    <3>1. PICK m \in 1 .. n : m = k + 1 /\ m - 1 = k
      BY <1>1
    <3>2. ~Inside(W, edge[m - 1])
      BY <1>1, <2>2, <3>1
    <3>3. QED
      BY <1>8, <3>1, <3>2
  <2> HIDE DEF T
  <2>3. \A k \in Nat : k \in T
    BY <2>1, <2>2, Induction
  <2>4. QED
    BY <2>3 DEF T
<1>10. PICK e \in Nat, l \in Nat : e = edge[n] /\ l = Len(a.after) /\ Len(W) = e + l
  <2>1. n \in 0 .. n
    BY <1>1
  <2>2. Len(a.after) \in Nat
    BY <1>1, TextIsSigns
  <2>3. QED
    BY <1>3, <2>1, <2>2
<1>11. \A x \in e + 1 .. e + l : W[x] \notin Signs
  BY <1>3, <1>6, <1>7, <1>10
<1>12. ~Inside(W, e)
  <2>1. n \in 0 .. n
    BY <1>1
  <2>2. QED
    BY <1>9, <1>10, <2>1
<1>13. ~Inside(W, Len(W))
  <2>1. PICK q \in Nat : q = e + l
    OBVIOUS
  <2>2. \A x \in e + 1 .. q : W[x] \notin Brackets
    BY <1>11, <2>1 DEF Signs, Brackets
  <2>3. \A p \in e .. q : Inside(W, p) <=> Inside(W, e)
    BY <2>2, InsideStays
  <2>4. q \in e .. q /\ Len(W) = q
    BY <1>10, <2>1
  <2>5. QED
    BY <1>12, <2>3, <2>4
<1>14. ASSUME NEW x \in 1 .. Len(W)
       PROVE  /\ W[x] = "[" => ~Inside(W, x - 1)
              /\ W[x] \in {"]", "|"} => Inside(W, x - 1)
  <2>1. CASE x > e
    <3>1. x \in e + 1 .. e + l
      BY <1>10, <2>1
    <3>2. QED
      BY <1>11, <3>1 DEF Signs
  <2>2. CASE ~(x > e)
    <3> DEFINE places == {k \in 0 .. n : x <= edge[k]}
    <3>1. n \in places /\ places \subseteq Nat
      BY <1>1, <1>10, <2>2
    <3>2. PICK k \in places : \A m \in places : k <= m
      BY <3>1, SmallestMember
    <3>3. k # 0
      BY <1>3
    <3>4. k \in 1 .. n /\ k - 1 \in 0 .. n /\ k - 1 \notin places /\ k \in 0 .. n
      BY <1>1, <3>2, <3>3
    <3>5. edge[k - 1] \in Nat /\ edge[k] \in Nat /\ x <= edge[k] /\ ~(x <= edge[k - 1]) /\ x \in Nat
      BY <1>3, <3>4
    <3>6. x \in edge[k - 1] + 1 .. edge[k]
      BY <3>5
    <3>7. ~Inside(W, edge[k - 1])
      BY <1>9, <3>4
    <3>8. QED
      BY <1>8, <3>4, <3>6, <3>7
  <2>3. QED
    BY <2>1, <2>2
<1>15. WellBracketed(W, TRUE)
  BY <1>13, <1>14 DEF WellBracketed
<1>16. QED
  BY <1>15 DEF W

-----------------------------------------------------------------------------
(* The loop over the expression, for a question that alternatives were     *)
(* written from.                                                           *)
Texts(q)  == [k \in DOMAIN q.meant |-> Written(q.meant[k])]
EdgeOf(q) == CHOOSE edge : JoinedAt(Texts(q), edge)

Meant(q) == IsQuestion(q) /\ q.meant # <<>>

LEMMA QuestionParts ==
  ASSUME NEW q, Meant(q)
  PROVE  /\ q.observed \in Seq(STRING) /\ q.tcp_options \in BOOLEAN
         /\ Len(q.meant) \in Nat /\ Len(q.meant) > 0 /\ DOMAIN q.meant = 1 .. Len(q.meant)
         /\ Texts(q) \in Seq(Seq(Sign)) /\ Len(Texts(q)) = Len(q.meant)
         /\ \A k \in 1 .. Len(q.meant) :
              /\ q.meant[k] \in IF q.tcp_options THEN Plain \cup OptionLists ELSE Plain
              /\ Texts(q)[k] = Written(q.meant[k])
              /\ Texts(q)[k] \in Seq(Sign) /\ Len(Texts(q)[k]) \in Nat
              /\ WellBracketed(Texts(q)[k], q.tcp_options)
         /\ q.expression = Joined(Texts(q)) /\ JoinedAt(Texts(q), EdgeOf(q))
         /\ q.expression \in Seq(Sign) /\ Len(q.expression) \in Nat
<1> DEFINE A == IF q.tcp_options THEN Plain \cup OptionLists ELSE Plain
           n == Len(q.meant)
           t == Texts(q)
<1>1. /\ q.observed \in Seq(STRING) /\ q.tcp_options \in BOOLEAN
      /\ q.meant \in Seq(A) /\ q.meant # <<>> /\ q.expression = Joined(t)
  BY DEF Meant, IsQuestion, Texts
<1> HIDE DEF A
<1>2. n \in Nat /\ DOMAIN q.meant = 1 .. n /\ n # 0 /\ \A k \in 1 .. n : q.meant[k] \in A
  BY <1>1, EmptySeq, LenProperties, ElementOfSeq
<1>3. ASSUME NEW k \in 1 .. n
      PROVE  /\ Written(q.meant[k]) \in Seq(Sign)
             /\ WellBracketed(Written(q.meant[k]), q.tcp_options)
  <2> DEFINE a == q.meant[k]
  <2>1. a \in Plain \/ (q.tcp_options /\ a \in OptionLists)
    BY <1>1, <1>2 DEF A
  <2> HIDE DEF a
  <2>2. CASE a \in Plain
    <3>1. Written(a) = WrittenPlain(a)
      BY <2>2, PlainKind
    <3>2. WrittenPlain(a) \in Seq(Sign) /\ WellBracketed(WrittenPlain(a), q.tcp_options)
      BY <2>2, PlainText, PlainBracketed
    <3>3. QED
      BY <3>1, <3>2 DEF a
  <2>3. CASE q.tcp_options /\ a \in OptionLists
    <3>1. Written(a) = WrittenList(a) /\ q.tcp_options = TRUE
      BY <1>1, <2>3, ListKind
    <3>2. WrittenList(a) \in Seq(Sign) /\ WellBracketed(WrittenList(a), TRUE)
      BY <2>3, WrittenListAt, ListBracketed
    <3>3. QED
      BY <3>1, <3>2 DEF a
  <2>4. QED
    BY <2>1, <2>2, <2>3
<1>4. t = [k \in 1 .. n |-> Written(q.meant[k])]
  BY <1>2 DEF Texts
<1>5. t \in [1 .. n -> Seq(Sign)] /\ \A k \in 1 .. n : t[k] = Written(q.meant[k])
  BY <1>3, <1>4
<1> HIDE DEF t, n
<1>6. t \in Seq(Seq(Sign)) /\ Len(t) = n
  BY <1>2, <1>5, FunctionIsSeq
<1>7. Joined(t) \in Seq(Sign) /\ \E edge : JoinedAt(t, edge)
  BY <1>6, JoinedLaid
<1>8. JoinedAt(t, EdgeOf(q))
  BY <1>7, Zenon DEF EdgeOf, t
<1>9. Len(Joined(t)) \in Nat /\ \A k \in 1 .. n : Len(t[k]) \in Nat
  BY <1>3, <1>5, <1>7, LenProperties
<1>10. n > 0
  BY <1>2
<1>11. QED
  BY <1>1, <1>2, <1>3, <1>5, <1>6, <1>7, <1>8, <1>9, <1>10 DEF A, n, t

(* What the first n alternatives come to.                                  *)
Settled(q, n, found) ==
  /\ \A m \in 1 .. n : q.meant[m].kind # "options" => Valid(q.meant[m])
  /\ (\A m \in 1 .. n : Valid(q.meant[m])) =>
       (found <=> \E m \in 1 .. n : Denotes(q.meant[m], q.observed, q.tcp_options))

(* The loop is in alternative n.                                           *)
InAlternative(q, n, at, from, inside, found) ==
  /\ n \in 1 .. Len(q.meant)
  /\ from = EdgeOf(q)[n - 1] /\ from \in Nat
  /\ at \in from .. from + Len(Texts(q)[n])
  /\ inside <=> Inside(Texts(q)[n], at - from)
  /\ Settled(q, n - 1, found)

Answered(q, r) ==
  /\ IsSound(q) =>
       r = Truth(\E k \in DOMAIN q.meant : Denotes(q.meant[k], q.observed, q.tcp_options))
  /\ IsRefused(q) => r = -1

(* Within an alternative.                                                  *)
LEMMA ReadOn ==
  ASSUME NEW q, Meant(q), NEW n, NEW at, NEW from, NEW inside \in BOOLEAN, NEW found,
         InAlternative(q, n, at, from, inside, found), at < from + Len(Texts(q)[n])
  PROVE  /\ at \in Nat /\ at < Len(q.expression)
         /\ q.expression[at + 1] = "[" =>
              q.tcp_options /\ ~inside /\ InAlternative(q, n, at + 1, from, TRUE, found)
         /\ q.expression[at + 1] = "]" =>
              inside /\ InAlternative(q, n, at + 1, from, FALSE, found)
         /\ q.expression[at + 1] = "|" => inside
         /\ q.expression[at + 1] \notin Brackets => InAlternative(q, n, at + 1, from, inside, found)
<1> DEFINE e == q.expression
           t == Texts(q)[n]
<1>1. /\ n \in 1 .. Len(q.meant) /\ from = EdgeOf(q)[n - 1] /\ from \in Nat
      /\ at \in from .. from + Len(t)
      /\ inside <=> Inside(t, at - from)
      /\ Settled(q, n - 1, found)
  BY DEF InAlternative
<1>2. /\ At(e, EdgeOf(q)[n - 1], t) /\ Len(t) \in Nat /\ Len(e) \in Nat
      /\ WellBracketed(t, q.tcp_options)
  BY <1>1, QuestionParts DEF JoinedAt
<1> HIDE DEF e, t
<1>3. PICK p \in Nat : at = from + p /\ at - from = p /\ p + 1 \in 1 .. Len(t)
                       /\ (at + 1) - from = p + 1 /\ at + 1 = from + (p + 1)
  <2>1. /\ at - from \in Nat /\ at = from + (at - from) /\ (at - from) + 1 \in 1 .. Len(t)
        /\ (at + 1) - from = (at - from) + 1 /\ at + 1 = from + ((at - from) + 1)
    <3>1. PICK l \in Nat : l = Len(t)
      BY <1>2
    <3>2. at < from + l /\ at \in from .. from + l /\ from \in Nat
      BY <1>1, <3>1 DEF t
    <3>3. /\ at - from \in Nat /\ at = from + (at - from) /\ (at - from) + 1 \in 1 .. l
          /\ (at + 1) - from = (at - from) + 1 /\ at + 1 = from + ((at - from) + 1)
      BY <3>2
    <3>4. QED
      BY <3>1, <3>3
  <2>2. QED
    BY <2>1
<1>4. e[at + 1] = t[p + 1]
  BY <1>1, <1>2, <1>3 DEF At
<1>5. at \in Nat /\ at + 1 \in from .. from + Len(t) /\ at + 1 <= Len(e)
  <2>1. from + Len(t) <= Len(e)
    BY <1>1, <1>2 DEF At
  <2>2. PICK l \in Nat : l = Len(t)
    BY <1>2
  <2>3. PICK x \in Nat, o \in Nat : x = Len(e) /\ o = from
    BY <1>1, <1>2
  <2>4. p + 1 <= l
    BY <1>3, <2>2
  <2>5. o + l <= x
    BY <2>1, <2>2, <2>3
  <2>6. o + (p + 1) \in o .. o + l /\ o + (p + 1) <= x /\ o + p \in Nat
    BY <2>4, <2>5
  <2>7. QED
    BY <1>3, <2>2, <2>3, <2>6
<1>6. Inside(t, p + 1) <=> t[p + 1] = "[" \/ (Inside(t, p) /\ t[p + 1] # "]")
  BY InsideSteps
<1>7. (p + 1) - 1 = p
  OBVIOUS
<1>8. /\ t[p + 1] = "[" => q.tcp_options /\ ~Inside(t, p)
      /\ t[p + 1] \in {"]", "|"} => Inside(t, p)
  BY <1>2, <1>3, <1>7 DEF WellBracketed
<1>9. inside <=> Inside(t, p)
  BY <1>1, <1>3
<1>10. \A next : (next <=> Inside(t, p + 1)) => InAlternative(q, n, at + 1, from, next, found)
  BY <1>1, <1>3, <1>5 DEF InAlternative, t
<1>a. at \in Nat /\ at < Len(e)
  BY <1>2, <1>5
<1>11. CASE t[p + 1] = "["
  <2>1. TRUE <=> Inside(t, p + 1)
    BY <1>6, <1>11
  <2>2. InAlternative(q, n, at + 1, from, TRUE, found)
    BY <1>10, <2>1
  <2>3. QED
    BY <1>4, <1>a, <1>8, <1>9, <1>11, <2>2, Zenon DEF e, Brackets
<1>12. CASE t[p + 1] = "]"
  <2>1. FALSE <=> Inside(t, p + 1)
    BY <1>6, <1>12
  <2>2. InAlternative(q, n, at + 1, from, FALSE, found)
    BY <1>10, <2>1
  <2>3. QED
    BY <1>4, <1>a, <1>8, <1>9, <1>12, <2>2, Zenon DEF e, Brackets
<1>13. CASE t[p + 1] \notin Brackets
  <2>1. inside <=> Inside(t, p + 1)
    BY <1>6, <1>9, <1>13 DEF Brackets
  <2>2. InAlternative(q, n, at + 1, from, inside, found)
    BY <1>10, <2>1
  <2>3. QED
    BY <1>4, <1>a, <1>8, <1>9, <1>13, <2>2, Zenon DEF e, Brackets
<1>14. QED
  BY <1>11, <1>12, <1>13 DEF Brackets

(* At its end.                                                             *)
LEMMA ReadEnd ==
  ASSUME NEW q, Meant(q), NEW n, NEW at, NEW from, NEW inside \in BOOLEAN, NEW found \in BOOLEAN,
         InAlternative(q, n, at, from, inside, found), at = from + Len(Texts(q)[n]),
         NEW r, r = match_helper(q.observed, SubSeq(q.expression, from + 1, at), q.tcp_options)
  PROVE  /\ ~inside /\ at \in Nat
         /\ \/ at = Len(q.expression)
            \/ at < Len(q.expression) /\ q.expression[at + 1] = "|"
         /\ r = -1 => Answered(q, -1)
         /\ r # -1 /\ at = Len(q.expression) => Answered(q, Truth(found \/ r = 1))
         /\ r # -1 /\ at # Len(q.expression) =>
              InAlternative(q, n + 1, at + 1, at + 1, FALSE, found \/ r = 1)
<1> DEFINE e == q.expression
           t == Texts(q)[n]
           N == Len(q.meant)
           a == q.meant[n]
           edge == EdgeOf(q)
<1>1. /\ n \in 1 .. N /\ from = edge[n - 1] /\ from \in Nat
      /\ inside <=> Inside(t, at - from)
      /\ Settled(q, n - 1, found)
  BY DEF InAlternative
<1>2. /\ q.observed \in Seq(STRING) /\ q.tcp_options \in BOOLEAN
      /\ N \in Nat /\ DOMAIN q.meant = 1 .. N
      /\ a \in IF q.tcp_options THEN Plain \cup OptionLists ELSE Plain
      /\ t = Written(a) /\ t \in Seq(Sign) /\ Len(t) \in Nat /\ WellBracketed(t, q.tcp_options)
      /\ e \in Seq(Sign) /\ Len(e) \in Nat
  BY <1>1, QuestionParts
<1>3. /\ At(e, edge[n - 1], t)
      /\ n = N => edge[n] = edge[n - 1] + Len(t)
      /\ n < N => edge[n] = edge[n - 1] + Len(t) + 1 /\ e[edge[n]] = "|"
      /\ Len(e) = edge[N]
      /\ n < N => At(e, edge[n], Texts(q)[n + 1]) /\ Len(Texts(q)[n + 1]) \in Nat
  <2>1. JoinedAt(Texts(q), edge) /\ Len(Texts(q)) = N /\ e = Joined(Texts(q))
        /\ \A k \in 1 .. N : Len(Texts(q)[k]) \in Nat
    BY QuestionParts
  <2>2. n < N => n + 1 \in 1 .. N /\ (n + 1) - 1 = n
    BY <1>1, <1>2
  <2> HIDE DEF edge
  <2>3. QED
    BY <1>1, <2>1, <2>2 DEF JoinedAt
<1> HIDE DEF e, t, a, edge
<1>4. at - from = Len(t) /\ at \in Nat /\ at = from + Len(t)
  <2>1. at = from + Len(t)
    BY ONLY at = from + Len(Texts(q)[n]) DEF t
  <2>2. from \in Nat /\ Len(t) \in Nat
    BY <1>1, <1>2
  <2>3. QED
    BY ONLY <2>1, <2>2
<1>5. ~inside
  BY <1>1, <1>2, <1>4 DEF WellBracketed
<1>6. n = N \/ n < N
  BY <1>1, <1>2
<1>7. n = N => at = Len(e)
  BY <1>1, <1>3, <1>4
<1>8. n < N => at < Len(e) /\ e[at + 1] = "|" /\ edge[n] = at + 1
  <2> SUFFICES ASSUME n < N PROVE at < Len(e) /\ e[at + 1] = "|" /\ edge[n] = at + 1
    OBVIOUS
  <2>1. edge[n] = at + 1
    BY <1>1, <1>3, <1>4
  <2>2. At(e, at + 1, Texts(q)[n + 1])
    BY <1>3, <2>1
  <2>3. at + 1 + Len(Texts(q)[n + 1]) <= Len(e)
    BY <2>2 DEF At
  <2>4. at < Len(e)
    BY <1>2, <1>3, <1>4, <2>3
  <2>5. QED
    BY <1>3, <2>1, <2>4
<1>9. SubSeq(e, from + 1, at) = t
  <2>1. SubSeq(e, from + 1, from + Len(t)) = t
    BY <1>1, <1>2, <1>3, AtIsSubSeq
  <2>2. QED
    BY <1>4, <2>1
<1>10. /\ Valid(a) => r = IF Denotes(a, q.observed, q.tcp_options) THEN 1 ELSE 0
       /\ a.kind # "options" /\ ~Valid(a) => r = -1
  <2>1. r = match_helper(q.observed, Written(a), q.tcp_options)
    BY <1>2, <1>9 DEF e
  <2>2. QED
    BY <1>2, <2>1, HelperMeaning
<1>11. ASSUME r = -1 PROVE Answered(q, -1)
  <2>1. ~Valid(a)
    BY <1>10, <1>11
  <2>2. ~IsSound(q)
    BY <1>1, <1>2, <2>1 DEF IsSound, a
  <2>3. QED
    BY <2>2, Zenon DEF Answered
<1>12. ASSUME r # -1 PROVE Settled(q, n, found \/ r = 1)
  <2>1. a.kind # "options" => Valid(a)
    BY <1>10, <1>12
  <2>2. \A m \in 1 .. n : m = n \/ m \in 1 .. n - 1
    BY <1>1
  <2>3. \A m \in 1 .. n - 1 : m \in 1 .. n
    BY <1>1
  <2>4. n \in 1 .. n
    BY <1>1
  <2>5. \A m \in 1 .. n : q.meant[m].kind # "options" => Valid(q.meant[m])
    BY <1>1, <2>1, <2>2 DEF Settled, a
  <2>6. ASSUME \A m \in 1 .. n : Valid(q.meant[m])
        PROVE  (found \/ r = 1) <=> \E m \in 1 .. n : Denotes(q.meant[m], q.observed, q.tcp_options)
    <3>1. found <=> \E m \in 1 .. n - 1 : Denotes(q.meant[m], q.observed, q.tcp_options)
      BY <1>1, <2>3, <2>6 DEF Settled
    <3>2. Valid(a)
      BY <2>4, <2>6 DEF a
    <3>3. r = 1 <=> Denotes(a, q.observed, q.tcp_options)
      BY <1>10, <3>2
    <3>4. QED
      BY <2>2, <2>3, <2>4, <3>1, <3>3, Zenon DEF a
  <2>7. QED
    BY <2>5, <2>6 DEF Settled
<1>13. ASSUME r # -1, n = N PROVE Answered(q, Truth(found \/ r = 1))
  <2>1. Settled(q, N, found \/ r = 1)
    BY <1>12, <1>13
  <2>2. ~IsRefused(q)
    <3>1. \A k \in DOMAIN q.meant : q.meant[k].kind # "options" => Valid(q.meant[k])
      BY <1>2, <2>1 DEF Settled
    <3>2. q.meant # <<>>
      BY DEF Meant
    <3>3. QED
      BY <3>1, <3>2 DEF IsRefused
  <2>3. ASSUME IsSound(q)
        PROVE  Truth(found \/ r = 1) =
                 Truth(\E k \in DOMAIN q.meant : Denotes(q.meant[k], q.observed, q.tcp_options))
    <3>1. \A m \in 1 .. N : Valid(q.meant[m])
      BY <1>2, <2>3 DEF IsSound
    <3>2. (found \/ r = 1) <=> \E m \in 1 .. N : Denotes(q.meant[m], q.observed, q.tcp_options)
      BY <2>1, <3>1 DEF Settled
    <3> HIDE DEF N
    <3>3. (found \/ r = 1) <=>
            \E m \in DOMAIN q.meant : Denotes(q.meant[m], q.observed, q.tcp_options)
      BY <1>2, <3>2
    <3>4. QED
      BY <3>3, Zenon DEF Truth
  <2>4. QED
    BY <2>2, <2>3, Zenon DEF Answered
<1>14. ASSUME r # -1, n < N PROVE InAlternative(q, n + 1, at + 1, at + 1, FALSE, found \/ r = 1)
  <2>1. n + 1 \in 1 .. N /\ (n + 1) - 1 = n
    <3>1. n \in 1 .. N
      BY <1>1
    <3>2. N \in Nat
      BY <1>2
    <3>3. n < N
      BY <1>14
    <3> HIDE DEF N
    <3>4. QED
      BY <3>1, <3>2, <3>3
  <2>2. at + 1 \in at + 1 .. at + 1 + Len(Texts(q)[n + 1]) /\ (at + 1) - (at + 1) = 0 /\ at + 1 \in Nat
    BY <1>3, <1>4, <1>14
  <2>3. ~Inside(Texts(q)[n + 1], (at + 1) - (at + 1))
    BY <2>2, InsideSteps
  <2>4. at + 1 = EdgeOf(q)[(n + 1) - 1]
    BY <1>8, <1>14, <2>1 DEF edge
  <2>5. Settled(q, (n + 1) - 1, found \/ r = 1)
    BY <1>12, <1>14, <2>1
  <2>6. QED
    BY <2>1, <2>2, <2>3, <2>4, <2>5 DEF InAlternative
<1>15. CASE n = N
  <2>1. at = Len(e)
    BY <1>7, <1>15
  <2>2. QED
    BY <1>4, <1>5, <1>11, <1>13, <1>15, <2>1, Zenon DEF e
<1>16. CASE n < N
  <2>1. at < Len(e) /\ e[at + 1] = "|"
    BY <1>8, <1>16
  <2>2. at # Len(e)
    BY <1>2, <1>4, <2>1
  <2>3. QED
    BY <1>4, <1>5, <1>11, <1>14, <1>16, <2>1, <2>2, Zenon DEF e
<1>17. QED
  BY <1>6, <1>15, <1>16

-----------------------------------------------------------------------------
(* The loop over an expression that no alternatives make.                  *)
ReadingUnmeant(q, at, inside) ==
  /\ at \in 0 .. Len(q.expression)
  /\ inside <=> Inside(q.expression, at)
  /\ \A m \in 1 .. at :
       /\ q.expression[m] = "[" => q.tcp_options /\ ~Inside(q.expression, m - 1)
       /\ q.expression[m] = "]" => Inside(q.expression, m - 1)

Unmeaning(q) == IsQuestion(q) /\ q.meant = <<>>

LEMMA UnmeantLength ==
  ASSUME NEW q, Unmeaning(q)
  PROVE  Len(q.expression) \in Nat /\ DOMAIN q.expression = 1 .. Len(q.expression)
<1>1. q.expression \in Seq(STRING)
  BY DEF Unmeaning, IsQuestion
<1>2. QED
  BY <1>1, LenProperties

LEMMA UnmeantOn ==
  ASSUME NEW q, Unmeaning(q), NEW at, NEW inside \in BOOLEAN,
         ReadingUnmeant(q, at, inside), at # Len(q.expression)
  PROVE  /\ q.expression[at + 1] = "[" /\ q.tcp_options /\ ~inside => ReadingUnmeant(q, at + 1, TRUE)
         /\ q.expression[at + 1] = "]" /\ inside => ReadingUnmeant(q, at + 1, FALSE)
         /\ q.expression[at + 1] \notin Brackets => ReadingUnmeant(q, at + 1, inside)
<1> DEFINE e == q.expression
<1>1. /\ at \in 0 .. Len(e) /\ at # Len(e) /\ Len(e) \in Nat
      /\ inside <=> Inside(e, at)
      /\ \A m \in 1 .. at : /\ e[m] = "[" => q.tcp_options /\ ~Inside(e, m - 1)
                            /\ e[m] = "]" => Inside(e, m - 1)
  BY UnmeantLength DEF ReadingUnmeant
<1> HIDE DEF e
<1>2. at \in Nat /\ at + 1 \in 0 .. Len(e) /\ (at + 1) - 1 = at
  <2>1. PICK l \in Nat : l = Len(e)
    BY <1>1
  <2>2. at \in 0 .. l /\ at # l
    BY <1>1, <2>1
  <2>3. at \in Nat /\ at + 1 \in 0 .. l /\ (at + 1) - 1 = at
    BY <2>2
  <2>4. QED
    BY <2>1, <2>3
<1>3. \A m \in 1 .. at + 1 : m = at + 1 \/ m \in 1 .. at
  BY <1>2
<1>4. Inside(e, at + 1) <=> e[at + 1] = "[" \/ (Inside(e, at) /\ e[at + 1] # "]")
  BY <1>2, InsideSteps
<1>5. ASSUME NEW next, next <=> Inside(e, at + 1),
             e[at + 1] = "[" => q.tcp_options /\ ~Inside(e, at),
             e[at + 1] = "]" => Inside(e, at)
      PROVE  ReadingUnmeant(q, at + 1, next)
  <2>1. \A m \in 1 .. at + 1 : /\ e[m] = "[" => q.tcp_options /\ ~Inside(e, m - 1)
                               /\ e[m] = "]" => Inside(e, m - 1)
    BY <1>1, <1>2, <1>3, <1>5
  <2>2. QED
    BY <1>2, <1>5, <2>1, Zenon DEF ReadingUnmeant, e
<1>6. ASSUME e[at + 1] = "[", q.tcp_options, ~inside PROVE ReadingUnmeant(q, at + 1, TRUE)
  <2>1. TRUE <=> Inside(e, at + 1)
    BY <1>4, <1>6
  <2>2. e[at + 1] # "]"
    BY <1>6
  <2>3. QED
    BY <1>1, <1>5, <1>6, <2>1, <2>2
<1>7. ASSUME e[at + 1] = "]", inside PROVE ReadingUnmeant(q, at + 1, FALSE)
  <2>1. FALSE <=> Inside(e, at + 1)
    BY <1>4, <1>7
  <2>2. e[at + 1] # "["
    BY <1>7
  <2>3. QED
    BY <1>1, <1>5, <1>7, <2>1, <2>2
<1>8. ASSUME e[at + 1] \notin Brackets PROVE ReadingUnmeant(q, at + 1, inside)
  <2>1. e[at + 1] # "[" /\ e[at + 1] # "]"
    BY <1>8 DEF Brackets
  <2>2. inside <=> Inside(e, at + 1)
    BY <1>1, <1>4, <2>1
  <2>3. QED
    BY <1>5, <2>1, <2>2
<1>9. QED
  BY <1>6, <1>7, <1>8, Zenon DEF e

(* Its end is never reached with every bracket closed.                     *)
LEMMA UnmeantEnd ==
  ASSUME NEW q, Unmeaning(q), NEW inside, ReadingUnmeant(q, Len(q.expression), inside)
  PROVE  inside
<1> DEFINE e == q.expression
           N == Len(e)
<1>1. /\ N \in Nat /\ DOMAIN e = 1 .. N
      /\ inside <=> Inside(e, N)
      /\ \A m \in 1 .. N : /\ e[m] = "[" => q.tcp_options /\ ~Inside(e, m - 1)
                           /\ e[m] = "]" => Inside(e, m - 1)
  BY UnmeantLength DEF ReadingUnmeant
<1>2. ~Paired(e) \/ (~q.tcp_options /\ Chars(e) \cap Brackets # {})
  BY DEF Unmeaning, IsQuestion
<1> HIDE DEF e, N
<1> SUFFICES ASSUME ~Inside(e, N) PROVE FALSE
  BY <1>1
(* No bracket opens behind an open one.                                    *)
<1>3. ASSUME NEW m \in 1 .. N, e[m] = "[", NEW x \in 1 .. N,
             \A z \in m + 1 .. x - 1 : e[z] # "]"
      PROVE  \A y \in m + 1 .. x - 1 : e[y] \notin Brackets
  <2> SUFFICES ASSUME NEW y \in m + 1 .. x - 1, e[y] = "[" PROVE FALSE
    BY <1>3 DEF Brackets
  <2>1. y \in 1 .. N /\ m \in 1 .. y - 1 /\ \A z \in m + 1 .. y - 1 : z \in m + 1 .. x - 1
    BY <1>1
  <2>2. Inside(e, y - 1)
    BY <1>3, <2>1 DEF Inside
  <2>3. QED
    BY <1>1, <2>1, <2>2
<1>4. ASSUME NEW m \in 1 .. N, e[m] = "["
      PROVE  \E x \in m + 1 .. N : e[x] = "]" /\ \A y \in m + 1 .. x - 1 : e[y] \notin Brackets
  <2> DEFINE places == {x \in m + 1 .. N : e[x] = "]"}
  <2>1. places # {}
    BY <1>4 DEF Inside
  <2>2. places \subseteq Nat
    BY <1>1
  <2>3. PICK x \in places : \A z \in places : x <= z
    BY <2>1, <2>2, SmallestMember
  <2>4. \A z \in m + 1 .. x - 1 : z \in m + 1 .. N /\ ~(x <= z)
    BY <1>1, <2>3
  <2>5. \A z \in m + 1 .. x - 1 : e[z] # "]"
    BY <2>3, <2>4
  <2>6. x \in m + 1 .. N /\ x \in 1 .. N /\ e[x] = "]"
    BY <1>1, <2>3
  <2>7. QED
    BY <1>3, <1>4, <2>5, <2>6
<1>5. ASSUME NEW m \in 1 .. N, e[m] = "]"
      PROVE  \E x \in 1 .. m - 1 : e[x] = "[" /\ \A y \in x + 1 .. m - 1 : e[y] \notin Brackets
  <2>1. PICK x \in 1 .. m - 1 : e[x] = "[" /\ \A z \in x + 1 .. m - 1 : e[z] # "]"
    BY <1>1, <1>5 DEF Inside
  <2>2. x \in 1 .. N
    BY <1>1
  <2>3. QED
    BY <1>3, <2>1, <2>2
<1>6. Paired(e)
  BY <1>1, <1>4, <1>5 DEF Paired, N
<1>7. ~q.tcp_options /\ Chars(e) \cap Brackets # {}
  BY <1>2, <1>6
<1>8. PICK m \in 1 .. N : e[m] \in Brackets
  BY <1>1, <1>7 DEF Chars
<1>9. \A x \in 1 .. N : e[x] # "["
  BY <1>1, <1>7
<1>10. e[m] = "]"
  BY <1>8, <1>9 DEF Brackets
<1>11. PICK x \in 1 .. m - 1 : e[x] = "["
  BY <1>5, <1>10
<1>12. x \in 1 .. N
  BY <1>1
<1>13. QED
  BY <1>9, <1>11, <1>12

LEMMA UnmeantAnswer ==
  ASSUME NEW q, q.meant = <<>>
  PROVE  Answered(q, -1)
<1>1. ~IsSound(q)
  BY DEF IsSound
<1>2. QED
  BY <1>1, Zenon DEF Answered

-----------------------------------------------------------------------------
(* The loop is within an alternative unless it stands at a bar outside     *)
(* brackets or at the end of the expression.                               *)
LEMMA WithinOrAtEnd ==
  ASSUME NEW q, Meant(q), NEW n, NEW at, NEW from, NEW inside \in BOOLEAN, NEW found \in BOOLEAN,
         InAlternative(q, n, at, from, inside, found)
  PROVE  IF at = Len(q.expression) \/ (q.expression[at + 1] = "|" /\ ~inside)
         THEN at = from + Len(Texts(q)[n]) ELSE at < from + Len(Texts(q)[n])
<1>1. at < from + Len(Texts(q)[n]) \/ at = from + Len(Texts(q)[n])
  <2>1. PICK l \in Nat : l = Len(Texts(q)[n])
    <3>1. n \in 1 .. Len(q.meant)
      BY DEF InAlternative
    <3>2. Len(Texts(q)[n]) \in Nat
      BY <3>1, QuestionParts
    <3>3. QED
      BY <3>2
  <2>2. from \in Nat /\ at \in from .. from + l
    BY <2>1 DEF InAlternative
  <2>3. at < from + l \/ at = from + l
    BY <2>2
  <2>4. QED
    BY <2>1, <2>3
<1>2. CASE at < from + Len(Texts(q)[n])
  <2>1. /\ at \in Nat /\ at < Len(q.expression)
        /\ q.expression[at + 1] = "|" => inside
    BY <1>2, ReadOn
  <2>2. Len(q.expression) \in Nat
    BY QuestionParts
  <2>3. at # Len(q.expression)
    BY <2>1, <2>2
  <2>4. QED
    BY <1>2, <2>1, <2>3
<1>3. CASE at = from + Len(Texts(q)[n])
  <2>1. /\ ~inside
        /\ at = Len(q.expression) \/ q.expression[at + 1] = "|"
    BY <1>3, ReadEnd
  <2>2. QED
    BY <1>3, <2>1
<1>4. QED
  BY <1>1, <1>2, <1>3

(* The inductive invariant.  While the loop runs, either no alternatives   *)
(* make the expression and the brackets read so far pair, or it is in one  *)
(* of the alternatives, those before it are settled, and a bracket is open *)
(* exactly when one is in that alternative's text.                         *)
Reading(q, at, from, inside, found) ==
  \/ Unmeaning(q) /\ ReadingUnmeant(q, at, inside)
  \/ Meant(q) /\ \E n : InAlternative(q, n, at, from, inside, found)

ExpressionState(q, at, from, inside, found, r) ==
  /\ IsQuestion(q) /\ inside \in BOOLEAN /\ found \in BOOLEAN
  /\ IF r = RUNNING THEN Reading(q, at, from, inside, found) ELSE Answered(q, r)

ExpressionInv == ExpressionState(question, i, start, inside_brackets, matched, result)

LEMMA StartsReading ==
  ASSUME NEW q, IsQuestion(q)
  PROVE  Reading(q, 0, 0, FALSE, FALSE)
<1>1. CASE q.meant = <<>>
  <2>1. Unmeaning(q)
    BY <1>1 DEF Unmeaning
  <2>2. Len(q.expression) \in Nat
    BY <2>1, UnmeantLength
  <2>3. ~Inside(q.expression, 0)
    BY InsideSteps
  <2>4. 0 \in 0 .. Len(q.expression) /\ 1 .. 0 = {}
    BY <2>2
  <2>5. ReadingUnmeant(q, 0, FALSE)
    BY <2>3, <2>4 DEF ReadingUnmeant
  <2>6. QED
    BY <2>1, <2>5 DEF Reading
<1>2. CASE q.meant # <<>>
  <2>1. Meant(q)
    BY <1>2 DEF Meant
  <2>2. /\ Len(q.meant) \in Nat /\ Len(q.meant) > 0
        /\ \A k \in 1 .. Len(q.meant) : Len(Texts(q)[k]) \in Nat
        /\ JoinedAt(Texts(q), EdgeOf(q))
    BY <2>1, QuestionParts
  <2>3. 1 \in 1 .. Len(q.meant) /\ 1 - 1 = 0 /\ 0 - 0 = 0 /\ 0 \in Nat /\ 1 .. 0 = {}
    BY <2>2
  <2>4. EdgeOf(q)[0] = 0
    BY <2>2 DEF JoinedAt
  <2>5. 0 \in 0 .. 0 + Len(Texts(q)[1])
    BY <2>2, <2>3
  <2>6. ~Inside(Texts(q)[1], 0)
    BY InsideSteps
  <2>7. Settled(q, 0, FALSE)
    BY <2>3 DEF Settled
  <2>8. InAlternative(q, 1, 0, 0, FALSE, FALSE)
    BY <2>3, <2>4, <2>5, <2>6, <2>7 DEF InAlternative
  <2>9. QED
    BY <2>1, <2>8 DEF Reading
<1>3. QED
  BY <1>1, <1>2

LEMMA BracketRead ==
  ASSUME NEW q, NEW at, NEW from, NEW inside \in BOOLEAN, NEW found \in BOOLEAN,
         Reading(q, at, from, inside, found), at # Len(q.expression)
  PROVE  /\ q.expression[at + 1] = "[" =>
              IF ~q.tcp_options \/ inside THEN Answered(q, -1)
                                          ELSE Reading(q, at + 1, from, TRUE, found)
         /\ q.expression[at + 1] = "]" =>
              IF ~inside THEN Answered(q, -1) ELSE Reading(q, at + 1, from, FALSE, found)
         /\ q.expression[at + 1] \notin Brackets /\ (q.expression[at + 1] = "|" => inside) =>
              Reading(q, at + 1, from, inside, found)
<1>1. CASE Unmeaning(q) /\ ReadingUnmeant(q, at, inside)
  <2>1. Answered(q, -1)
    BY <1>1, UnmeantAnswer DEF Unmeaning
  <2>2. QED
    BY <1>1, <2>1, UnmeantOn DEF Reading
<1>2. ASSUME Meant(q), NEW n, InAlternative(q, n, at, from, inside, found),
             ~(q.expression[at + 1] = "|" /\ ~inside)
      PROVE  /\ q.expression[at + 1] = "[" =>
                  q.tcp_options /\ ~inside /\ Reading(q, at + 1, from, TRUE, found)
             /\ q.expression[at + 1] = "]" => inside /\ Reading(q, at + 1, from, FALSE, found)
             /\ q.expression[at + 1] \notin Brackets => Reading(q, at + 1, from, inside, found)
  <2>1. at < from + Len(Texts(q)[n])
    BY <1>2, WithinOrAtEnd
  <2>2. QED
    BY <1>2, <2>1, ReadOn DEF Reading
<1>3. QED
  BY <1>1, <1>2 DEF Reading, Brackets

AfterAlternative(q, at, inside, found, r) ==
  /\ inside \/ r = -1 => Answered(q, -1)
  /\ ~inside /\ r # -1 =>
       IF at = Len(q.expression) THEN Answered(q, Truth(found \/ r = 1))
       ELSE Reading(q, at + 1, at + 1, inside, found \/ r = 1)

LEMMA AlternativeRead ==
  ASSUME NEW q, NEW at, NEW from, NEW inside \in BOOLEAN, NEW found \in BOOLEAN,
         Reading(q, at, from, inside, found),
         at = Len(q.expression) \/ (q.expression[at + 1] = "|" /\ ~inside),
         NEW r, r = match_helper(q.observed, SubSeq(q.expression, from + 1, at), q.tcp_options)
  PROVE  AfterAlternative(q, at, inside, found, r)
<1>1. CASE Unmeaning(q) /\ ReadingUnmeant(q, at, inside)
  <2>1. Answered(q, -1)
    BY <1>1, UnmeantAnswer DEF Unmeaning
  <2>2. at = Len(q.expression) => inside
    BY <1>1, UnmeantEnd
  <2>3. ASSUME at # Len(q.expression), ~inside PROVE ReadingUnmeant(q, at + 1, inside)
    <3>1. q.expression[at + 1] \notin Brackets
      BY <2>3 DEF Brackets
    <3>2. QED
      BY <1>1, <2>3, <3>1, UnmeantOn
  <2>4. QED
    BY <1>1, <2>1, <2>2, <2>3, Zenon DEF Reading, AfterAlternative
<1>2. ASSUME Meant(q), NEW n, InAlternative(q, n, at, from, inside, found)
      PROVE  /\ ~inside /\ (r = -1 => Answered(q, -1))
             /\ r # -1 /\ at = Len(q.expression) => Answered(q, Truth(found \/ r = 1))
             /\ r # -1 /\ at # Len(q.expression) => Reading(q, at + 1, at + 1, inside, found \/ r = 1)
  <2>1. at = from + Len(Texts(q)[n])
    BY <1>2, WithinOrAtEnd
  <2>2. /\ ~inside
        /\ r = -1 => Answered(q, -1)
        /\ r # -1 /\ at = Len(q.expression) => Answered(q, Truth(found \/ r = 1))
        /\ r # -1 /\ at # Len(q.expression) =>
             InAlternative(q, n + 1, at + 1, at + 1, FALSE, found \/ r = 1)
    BY <1>2, <2>1, ReadEnd
  <2>3. inside = FALSE
    BY <2>2
  <2>4. QED
    BY <1>2, <2>2, <2>3, Zenon DEF Reading
<1>3. QED
  BY <1>1, <1>2, Zenon DEF Reading, AfterAlternative

(* One step of match_expression_slice.                                     *)
LEMMA ExpressionStep == ExpressionInv /\ Next => ExpressionInv'
<1> SUFFICES ASSUME ExpressionInv, Next PROVE ExpressionInv'
  OBVIOUS
<1> DEFINE e == question.expression
<1>1. /\ IsQuestion(question) /\ inside_brackets \in BOOLEAN /\ matched \in BOOLEAN
      /\ result = RUNNING => Reading(question, i, start, inside_brackets, matched)
  BY DEF ExpressionInv, ExpressionState
<1>2. Running => result = RUNNING
  BY DEF Running
<1>3. -1 # RUNNING
  BY DEF RUNNING
<1>4. AtEnd <=> i = Len(e)
  BY DEF AtEnd
<1>5. Char = e[i + 1]
  BY DEF Char
<1> HIDE DEF e
<1>6. CASE OpenBracket
  <2>1. /\ Running /\ ~AtEnd /\ Char = "["
        /\ IF ~question.tcp_options \/ inside_brackets
           THEN result' = -1 /\ UNCHANGED <<i, inside_brackets>>
           ELSE inside_brackets' = TRUE /\ i' = i + 1 /\ UNCHANGED result
        /\ UNCHANGED <<question, start, matched>>
    BY <1>6 DEF OpenBracket
  <2>2. IF ~question.tcp_options \/ inside_brackets
        THEN Answered(question, -1)
        ELSE Reading(question, i + 1, start, TRUE, matched)
    BY <1>1, <1>2, <1>4, <1>5, <2>1, BracketRead DEF e
  <2>3. QED
    BY <1>1, <1>2, <1>3, <2>1, <2>2 DEF ExpressionInv, ExpressionState
<1>7. CASE CloseBracket
  <2>1. /\ Running /\ ~AtEnd /\ Char = "]"
        /\ IF ~inside_brackets
           THEN result' = -1 /\ UNCHANGED <<i, inside_brackets>>
           ELSE inside_brackets' = FALSE /\ i' = i + 1 /\ UNCHANGED result
        /\ UNCHANGED <<question, start, matched>>
    BY <1>7 DEF CloseBracket
  <2>2. IF ~inside_brackets THEN Answered(question, -1)
        ELSE Reading(question, i + 1, start, FALSE, matched)
    BY <1>1, <1>2, <1>4, <1>5, <2>1, BracketRead DEF e
  <2>3. QED
    BY <1>1, <1>2, <1>3, <2>1, <2>2 DEF ExpressionInv, ExpressionState
<1>8. CASE Skip
  <2>1. /\ Running /\ ~AtEnd
        /\ Char \notin Brackets /\ (Char = "|" => inside_brackets)
        /\ i' = i + 1
        /\ UNCHANGED <<question, start, inside_brackets, matched, result>>
    BY <1>8 DEF Skip, Brackets
  <2>2. Reading(question, i + 1, start, inside_brackets, matched)
    BY <1>1, <1>2, <1>4, <1>5, <2>1, BracketRead DEF e
  <2>3. QED
    BY <1>1, <1>2, <2>1, <2>2 DEF ExpressionInv, ExpressionState
<1>9. CASE Alternative
  <2> DEFINE r == match_helper(question.observed, SubSeq(e, start + 1, i), question.tcp_options)
  <2>1. /\ Running
        /\ AtEnd \/ (Char = "|" /\ ~inside_brackets)
        /\ IF inside_brackets \/ r = -1
           THEN result' = -1 /\ UNCHANGED <<i, start, matched>>
           ELSE /\ matched' = matched_after(r)
                /\ result' = result_after(matched')
                /\ i' = i + 1 /\ start' = i + 1
        /\ UNCHANGED <<question, inside_brackets>>
    BY <1>9, Zenon DEF Alternative, e
  <2>2. /\ inside_brackets \/ r = -1 => Answered(question, -1)
        /\ ~inside_brackets /\ r # -1 =>
             IF i = Len(e) THEN Answered(question, Truth(matched \/ r = 1))
             ELSE Reading(question, i + 1, i + 1, inside_brackets, matched \/ r = 1)
    <3>1. Reading(question, i, start, inside_brackets, matched)
      BY <1>1, <1>2, <2>1
    <3>2. i = Len(question.expression) \/ (question.expression[i + 1] = "|" /\ ~inside_brackets)
      BY <1>4, <1>5, <2>1 DEF e
    <3>3. r = match_helper(question.observed, SubSeq(question.expression, start + 1, i),
                           question.tcp_options)
      BY DEF e
    <3> HIDE DEF r
    <3>4. inside_brackets \in BOOLEAN /\ matched \in BOOLEAN
      BY <1>1
    <3>5. AfterAlternative(question, i, inside_brackets, matched, r)
      BY <3>1, <3>2, <3>3, <3>4, AlternativeRead
    <3>6. QED
      BY <3>5, Zenon DEF AfterAlternative, e
  <2> HIDE DEF r
  <2>3. CASE inside_brackets \/ r = -1
    BY <1>1, <1>3, <2>1, <2>2, <2>3 DEF ExpressionInv, ExpressionState
  <2>4. CASE ~(inside_brackets \/ r = -1)
    <3>1. /\ matched' = (matched \/ r = 1) /\ i' = i + 1 /\ start' = i + 1
          /\ result' = IF i = Len(e) THEN Truth(matched \/ r = 1) ELSE RUNNING
          /\ question' = question /\ inside_brackets' = inside_brackets
      BY <1>4, <2>1, <2>4, Zenon DEF matched_after, result_after
    <3>2. (matched \/ r = 1) \in BOOLEAN
      BY <1>1
    <3>3. Truth(matched \/ r = 1) # RUNNING
      BY DEF Truth, RUNNING
    <3>4. IF i = Len(e) THEN Answered(question, Truth(matched \/ r = 1))
          ELSE Reading(question, i + 1, i + 1, inside_brackets, matched \/ r = 1)
      BY <2>2, <2>4
    <3>5. ExpressionState(question, i + 1, i + 1, inside_brackets, matched \/ r = 1,
                          IF i = Len(e) THEN Truth(matched \/ r = 1) ELSE RUNNING)
      BY <1>1, <3>2, <3>3, <3>4, Zenon DEF ExpressionState
    <3>6. QED
      BY <3>1, <3>5, Zenon DEF ExpressionInv
  <2>5. QED
    BY <2>3, <2>4
<1>10. QED
  BY <1>6, <1>7, <1>8, <1>9 DEF Next

-----------------------------------------------------------------------------
(* The calls of match_expression in MCMatching.                            *)
PartInv ==
  IF part = "match_expression" THEN ExpressionInv ELSE result = RUNNING

(* The invariant holds of every question that is asked.                    *)
LEMMA ExpressionInvariant == SpecPart => []PartInv
<1>1. InitPart => PartInv
  <2> SUFFICES ASSUME InitPart PROVE PartInv
    OBVIOUS
  <2>1. CASE part = "match_expression" /\ Init
    <3>1. /\ question \in Questions /\ i = 0 /\ start = 0 /\ inside_brackets = FALSE
          /\ matched = FALSE /\ result = RUNNING
      BY <2>1 DEF Init
    <3>2. IsQuestion(question)
      BY <3>1, QuestionAssumption
    <3>3. Reading(question, 0, 0, FALSE, FALSE)
      BY <3>2, StartsReading
    <3>4. ExpressionInv
      BY <3>1, <3>2, <3>3 DEF ExpressionInv, ExpressionState
    <3>5. QED
      BY <2>1, <3>4 DEF PartInv
  <2>2. CASE part = "compare_fingerprints" /\ ExpressionIdle
    <3>1. part # "match_expression" /\ result = RUNNING
      BY <2>2 DEF ExpressionIdle
    <3>2. QED
      BY <3>1 DEF PartInv
  <2>3. QED
    BY <2>1, <2>2 DEF InitPart
<1>2. PartInv /\ [NextPart]_<<part, vars, compare_vars>> => PartInv'
  <2> SUFFICES ASSUME PartInv, [NextPart]_<<part, vars, compare_vars>> PROVE PartInv'
    OBVIOUS
  <2>1. CASE part = "match_expression" /\ Next /\ part' = part
    <3>1. ExpressionInv'
      BY <2>1, ExpressionStep DEF PartInv
    <3>2. QED
      BY <2>1, <3>1 DEF PartInv
  <2>2. CASE UNCHANGED <<part, vars>>
    <3>1. /\ part' = part /\ question' = question /\ i' = i /\ start' = start
          /\ inside_brackets' = inside_brackets /\ matched' = matched /\ result' = result
      BY <2>2 DEF vars
    <3>2. ExpressionInv' <=> ExpressionInv
      BY <3>1 DEF ExpressionInv
    <3>3. QED
      BY <3>1, <3>2 DEF PartInv
  <2>3. QED
    BY <2>1, <2>2 DEF NextPart
<1>3. QED
  BY <1>1, <1>2, PTL DEF SpecPart

(* For every observed text and every expression QuestionAssumption admits  *)
(* (alternatives with bars between them, whose option lists go on after a  *)
(* bracket with what is no digit, or brackets that do not pair or may not  *)
(* be there), match_expression (src/src/matcher.c:14-270) answers 1        *)
(* exactly when one of the alternatives denotes the text, and -1 when one  *)
(* outside brackets is invalid or the brackets do not pair.                *)
THEOREM ExpressionMeansItsParts == SpecPart => []MatchesWhatIsDenoted
<1>1. PartInv => MatchesWhatIsDenoted
  <2> SUFFICES ASSUME PartInv, ~Running PROVE MatchesWhatIsDenoted
    BY DEF MatchesWhatIsDenoted
  <2>1. result # RUNNING
    BY DEF Running
  <2>2. ExpressionInv
    BY <2>1 DEF PartInv
  <2>3. Answered(question, result)
    BY <2>1, <2>2 DEF ExpressionInv, ExpressionState
  <2>4. QED
    BY <2>3, Zenon DEF Answered, MatchesWhatIsDenoted
<1>2. QED
  BY <1>1, ExpressionInvariant, PTL
=============================================================================
