------------------------- MODULE FindOsMatchesProofs -------------------------
(***************************************************************************)
(* The bounded array of retain_best_match stays sorted, holds every name   *)
(* once, owns its names, covers every candidate ever seen, and holds the   *)
(* best of them, those TopMatches would report: for every length of the    *)
(* array, every set of names and of scores, every history.                 *)
(***************************************************************************)
EXTENDS FindOsMatches, SequenceTheorems, FunctionTheorems,
        FiniteSetTheorems, TLAPS

LEMMA RemoveAtFacts ==
  ASSUME NEW S, NEW s \in Seq(S), NEW i \in 1 .. Len(s)
  PROVE  /\ RemoveAt(s, i) \in Seq(S)
         /\ Len(RemoveAt(s, i)) = Len(s) - 1
         /\ \A j \in 1 .. Len(s) - 1 :
              RemoveAt(s, i)[j] = IF j < i THEN s[j] ELSE s[j + 1]
<1> DEFINE a == SubSeq(s, 1, i - 1)
           z == SubSeq(s, i + 1, Len(s))
<1>1. /\ a \in Seq(S) /\ Len(a) = i - 1 /\ \A j \in 1 .. i - 1 : a[j] = s[j]
  BY SubSeqProperties
<1>2. /\ z \in Seq(S) /\ Len(z) = Len(s) - i
      /\ \A j \in 1 .. Len(s) - i : z[j] = s[i + j]
  BY SubSeqProperties
<1>3. RemoveAt(s, i) = a \o z
  BY DEF RemoveAt
<1> HIDE DEF a, z
<1>4. /\ a \o z \in Seq(S) /\ Len(a \o z) = Len(s) - 1
      /\ \A j \in 1 .. Len(s) - 1 : (a \o z)[j] = IF j < i THEN a[j]
                                                ELSE z[j - (i - 1)]
  BY <1>1, <1>2, ConcatProperties
<1>5. ASSUME NEW j \in 1 .. Len(s) - 1, j >= i
      PROVE  z[j - (i - 1)] = s[j + 1]
  <2>1. j - (i - 1) \in 1 .. Len(s) - i /\ i + (j - (i - 1)) = j + 1
    BY <1>5
  <2>2. QED
    BY <1>2, <2>1
<1>6. QED
  BY <1>1, <1>3, <1>4, <1>5

LEMMA InsertAtFacts ==
  ASSUME NEW S, NEW s \in Seq(S), NEW p \in 1 .. Len(s) + 1, NEW e \in S
  PROVE  /\ InsertAt(s, p, e) \in Seq(S)
         /\ Len(InsertAt(s, p, e)) = Len(s) + 1
         /\ \A j \in 1 .. Len(s) + 1 :
              InsertAt(s, p, e)[j] = IF j < p THEN s[j]
                                     ELSE IF j = p THEN e ELSE s[j - 1]
<1> DEFINE a == SubSeq(s, 1, p - 1)
           z == SubSeq(s, p, Len(s))
<1>1. /\ a \in Seq(S) /\ Len(a) = p - 1 /\ \A j \in 1 .. p - 1 : a[j] = s[j]
  BY SubSeqProperties
<1>2. /\ z \in Seq(S) /\ Len(z) = Len(s) - p + 1
      /\ \A j \in 1 .. Len(s) - p + 1 : z[j] = s[p + j - 1]
  BY SubSeqProperties
<1>3. InsertAt(s, p, e) = a \o <<e>> \o z
  BY DEF InsertAt
<1> HIDE DEF a, z
<1>4. /\ a \o <<e>> \in Seq(S) /\ Len(a \o <<e>>) = p
      /\ \A j \in 1 .. p : (a \o <<e>>)[j] = IF j < p THEN s[j] ELSE e
  <2>1. <<e>> \in Seq(S) /\ Len(<<e>>) = 1 /\ <<e>>[1] = e
    OBVIOUS
  <2>2. QED
    BY <1>1, <2>1, ConcatProperties
<1>5. QED
  BY <1>2, <1>3, <1>4, ConcatProperties

-----------------------------------------------------------------------------
(* The array by itself.                                                    *)

Blocks(m) == {m[i].block : i \in DOMAIN m}

BlocksDiffer(m) == \A i, j \in DOMAIN m : m[i].block = m[j].block => i = j

(* A sorted array of different names, each with its block.                 *)
GoodArray(m) == /\ m \in Seq(Match) /\ Len(m) <= max_matches
                /\ Sorted(m) /\ NamesDiffer(m) /\ BlocksDiffer(m)

(* Removing an element leaves a good array of the others.                  *)
LEMMA RemoveKeepsGood ==
  ASSUME NEW m, GoodArray(m), NEW i \in 1 .. Len(m)
  PROVE  /\ GoodArray(RemoveAt(m, i))
         /\ Len(RemoveAt(m, i)) = Len(m) - 1
         /\ \A j \in DOMAIN RemoveAt(m, i) :
              \E k \in DOMAIN m : k # i /\ RemoveAt(m, i)[j] = m[k]
         /\ \A k \in DOMAIN m : k # i =>
              \E j \in DOMAIN RemoveAt(m, i) : RemoveAt(m, i)[j] = m[k]
<1> DEFINE r == RemoveAt(m, i)
<1>1. /\ r \in Seq(Match) /\ Len(r) = Len(m) - 1
      /\ \A j \in 1 .. Len(m) - 1 : r[j] = IF j < i THEN m[j] ELSE m[j + 1]
  BY RemoveAtFacts DEF GoodArray
<1>2. m \in Seq(Match) /\ Len(m) <= max_matches /\ max_matches \in Nat
      /\ DOMAIN m = 1 .. Len(m) /\ Len(m) \in Nat
  BY MatchAssumption DEF GoodArray
<1> HIDE DEF r
<1>3. DOMAIN r = 1 .. Len(m) - 1
  BY <1>1
<1> DEFINE at(j) == IF j < i THEN j ELSE j + 1
<1>4. \A j \in DOMAIN r : at(j) \in DOMAIN m /\ at(j) # i /\ r[j] = m[at(j)]
  BY <1>1, <1>2, <1>3
<1>5. ASSUME NEW j \in DOMAIN r, NEW k \in DOMAIN r
      PROVE  /\ j < k => at(j) < at(k)
             /\ at(j) = at(k) => j = k
  BY <1>2, <1>3
<1> HIDE DEF at
<1>6. Sorted(r) /\ NamesDiffer(r) /\ BlocksDiffer(r)
  <2>1. Sorted(m) /\ NamesDiffer(m) /\ BlocksDiffer(m)
    BY DEF GoodArray
  <2>2. ASSUME NEW j \in DOMAIN r, NEW k \in DOMAIN r
        PROVE  /\ j < k => r[j].score >= r[k].score
               /\ r[j].name = r[k].name => j = k
               /\ r[j].block = r[k].block => j = k
    <3>1. /\ r[j] = m[at(j)] /\ r[k] = m[at(k)]
          /\ at(j) \in DOMAIN m /\ at(k) \in DOMAIN m
      BY <1>4
    <3>2. j < k => at(j) < at(k)
      BY <1>5
    <3>3. at(j) = at(k) => j = k
      BY <1>5
    <3>4. /\ at(j) < at(k) => m[at(j)].score >= m[at(k)].score
          /\ m[at(j)].name = m[at(k)].name => at(j) = at(k)
          /\ m[at(j)].block = m[at(k)].block => at(j) = at(k)
      BY <2>1, <3>1 DEF Sorted, NamesDiffer, BlocksDiffer
    <3>5. QED
      BY <3>1, <3>2, <3>3, <3>4
  <2>3. Sorted(r) /\ NamesDiffer(r) /\ BlocksDiffer(r)
    BY <2>2 DEF Sorted, NamesDiffer, BlocksDiffer
  <2>4. QED
    BY <2>3
<1>7. ASSUME NEW k \in DOMAIN m, k # i
      PROVE  \E j \in DOMAIN r : r[j] = m[k]
  <2>1. CASE k < i
    <3>1. k \in DOMAIN r /\ r[k] = m[k]
      BY <1>1, <1>2, <1>3, <2>1
    <3>2. QED
      BY <3>1
  <2>2. CASE k > i
    <3>1. k - 1 \in DOMAIN r /\ r[k - 1] = m[k]
      BY <1>1, <1>2, <1>3, <2>2
    <3>2. QED
      BY <3>1
  <2>3. QED
    BY <1>2, <1>7, <2>1, <2>2
<1>8. GoodArray(r)
  <2>1. Len(r) <= max_matches
    BY <1>1, <1>2
  <2>2. QED
    BY <1>1, <1>6, <2>1 DEF GoodArray
<1>9. QED
  BY <1>1, <1>4, <1>7, <1>8 DEF r

(* Inserting a new name, with a new block, where Positions says keeps the  *)
(* array good.                                                             *)
LEMMA InsertKeepsGood ==
  ASSUME NEW m, GoodArray(m), Len(m) < max_matches,
         NEW e \in Match,
         \A i \in DOMAIN m : m[i].name # e.name /\ m[i].block # e.block,
         NEW r \in Insert(m, e)
  PROVE  /\ GoodArray(r)
         /\ Len(r) = Len(m) + 1
         /\ \A j \in DOMAIN r : r[j] = e \/ \E k \in DOMAIN m : r[j] = m[k]
         /\ \A k \in DOMAIN m : \E j \in DOMAIN r : r[j] = m[k]
         /\ \E j \in DOMAIN r : r[j] = e
<1>1. PICK p \in Positions(m, e.score) : r = InsertAt(m, p, e)
  BY DEF Insert
<1>2. /\ p \in 1 .. Len(m) + 1
      /\ \A i \in 1 .. p - 1 : m[i].score >= e.score
      /\ p <= Len(m) => m[p].score < e.score
  BY DEF Positions
<1>3. /\ m \in Seq(Match) /\ DOMAIN m = 1 .. Len(m) /\ Len(m) \in Nat
      /\ max_matches \in Nat
  BY MatchAssumption DEF GoodArray
<1>4. /\ r \in Seq(Match) /\ Len(r) = Len(m) + 1
      /\ \A j \in 1 .. Len(m) + 1 : r[j] = IF j < p THEN m[j]
                                         ELSE IF j = p THEN e ELSE m[j - 1]
  <2>1. /\ InsertAt(m, p, e) \in Seq(Match)
        /\ Len(InsertAt(m, p, e)) = Len(m) + 1
        /\ \A j \in 1 .. Len(m) + 1 :
             InsertAt(m, p, e)[j] = IF j < p THEN m[j]
                                    ELSE IF j = p THEN e ELSE m[j - 1]
    <3>1. m \in Seq(Match) /\ p \in 1 .. Len(m) + 1
      BY <1>2, <1>3
    <3>2. QED
      BY ONLY <3>1, e \in Match, InsertAtFacts
  <2>2. QED
    BY ONLY <2>1, <1>1
<1>5. DOMAIN r = 1 .. Len(m) + 1
  BY <1>4
<1> DEFINE at(j) == IF j < p THEN j ELSE j - 1
<1>6. /\ r[p] = e /\ p \in DOMAIN r
      /\ \A j \in DOMAIN r : j # p => at(j) \in DOMAIN m /\ r[j] = m[at(j)]
  BY <1>2, <1>3, <1>4, <1>5
<1>7. \A j, k \in DOMAIN r : j # p /\ k # p =>
        /\ j < k => at(j) < at(k)
        /\ at(j) = at(k) => j = k
  BY <1>2, <1>3, <1>5
<1>8. \A k \in DOMAIN m : \E j \in DOMAIN r : r[j] = m[k]
  <2> SUFFICES ASSUME NEW k \in DOMAIN m PROVE \E j \in DOMAIN r : r[j] = m[k]
    OBVIOUS
  <2>1. CASE k < p
    <3>1. k \in DOMAIN r /\ r[k] = m[k]
      BY <1>3, <1>4, <1>5, <2>1
    <3>2. QED
      BY <3>1
  <2>2. CASE k >= p
    <3>1. k + 1 \in DOMAIN r /\ r[k + 1] = m[k]
      BY <1>2, <1>3, <1>4, <1>5, <2>2
    <3>2. QED
      BY <3>1
  <2>3. QED
    BY <1>2, <1>3, <2>1, <2>2
<1>9. Sorted(r)
  <2> SUFFICES ASSUME NEW i \in DOMAIN r, NEW j \in DOMAIN r, i < j
               PROVE  r[i].score >= r[j].score
    BY DEF Sorted
  <2>0. \A x \in Match : x.score \in Int
    BY MatchAssumption DEF Match
  <2>1. CASE i # p /\ j # p
    BY <1>6, <1>7, <2>1 DEF GoodArray, Sorted
  <2>2. CASE j = p
    <3>1. i \in 1 .. p - 1 /\ r[i] = m[i]
      BY <1>2, <1>3, <1>4, <1>5, <2>2
    <3>2. QED
      BY <1>2, <1>6, <2>2, <3>1
  <2>3. CASE i = p
    <3>1. /\ j - 1 \in DOMAIN m /\ r[j] = m[j - 1] /\ p <= j - 1
          /\ p \in DOMAIN m /\ p <= Len(m)
      BY <1>2, <1>3, <1>4, <1>5, <2>3
    <3>2. m[p].score < e.score
      BY <1>2, <3>1
    <3>3. m[p].score >= m[j - 1].score
      <4>1. CASE p = j - 1
        BY <2>0, <3>1, <4>1, <1>3
      <4>2. CASE p < j - 1
        BY <3>1, <4>2 DEF GoodArray, Sorted
      <4>3. QED
        BY <1>2, <1>5, <3>1, <4>1, <4>2
    <3>4. m[p] \in Match /\ m[j - 1] \in Match
      BY <1>3, <3>1
    <3>5. QED
      BY <1>6, <2>0, <2>3, <3>1, <3>2, <3>3, <3>4
  <2>4. QED
    BY <2>1, <2>2, <2>3
<1>10. NamesDiffer(r) /\ BlocksDiffer(r)
  BY <1>6, <1>7 DEF GoodArray, NamesDiffer, BlocksDiffer
<1>11. Len(r) <= max_matches
  BY <1>3, <1>4
<1>12. GoodArray(r)
  BY <1>4, <1>9, <1>10, <1>11 DEF GoodArray
<1>13. QED
  BY <1>4, <1>6, <1>8, <1>12

(* What MakeRoom leaves: room for one element, none of it under the name   *)
(* to be inserted, and everything but the element that goes.               *)
LEMMA RoomIsMade ==
  ASSUME NEW m, GoodArray(m), max_matches # 0, NEW name
  PROVE  LET r == MakeRoom(m, name)
         IN  /\ GoodArray(r) /\ Len(r) < max_matches
             /\ \A j \in DOMAIN r :
                  /\ r[j].name # name
                  /\ \E k \in DOMAIN m : k \notin Leaving(m, name) /\ r[j] = m[k]
             /\ \A k \in DOMAIN m \ Leaving(m, name) :
                  \E j \in DOMAIN r : r[j] = m[k]
             /\ Len(m) = max_matches => Len(r) = max_matches - 1
<1> DEFINE r == MakeRoom(m, name)
<1>1. /\ m \in Seq(Match) /\ DOMAIN m = 1 .. Len(m) /\ Len(m) \in Nat
      /\ max_matches \in Nat /\ Len(m) <= max_matches
  BY MatchAssumption DEF GoodArray
<1>a. Len(m) \in Int /\ max_matches \in Int /\ Len(m) <= max_matches
  BY <1>1
<1>b. Leaving(m, name) \subseteq 1 .. Len(m)
  <2>1. Existing(m, name) \subseteq 1 .. Len(m)
    BY <1>1 DEF Existing
  <2>2. Len(m) = max_matches => Len(m) \in 1 .. Len(m)
    BY <1>1
  <2>3. QED
    BY <2>1, <2>2 DEF Leaving
<1>2. CASE Leaving(m, name) = {}
  <2>1. r = m /\ Existing(m, name) = {} /\ Len(m) # max_matches
    BY <1>2 DEF MakeRoom, Leaving
  <2>2. \A j \in DOMAIN m : m[j].name # name
    BY <2>1 DEF Existing
  <2>3. Len(m) < max_matches
    BY ONLY <1>a, <2>1
  <2>4. QED
    BY <1>1, <1>2, <2>1, <2>2, <2>3
<1>3. CASE Leaving(m, name) # {}
  <2> DEFINE i == CHOOSE i \in Leaving(m, name) : TRUE
  <2>1. i \in Leaving(m, name) /\ r = RemoveAt(m, i)
    BY <1>3 DEF MakeRoom
  <2> HIDE DEF i
  <2>2. i \in 1 .. Len(m)
    BY <1>b, <2>1
  <2>3. Leaving(m, name) = {i}
    BY <2>1 DEF Leaving, Existing, GoodArray, NamesDiffer
  <2>4. \A k \in DOMAIN m : k # i => m[k].name # name
    BY <2>1, <2>3 DEF Leaving, Existing
  <2>5. /\ GoodArray(r) /\ Len(r) = Len(m) - 1
        /\ \A j \in DOMAIN r : \E k \in DOMAIN m : k # i /\ r[j] = m[k]
        /\ \A k \in DOMAIN m : k # i => \E j \in DOMAIN r : r[j] = m[k]
    BY <2>1, <2>2, RemoveKeepsGood
  <2>6. Len(r) < max_matches /\ (Len(m) = max_matches => Len(r) = max_matches - 1)
    <3>1. Len(r) = Len(m) - 1
      BY <2>5
    <3>2. QED
      BY ONLY <1>a, <3>1
  <2>7. QED
    BY <2>3, <2>4, <2>5, <2>6
<1>4. QED
  BY <1>2, <1>3

(* Retaining a candidate that is not ignored.                              *)
LEMMA RetainKeepsGood ==
  ASSUME NEW m, GoodArray(m), max_matches # 0,
         NEW c \in Result, ~Ignored(m, c.name, c.score),
         NEW b \in NameBlock, b \notin Blocks(m),
         NEW r \in Insert(MakeRoom(m, c.name), Named(c, b))
  PROVE  /\ GoodArray(r)
         /\ Blocks(r) = (Blocks(m) \cup {b})
                        \ {m[i].block : i \in Leaving(m, c.name)}
         /\ Covered(r, c)
         /\ \A d \in Result : Covered(m, d) => Covered(r, d)
<1> DEFINE room == MakeRoom(m, c.name)
           e == Named(c, b)
           L == Leaving(m, c.name)
<1>1. /\ GoodArray(room) /\ Len(room) < max_matches
      /\ \A j \in DOMAIN room : room[j].name # c.name
      /\ \A j \in DOMAIN room : \E k \in DOMAIN m : k \notin L /\ room[j] = m[k]
      /\ \A k \in DOMAIN m \ L : \E j \in DOMAIN room : room[j] = m[k]
      /\ Len(m) = max_matches => Len(room) = max_matches - 1
  BY RoomIsMade
<1>2. e \in Match /\ e.name = c.name /\ e.score = c.score /\ e.block = b
  BY DEF Named, Match, Result
<1>3. r \in Insert(room, e)
  OBVIOUS
<1>c. c.score \in Int /\ c.name \in OsNames
  BY MatchAssumption DEF Result
<1>d. \A x \in Match : x.score \in Int
  BY MatchAssumption DEF Match
<1>4. \A k \in DOMAIN m : m[k].block # b
  BY DEF Blocks
<1> HIDE DEF room, e, L
<1>5. \A j \in DOMAIN room : room[j].name # e.name /\ room[j].block # e.block
  BY <1>1, <1>2, <1>4
<1>6. /\ GoodArray(r) /\ Len(r) = Len(room) + 1
      /\ \A j \in DOMAIN r : r[j] = e \/ \E k \in DOMAIN room : r[j] = room[k]
      /\ \A k \in DOMAIN room : \E j \in DOMAIN r : r[j] = room[k]
      /\ \E j \in DOMAIN r : r[j] = e
  BY <1>1, <1>2, <1>3, <1>5, InsertKeepsGood
<1>7. \A j \in DOMAIN r : r[j] = e \/ \E k \in DOMAIN m : k \notin L /\ r[j] = m[k]
  BY <1>1, <1>6
<1>8. \A k \in DOMAIN m \ L : \E j \in DOMAIN r : r[j] = m[k]
  BY <1>1, <1>6
<1>9. L \subseteq DOMAIN m
  <2>1. m \in Seq(Match) /\ max_matches \in Nat
    BY MatchAssumption DEF GoodArray
  <2>2. QED
    BY <2>1 DEF L, Leaving, Existing
<1>10. Blocks(r) = (Blocks(m) \cup {b}) \ {m[i].block : i \in L}
  <2>1. ASSUME NEW x \in Blocks(r)
        PROVE  x \in (Blocks(m) \cup {b}) \ {m[i].block : i \in L}
    <3>1. PICK j \in DOMAIN r : x = r[j].block
      BY DEF Blocks
    <3>2. CASE r[j] = e
      BY <1>2, <1>4, <1>9, <3>1, <3>2
    <3>3. CASE \E k \in DOMAIN m : k \notin L /\ r[j] = m[k]
      <4>1. PICK k \in DOMAIN m : k \notin L /\ r[j] = m[k]
        BY <3>3
      <4>2. x = m[k].block /\ x \in Blocks(m)
        BY <3>1, <4>1 DEF Blocks
      <4>3. \A i \in L : m[i].block # m[k].block
        BY <1>9, <4>1 DEF GoodArray, BlocksDiffer
      <4>4. QED
        BY <4>2, <4>3
    <3>4. QED
      BY <1>7, <3>2, <3>3
  <2>2. ASSUME NEW x \in (Blocks(m) \cup {b}) \ {m[i].block : i \in L}
        PROVE  x \in Blocks(r)
    <3>1. CASE x = b
      BY <1>2, <1>6, <3>1 DEF Blocks
    <3>2. CASE x \in Blocks(m)
      <4>1. PICK k \in DOMAIN m : x = m[k].block
        BY <3>2 DEF Blocks
      <4>2. k \notin L
        BY <2>2, <4>1
      <4>3. PICK j \in DOMAIN r : r[j] = m[k]
        BY <1>8, <4>1, <4>2
      <4>4. QED
        BY <4>1, <4>3 DEF Blocks
    <3>3. QED
      BY <2>2, <3>1, <3>2
  <2>3. QED
    BY <2>1, <2>2
<1>11. Covered(r, c)
  <2>1. PICK j \in DOMAIN r : r[j] = e
    BY <1>6
  <2>2. e.score >= c.score
    BY <1>2, <1>c
  <2>3. QED
    BY <1>2, <2>1, <2>2 DEF Covered
<1>12. \A i \in L : m[i].score < c.score
  <2>1. CASE Existing(m, c.name) # {}
    <3>1. \A i \in Existing(m, c.name) : ~(m[i].score >= c.score)
      BY DEF Ignored
    <3>2. \A i \in L : m[i] \in Match
      BY <1>9 DEF GoodArray
    <3>3. L = Existing(m, c.name)
      BY <2>1 DEF L, Leaving
    <3>4. QED
      BY ONLY <1>c, <1>d, <3>1, <3>2, <3>3
  <2>2. CASE Existing(m, c.name) = {}
    <3>1. L \subseteq {Len(m)} /\ (L # {} => ~(c.score <= m[Len(m)].score))
      BY <2>2 DEF L, Leaving, Ignored
    <3>2. \A i \in L : m[i] \in Match
      BY <1>9 DEF GoodArray
    <3>3. QED
      BY ONLY <1>c, <1>d, <3>1, <3>2
  <2>3. QED
    BY <2>1, <2>2
<1>13. ASSUME NEW d \in Result, Covered(m, d) PROVE Covered(r, d)
  <2>0. \A x \in Match : x.score \in Int
    BY MatchAssumption DEF Match
  <2>a. d.score \in Int /\ c.score \in Int
    BY MatchAssumption DEF Result
  <2>b. m \in Seq(Match) /\ \A k \in DOMAIN m : m[k].score \in Int
    BY <2>0 DEF GoodArray
  <2>c. max_matches \in Nat /\ Len(m) \in Nat /\ DOMAIN m = 1 .. Len(m)
    BY <2>b, MatchAssumption
  <2>d. Len(m) = max_matches => Len(r) = max_matches
    BY <1>1, <1>6, <2>c
  <2>1. CASE \E k \in DOMAIN m \ L : m[k].name = d.name /\ m[k].score >= d.score
    BY <1>8, <2>1 DEF Covered
  <2>2. CASE \E k \in L : m[k].name = d.name /\ m[k].score >= d.score
    <3>1. PICK k \in L : m[k].name = d.name /\ m[k].score >= d.score
      BY <2>2
    <3>2. c.score >= d.score
      BY <1>9, <1>12, <2>a, <2>b, <3>1
    <3>3. CASE Existing(m, c.name) # {}
      <4>1. m[k].name = c.name
        BY <3>1, <3>3 DEF L, Leaving, Existing
      <4>2. QED
        BY <1>2, <1>6, <3>1, <3>2, <4>1 DEF Covered
    <3>4. CASE Existing(m, c.name) = {}
      <4>1. k = Len(m) /\ Len(m) = max_matches
        BY <3>1, <3>4 DEF L, Leaving
      <4>2. \A i \in DOMAIN m : m[i].score >= m[k].score
        BY <1>9, <2>b, <2>c, <3>1, <4>1 DEF GoodArray, Sorted
      <4>3. \A i \in DOMAIN m : m[i].score >= d.score
        BY <1>9, <2>a, <2>b, <3>1, <4>2
      <4>4. \A j \in DOMAIN r : r[j].score >= d.score
        BY <1>2, <1>7, <3>2, <4>3
      <4>5. QED
        BY <2>d, <4>1, <4>4 DEF Covered
    <3>5. QED
      BY <3>3, <3>4
  <2>3. CASE Len(m) = max_matches /\ \A i \in DOMAIN m : m[i].score >= d.score
    <3>1. c.score >= d.score
      <4>1. PICK i \in L : TRUE
        BY <2>3 DEF L, Leaving
      <4>2. QED
        BY <1>9, <1>12, <2>3, <2>a, <2>b, <4>1
    <3>2. \A j \in DOMAIN r : r[j].score >= d.score
      BY <1>2, <1>7, <2>3, <3>1
    <3>3. QED
      BY <2>3, <2>d, <3>2 DEF Covered
  <2>4. QED
    BY <1>13, <2>1, <2>2, <2>3 DEF Covered
<1>14. QED
  BY <1>6, <1>10, <1>11, <1>13 DEF L

-----------------------------------------------------------------------------
(* The search.                                                             *)

Searching == {"read", "compare"}
Starting  == {"open", "parse_observed", "read_weights", "rewind"}

(* Nothing is retained before the search starts; from then on the array is *)
(* good, its names are the allocated ones, and it covers the history.      *)
FindInv ==
  /\ TypeOK
  /\ GoodArray(best_matches)
  /\ names = Blocks(best_matches)
  /\ pc \in Starting => best_matches = <<>> /\ seen = <<>>
  /\ pc = "open" => held = {}
  /\ pc \in Starting \ {"open"} => "file" \in held
  /\ pc \in Searching => max_matches # 0
  /\ pc \in Searching \/ (pc = "returned" /\ result = 0) =>
       \A k \in DOMAIN seen : Covered(best_matches, seen[k])
  /\ FailureReportsNothing

LEMMA EmptyArray ==
  /\ GoodArray(<<>>) /\ Blocks(<<>>) = {} /\ DOMAIN <<>> = {}
  /\ <<>> \in Seq(Match) /\ Len(<<>>) = 0
BY MatchAssumption DEF GoodArray, Blocks, Sorted, NamesDiffer, BlocksDiffer

(* A candidate appended to the history.                                    *)
LEMMA SeenFacts ==
  ASSUME TypeOK, NEW c \in Result, seen' = Append(seen, c)
  PROVE  /\ seen' \in Seq(Result)
         /\ \A k \in DOMAIN seen' : seen'[k] = c \/ \E i \in DOMAIN seen : seen'[k] = seen[i]
<1>1. seen \in Seq(Result)
  BY DEF TypeOK
<1>2. QED
  BY <1>1, AppendProperties

(* The reference under comparison is a candidate when it has a score.      *)
LEMMA EntryFacts ==
  ASSUME TypeOK, pc = "compare", Head(entry).score \in Scores
  PROVE  Head(entry) \in Result
<1>1. /\ entry \in Seq([name : OsNames, score : Scores \cup {NoPoints, Failed}])
      /\ Len(entry) = 1
  BY DEF TypeOK
<1>2. Head(entry) \in [name : OsNames, score : Scores \cup {NoPoints, Failed}]
  <2>1. entry # <<>>
    BY ONLY <1>1
  <2>2. QED
    BY ONLY <1>1, <2>1, HeadTailProperties
<1>3. QED
  BY <1>2 DEF Result

LEMMA FindInit == Init => FindInv
<1> SUFFICES ASSUME Init PROVE FindInv
  OBVIOUS
<1>1. TypeOK
  BY MatchAssumption, EmptyArray, EmptySeq DEF Init, TypeOK
<1>2. QED
  BY <1>1, EmptyArray DEF Init, FindInv, Starting, Searching,
     FailureReportsNothing

(* The steps that leave the array and the history alone.                   *)
LEMMA StartKept ==
  ASSUME FindInv, OpenDatabase \/ ParseObserved \/ ReadWeights \/ Refuse \/ Rewind
  PROVE  FindInv'
<1>0. /\ held \subseteq {"file", "observed", "weights"} /\ result \in {-1, 0, 1}
      /\ pc = "open" => held = {}
      /\ pc \in {"parse_observed", "read_weights", "rewind"} => "file" \in held
  BY DEF FindInv, TypeOK, Starting
<1>a. /\ UNCHANGED <<best_matches, names, seen, entry>> /\ pc \in Starting
      /\ pc' \in Starting \cup {"read", "returned"}
  BY ONLY <1>0, OpenDatabase \/ ParseObserved \/ ReadWeights \/ Refuse \/ Rewind
     DEF OpenDatabase, ParseObserved, ReadWeights, Refuse, Rewind,
     Acceptable, Return, ArrayUnchanged, Starting
<1>b. pc' = "read" => max_matches # 0
  BY ONLY <1>0, MatchAssumption, OpenDatabase \/ ParseObserved \/ ReadWeights \/ Refuse \/ Rewind
     DEF OpenDatabase, ParseObserved, ReadWeights, Refuse, Rewind,
     Acceptable, Return, ArrayUnchanged, Starting
<1>c. result' \in {-1, 0, 1}
  BY ONLY <1>0, OpenDatabase \/ ParseObserved \/ ReadWeights \/ Refuse \/ Rewind
     DEF OpenDatabase, ParseObserved, ReadWeights, Refuse, Rewind,
     Acceptable, Return, ArrayUnchanged, Starting
<1>d. held' \subseteq {"file", "observed", "weights"}
  BY ONLY <1>0, OpenDatabase \/ ParseObserved \/ ReadWeights \/ Refuse \/ Rewind
     DEF OpenDatabase, ParseObserved, ReadWeights, Refuse, Rewind,
     Acceptable, Return, ArrayUnchanged, Starting
<1>e. pc' = "returned" => result' # 0 /\ ("file" \in held' <=> result' = 1)
  BY ONLY <1>0, OpenDatabase \/ ParseObserved \/ ReadWeights \/ Refuse \/ Rewind
     DEF OpenDatabase, ParseObserved, ReadWeights, Refuse, Rewind,
     Acceptable, Return, ArrayUnchanged, Starting
<1>f. pc' # "open"
  BY ONLY <1>0, OpenDatabase \/ ParseObserved \/ ReadWeights \/ Refuse \/ Rewind
     DEF OpenDatabase, ParseObserved, ReadWeights, Refuse, Rewind,
     Acceptable, Return, ArrayUnchanged, Starting
<1>g. pc' \in {"parse_observed", "read_weights", "rewind"} => "file" \in held'
  BY ONLY <1>0, OpenDatabase \/ ParseObserved \/ ReadWeights \/ Refuse \/ Rewind
     DEF OpenDatabase, ParseObserved, ReadWeights, Refuse, Rewind,
     Acceptable, Return, ArrayUnchanged, Starting
<1>1. /\ UNCHANGED <<best_matches, names, seen, entry>> /\ pc \in Starting
      /\ pc' \in Starting \cup {"read", "returned"} /\ pc' # "open"
      /\ pc' \in {"parse_observed", "read_weights", "rewind"} => "file" \in held'
      /\ pc' = "read" => max_matches # 0
      /\ result' \in {-1, 0, 1}
      /\ held' \subseteq {"file", "observed", "weights"}
      /\ pc' = "returned" => result' # 0 /\ ("file" \in held' <=> result' = 1)
  BY <1>a, <1>b, <1>c, <1>d, <1>e, <1>f, <1>g
<1>3. TypeOK'
  <2>1. pc' # "compare" /\ Len(entry) = 0 /\ pc' \in
          {"open", "parse_observed", "read_weights", "rewind", "read", "returned"}
    BY <1>1 DEF Starting, FindInv, TypeOK
  <2>2. QED
    BY <1>1, <2>1 DEF FindInv, TypeOK
<1>4. best_matches = <<>> /\ seen = <<>>
  BY <1>1 DEF FindInv
<1>5. QED
  BY <1>1, <1>3, <1>4, EmptyArray DEF FindInv, Starting, Searching,
     FailureReportsNothing

LEMMA ReadKept ==
  ASSUME FindInv, ReadEntry \/ ReadEnd \/ SkipEntry
  PROVE  FindInv'
<1>0. held \subseteq {"file", "observed", "weights"} /\ result \in {-1, 0, 1}
  BY DEF FindInv, TypeOK
<1>a. /\ UNCHANGED <<best_matches, names, seen>> /\ pc \in Searching
      /\ pc' \in Searching \cup {"returned"}
  BY DEF ReadEntry, ReadEnd, SkipEntry, Return, ArrayUnchanged, Searching
<1>b. /\ result' \in {-1, 0, 1}
      /\ pc' = "returned" => result' = 0 /\ "file" \notin held' /\ "weights" \notin held'
  BY <1>0 DEF ReadEntry, ReadEnd, SkipEntry, Return
<1>c. held' \subseteq {"file", "observed", "weights"}
  <2>1. held' = held \/ held' = held \ {"weights", "file"}
    BY DEF ReadEntry, ReadEnd, SkipEntry
  <2>2. QED
    BY ONLY <1>0, <2>1
<1>1. /\ UNCHANGED <<best_matches, names, seen>> /\ pc \in Searching
      /\ pc' \in Searching \cup {"returned"} /\ result' \in {-1, 0, 1}
      /\ held' \subseteq {"file", "observed", "weights"}
      /\ pc' = "returned" => result' = 0 /\ "file" \notin held' /\ "weights" \notin held'
  BY <1>a, <1>b, <1>c
<1>2. /\ entry' \in Seq([name : OsNames, score : Scores \cup {NoPoints, Failed}])
      /\ Len(entry') = IF pc' = "compare" THEN 1 ELSE 0
  <2>1. CASE ReadEntry
    <3>1. PICK n \in OsNames, s \in Scores \cup {NoPoints, Failed} :
            entry' = <<[name |-> n, score |-> s]>>
      BY <2>1 DEF ReadEntry
    <3>2. pc' = "compare"
      BY <2>1 DEF ReadEntry
    <3>3. QED
      BY ONLY <3>1, <3>2
  <2>2. CASE ReadEnd
    BY <2>2 DEF ReadEnd, Return, FindInv, TypeOK
  <2>3. CASE SkipEntry
    BY <2>3, EmptySeq DEF SkipEntry
  <2>4. QED
    BY <2>1, <2>2, <2>3
<1>3. TypeOK'
  BY <1>1, <1>2 DEF FindInv, TypeOK, Searching
<1>4. QED
  BY <1>1, <1>3 DEF FindInv, Starting, Searching, FailureReportsNothing

LEMMA IgnoreKept ==
  ASSUME FindInv, IgnoreEntry
  PROVE  FindInv'
<1> DEFINE c == Head(entry)
<1>1. c \in Result /\ pc = "compare"
  BY EntryFacts DEF IgnoreEntry, FindInv
<1>2. /\ UNCHANGED <<best_matches, names, held, result>> /\ pc' = "read"
      /\ entry' = <<>> /\ seen' = Append(seen, c)
      /\ Ignored(best_matches, c.name, c.score)
  BY DEF IgnoreEntry
<1> HIDE DEF c
<1>3. /\ seen' \in Seq(Result)
      /\ \A k \in DOMAIN seen' : seen'[k] = c \/ \E i \in DOMAIN seen : seen'[k] = seen[i]
  BY <1>1, <1>2, SeenFacts DEF FindInv
<1>4. Covered(best_matches, c)
  <2>1. CASE \E i \in Existing(best_matches, c.name) : best_matches[i].score >= c.score
    BY <2>1 DEF Existing, Covered
  <2>2. CASE /\ Len(best_matches) = max_matches
             /\ c.score <= best_matches[Len(best_matches)].score
    <3>1. /\ best_matches \in Seq(Match) /\ Len(best_matches) \in Nat
          /\ DOMAIN best_matches = 1 .. Len(best_matches)
          /\ Sorted(best_matches)
      BY DEF FindInv, GoodArray
    <3>2. Len(best_matches) \in DOMAIN best_matches
      BY <1>1, <2>2, <3>1 DEF FindInv, Searching
    <3>3. /\ c.score \in Int
          /\ \A i \in DOMAIN best_matches : best_matches[i].score \in Int
      <4>1. \A x \in Match : x.score \in Int
        BY MatchAssumption DEF Match
      <4>2. c.score \in Int
        BY <1>1, MatchAssumption DEF Result
      <4>3. QED
        BY <3>1, <4>1, <4>2
    <3>4. \A i \in DOMAIN best_matches :
            best_matches[i].score >= best_matches[Len(best_matches)].score
      BY <3>1, <3>2, <3>3 DEF Sorted
    <3>5. \A i \in DOMAIN best_matches : best_matches[i].score >= c.score
      BY <2>2, <3>2, <3>3, <3>4
    <3>6. QED
      BY <2>2, <3>5 DEF Covered
  <2>3. QED
    BY <1>2, <2>1, <2>2 DEF Ignored
<1>5. TypeOK'
  BY <1>2, <1>3, EmptySeq DEF FindInv, TypeOK
<1>6. \A k \in DOMAIN seen' : Covered(best_matches, seen'[k])
  BY <1>1, <1>3, <1>4 DEF FindInv, Searching
<1>7. QED
  BY <1>1, <1>2, <1>5, <1>6 DEF FindInv, Starting, Searching,
     FailureReportsNothing

LEMMA RetainKept ==
  ASSUME FindInv, RetainEntry
  PROVE  FindInv'
<1> DEFINE c == Head(entry)
<1>1. c \in Result /\ pc = "compare" /\ max_matches # 0
  BY EntryFacts DEF RetainEntry, FindInv, Searching
<1>2. /\ UNCHANGED <<held, result>> /\ pc' = "read"
      /\ entry' = <<>> /\ seen' = Append(seen, c)
      /\ ~Ignored(best_matches, c.name, c.score)
  BY DEF RetainEntry
<1>3. PICK b \in NameBlock \ names :
        /\ best_matches' \in Insert(MakeRoom(best_matches, c.name), Named(c, b))
        /\ names' = (names \cup {b})
                     \ {best_matches[i].block : i \in Leaving(best_matches, c.name)}
  BY DEF RetainEntry
<1> HIDE DEF c
<1>4. /\ GoodArray(best_matches) /\ names = Blocks(best_matches)
      /\ \A k \in DOMAIN seen : seen[k] \in Result /\ Covered(best_matches, seen[k])
  BY <1>1 DEF FindInv, Searching, TypeOK
<1>5. /\ GoodArray(best_matches') /\ names' = Blocks(best_matches')
      /\ Covered(best_matches', c)
      /\ \A d \in Result : Covered(best_matches, d) => Covered(best_matches', d)
  BY <1>1, <1>2, <1>3, <1>4, RetainKeepsGood
<1>6. /\ seen' \in Seq(Result)
      /\ \A k \in DOMAIN seen' : seen'[k] = c \/ \E i \in DOMAIN seen : seen'[k] = seen[i]
  BY <1>1, <1>2, SeenFacts DEF FindInv
<1>7. \A k \in DOMAIN seen' : Covered(best_matches', seen'[k])
  BY <1>4, <1>5, <1>6
<1>8. TypeOK'
  <2>1. names' \subseteq NameBlock
    BY <1>3 DEF FindInv, TypeOK
  <2>2. best_matches' \in Seq(Match) /\ Len(best_matches') <= max_matches
    BY <1>5 DEF GoodArray
  <2>3. QED
    BY <1>2, <1>6, <2>1, <2>2, EmptySeq DEF FindInv, TypeOK
<1>9. QED
  BY <1>1, <1>2, <1>5, <1>7, <1>8 DEF FindInv, Starting, Searching,
     FailureReportsNothing

(* Failures during the search, and the caller's cleanup, empty the array.  *)
LEMMA EndKept ==
  ASSUME FindInv, ReadFails \/ RetainFails \/ FreeMatches
  PROVE  FindInv'
<1>1. /\ best_matches' = <<>> /\ seen' = seen
      /\ pc' \in {"returned", "done"} /\ result' \in {-1, 0, 1}
      /\ held' \subseteq {"file", "observed", "weights"}
      /\ pc' = "returned" => result' = -1 /\ "file" \notin held' /\ "weights" \notin held'
      /\ Len(entry') = 0
      /\ entry' \in Seq([name : OsNames, score : Scores \cup {NoPoints, Failed}])
  BY EmptySeq DEF ReadFails, RetainFails, FreeMatches, GiveUp, Return, FindInv, TypeOK
<1>2. names' = {}
  <2>1. names = {best_matches[i].block : i \in DOMAIN best_matches}
    BY DEF FindInv, Blocks
  <2>2. QED
    BY <2>1 DEF ReadFails, RetainFails, FreeMatches, GiveUp
<1>3. TypeOK'
  BY <1>1, <1>2, EmptyArray, MatchAssumption DEF FindInv, TypeOK
<1>4. QED
  BY <1>1, <1>2, <1>3, EmptyArray DEF FindInv, Starting, Searching,
     FailureReportsNothing

LEMMA FindInvariant == Spec => []FindInv
<1>1. FindInv /\ [Next]_vars => FindInv'
  <2> SUFFICES ASSUME FindInv, [Next]_vars PROVE FindInv'
    OBVIOUS
  <2>1. CASE Terminated \/ UNCHANGED vars
    BY <2>1 DEF Terminated, vars, FindInv, TypeOK, FailureReportsNothing
  <2>2. CASE Next /\ ~Terminated
    BY <2>2, StartKept, ReadKept, IgnoreKept, RetainKept, EndKept DEF Next
  <2>3. QED
    BY <2>1, <2>2
<1>2. QED
  BY <1>1, FindInit, PTL DEF Spec

(* The array of matches never overflows, and its elements and the history  *)
(* keep their types (src/src/matcher.c:371-443).                           *)
THEOREM SearchTypeCorrect == Spec => []TypeOK
BY FindInvariant, PTL DEF FindInv

(* Sorted, each name once, and no candidate missed                         *)
(* (src/src/matcher.c:371-443).                                            *)
THEOREM BestAreKept == Spec => []KeepsTheBest
<1>1. FindInv => KeepsTheBest
  BY DEF FindInv, KeepsTheBest, GoodArray, Searching
<1>2. QED
  BY <1>1, FindInvariant, PTL

(* Every retained name is one block, freed exactly once                    *)
(* (src/src/matcher.c:403-421,510-535,542-551).                            *)
THEOREM NamesAreOwned == Spec => []NamesOwnedOnce
<1>1. FindInv => NamesOwnedOnce
  BY DEF FindInv, NamesOwnedOnce, GoodArray, Blocks, BlocksDiffer
<1>2. QED
  BY <1>1, FindInvariant, PTL

(* A failed search reports nothing; the database is left open exactly by   *)
(* the refusal of arguments, and the weights only by failures before a     *)
(* reference was looked at (src/src/matcher.c:451-537).                    *)
THEOREM FailureIsClean == Spec => []FailureReportsNothing
BY FindInvariant, PTL DEF FindInv

-----------------------------------------------------------------------------
(* The array against TopMatches, which keeps no array: every element       *)
(* stands for a leader of the history, the first candidate with the best   *)
(* score of its name, in the order of the report.                          *)

(* Candidate l is the one of the history s that element x stands for.      *)
Leads(s, l, x) ==
  l \in Top!Leaders(s) /\ s[l].name = x.name /\ s[l].score = x.score

(* Every name of the history has a leader.                                 *)
HasLeaders(s) ==
  \A j \in DOMAIN s : \E l \in Top!Leaders(s) : s[l].name = s[j].name

(* Every element stands for a leader.                                      *)
ElementsLead(m, s) == \A p \in DOMAIN m : \E l \in DOMAIN s : Leads(s, l, m[p])

(* The leaders stand in the array in the order the report asks for.        *)
LeadersInOrder(m, s) ==
  \A p, q \in DOMAIN m : p < q =>
    \A l, k \in DOMAIN s :
      Leads(s, l, m[p]) /\ Leads(s, k, m[q]) => Top!Beats(s, l, k)

(* A leader that is not in the array is beaten by a full array.            *)
LeadersListed(m, s) ==
  \A l \in Top!Leaders(s) :
    \/ \E p \in DOMAIN m : m[p].name = s[l].name
    \/ /\ Len(m) = max_matches
       /\ \A p \in DOMAIN m, k \in DOMAIN s :
            Leads(s, k, m[p]) => Top!Beats(s, k, l)

Mirrors(m, s) == /\ HasLeaders(s)
                 /\ ElementsLead(m, s)
                 /\ LeadersInOrder(m, s)
                 /\ LeadersListed(m, s)

(* Beating is a strict order, and one candidate leads each name.           *)
LEMMA BeatsOrders ==
  ASSUME NEW s \in Seq(Result), NEW i \in DOMAIN s, NEW j \in DOMAIN s
  PROVE  ~(Top!Beats(s, i, j) /\ Top!Beats(s, j, i))
<1>1. s[i].score \in Int /\ s[j].score \in Int /\ i \in Int /\ j \in Int
  <2>1. s[i] \in Result /\ s[j] \in Result /\ DOMAIN s = 1 .. Len(s)
    OBVIOUS
  <2>2. \A x \in Result : x.score \in Int
    BY MatchAssumption DEF Result
  <2>3. QED
    BY ONLY <2>1, <2>2, i \in DOMAIN s, j \in DOMAIN s
<1>2. QED
  BY <1>1 DEF Top!Beats

LEMMA OneLeaderPerName ==
  ASSUME NEW s \in Seq(Result),
         NEW i \in Top!Leaders(s), NEW j \in Top!Leaders(s),
         s[i].name = s[j].name
  PROVE  i = j
<1>1. i \in DOMAIN s /\ j \in DOMAIN s
  BY DEF Top!Leaders
<1>2. QED
  BY <1>1, BeatsOrders DEF Top!Leaders

(* What a new candidate does to the leaders.                               *)
LEMMA LeadersAppend ==
  ASSUME NEW s \in Seq(Result), NEW c \in Result, HasLeaders(s)
  PROVE  LET t == Append(s, c)
             n == Len(s) + 1
         IN  /\ t \in Seq(Result) /\ DOMAIN t = DOMAIN s \cup {n}
             /\ n \notin DOMAIN s /\ t[n] = c
             /\ \A i \in DOMAIN s : t[i] = s[i]
             /\ \A i, j \in DOMAIN s : Top!Beats(t, i, j) <=> Top!Beats(s, i, j)
             /\ \A i \in DOMAIN s : /\ Top!Beats(t, i, n) <=> s[i].score >= c.score
                                    /\ Top!Beats(t, n, i) <=> c.score > s[i].score
             /\ \A i \in DOMAIN s :
                  i \in Top!Leaders(t) <=>
                    /\ i \in Top!Leaders(s)
                    /\ s[i].name = c.name => s[i].score >= c.score
             /\ n \in Top!Leaders(t) <=>
                  \A i \in Top!Leaders(s) : s[i].name = c.name => s[i].score < c.score
             /\ HasLeaders(t)
<1> DEFINE t == Append(s, c)
           n == Len(s) + 1
<1>1. /\ t \in Seq(Result) /\ Len(t) = n /\ t[n] = c
      /\ \A i \in 1 .. Len(s) : t[i] = s[i]
  BY AppendProperties
<1>2. DOMAIN s = 1 .. Len(s) /\ Len(s) \in Nat
  OBVIOUS
<1>3. /\ DOMAIN t = DOMAIN s \cup {n} /\ n \notin DOMAIN s
      /\ \A i \in DOMAIN s : i \in Int /\ n \in Int /\ i < n
  BY <1>1, <1>2
<1>4. /\ \A i \in DOMAIN s : t[i] = s[i] /\ s[i].score \in Int
      /\ c.score \in Int /\ t[n] = c
  <2>1. \A x \in Result : x.score \in Int
    BY MatchAssumption DEF Result
  <2>2. QED
    BY <1>1, <1>2, <2>1
<1> HIDE DEF t, n
<1>5. \A i, j \in DOMAIN s : Top!Beats(t, i, j) <=> Top!Beats(s, i, j)
  BY <1>4 DEF Top!Beats
<1>6. \A i \in DOMAIN s : /\ Top!Beats(t, i, n) <=> s[i].score >= c.score
                          /\ Top!Beats(t, n, i) <=> c.score > s[i].score
  BY <1>3, <1>4 DEF Top!Beats
<1>7. \A i \in DOMAIN s :
        i \in Top!Leaders(t) <=>
          /\ i \in Top!Leaders(s)
          /\ s[i].name = c.name => s[i].score >= c.score
  <2> SUFFICES ASSUME NEW i \in DOMAIN s
               PROVE  i \in Top!Leaders(t) <=>
                        /\ i \in Top!Leaders(s)
                        /\ s[i].name = c.name => s[i].score >= c.score
    OBVIOUS
  <2>1. i \in Top!Leaders(t) <=>
          \A j \in DOMAIN s \cup {n} : t[j].name = t[i].name => j = i \/ Top!Beats(t, i, j)
    BY <1>3 DEF Top!Leaders
  <2>2. i \in Top!Leaders(s) <=>
          \A j \in DOMAIN s : s[j].name = s[i].name => j = i \/ Top!Beats(s, i, j)
    BY DEF Top!Leaders
  <2>3. (t[n].name = t[i].name => n = i \/ Top!Beats(t, i, n))
        <=> (s[i].name = c.name => s[i].score >= c.score)
    BY <1>3, <1>4, <1>6
  <2>4. \A j \in DOMAIN s :
          (t[j].name = t[i].name => j = i \/ Top!Beats(t, i, j))
        <=> (s[j].name = s[i].name => j = i \/ Top!Beats(s, i, j))
    BY <1>4, <1>5
  <2>5. QED
    BY <2>1, <2>2, <2>3, <2>4
<1>8. n \in Top!Leaders(t) <=>
        \A i \in DOMAIN s : s[i].name = c.name => s[i].score < c.score
  <2>1. n \in Top!Leaders(t) <=>
          \A j \in DOMAIN s : t[j].name = t[n].name => j = n \/ Top!Beats(t, n, j)
    BY <1>3 DEF Top!Leaders
  <2>2. \A j \in DOMAIN s : j # n /\ t[j] = s[j] /\ t[n] = c
          /\ (Top!Beats(t, n, j) <=> s[j].score < c.score)
    BY <1>3, <1>4, <1>6
  <2>3. QED
    BY <2>1, <2>2
<1>9. (\A i \in DOMAIN s : s[i].name = c.name => s[i].score < c.score) <=>
      \A i \in Top!Leaders(s) : s[i].name = c.name => s[i].score < c.score
  <2>1. Top!Leaders(s) \subseteq DOMAIN s
    BY DEF Top!Leaders
  <2>2. ASSUME \A i \in Top!Leaders(s) : s[i].name = c.name => s[i].score < c.score,
               NEW i \in DOMAIN s, s[i].name = c.name
        PROVE  s[i].score < c.score
    <3>1. PICK l \in Top!Leaders(s) : s[l].name = s[i].name
      BY DEF HasLeaders
    <3>2. l \in DOMAIN s /\ s[l].score < c.score
      BY <2>1, <2>2, <3>1
    <3>3. i = l \/ Top!Beats(s, l, i)
      BY <3>1 DEF Top!Leaders
    <3>4. s[l].score >= s[i].score
      BY <1>4, <3>2, <3>3 DEF Top!Beats
    <3>5. QED
      BY <1>4, <3>2, <3>4
  <2>3. QED
    BY <2>1, <2>2
<1>10. HasLeaders(t)
  <2>0. Top!Leaders(s) \subseteq DOMAIN s
    BY DEF Top!Leaders
  <2>1. \E l \in Top!Leaders(t) : t[l].name = c.name
    <3>1. CASE n \in Top!Leaders(t)
      BY <1>4, <3>1
    <3>2. CASE \E i \in Top!Leaders(s) : s[i].name = c.name /\ s[i].score >= c.score
      BY <1>4, <1>7, <2>0, <3>2
    <3>3. QED
      BY <1>4, <1>8, <1>9, <2>0, <3>1, <3>2
  <2>2. ASSUME NEW j \in DOMAIN s
        PROVE  \E l \in Top!Leaders(t) : t[l].name = t[j].name
    <3>1. CASE s[j].name = c.name
      BY <1>4, <2>1, <3>1
    <3>2. CASE s[j].name # c.name
      <4>1. PICK l \in Top!Leaders(s) : s[l].name = s[j].name
        BY DEF HasLeaders
      <4>2. QED
        BY <1>4, <1>7, <2>0, <3>2, <4>1
    <3>3. QED
      BY <3>1, <3>2
  <2>3. QED
    BY <1>3, <1>4, <2>1, <2>2 DEF HasLeaders
<1>11. /\ t \in Seq(Result) /\ DOMAIN t = DOMAIN s \cup {n}
       /\ n \notin DOMAIN s /\ t[n] = c
       /\ \A i \in DOMAIN s : t[i] = s[i]
  BY <1>1, <1>3, <1>4
<1>12. QED
  BY ONLY <1>5, <1>6, <1>7, <1>8, <1>9, <1>10, <1>11 DEF t, n

-----------------------------------------------------------------------------
(* The elements of r come from m, in the order they have there.            *)
InOrder(r, m) ==
  \A p, q \in DOMAIN r : p < q =>
    \E i, j \in DOMAIN m : i < j /\ r[p] = m[i] /\ r[q] = m[j]

LEMMA MakeRoomInOrder ==
  ASSUME NEW m, GoodArray(m), max_matches # 0, NEW name
  PROVE  InOrder(MakeRoom(m, name), m)
<1> DEFINE r == MakeRoom(m, name)
<1>1. /\ m \in Seq(Match) /\ DOMAIN m = 1 .. Len(m) /\ Len(m) \in Nat
      /\ max_matches \in Nat
  BY MatchAssumption DEF GoodArray
<1>2. CASE Leaving(m, name) = {}
  BY <1>2 DEF MakeRoom, InOrder
<1>3. CASE Leaving(m, name) # {}
  <2> DEFINE i == CHOOSE i \in Leaving(m, name) : TRUE
  <2>1. i \in Leaving(m, name) /\ r = RemoveAt(m, i)
    BY <1>3 DEF MakeRoom
  <2> HIDE DEF i, r
  <2>2. i \in 1 .. Len(m)
    <3>1. Existing(m, name) \subseteq 1 .. Len(m)
      BY <1>1 DEF Existing
    <3>2. Len(m) = max_matches => Len(m) \in 1 .. Len(m)
      BY <1>1
    <3>3. QED
      BY <2>1, <3>1, <3>2 DEF Leaving
  <2>3. /\ r \in Seq(Match) /\ Len(r) = Len(m) - 1
        /\ \A j \in 1 .. Len(m) - 1 : r[j] = IF j < i THEN m[j] ELSE m[j + 1]
    BY <1>1, <2>1, <2>2, RemoveAtFacts
  <2>4. DOMAIN r = 1 .. Len(m) - 1
    BY <2>3
  <2> DEFINE at(j) == IF j < i THEN j ELSE j + 1
  <2>5. \A j \in DOMAIN r : at(j) \in DOMAIN m /\ r[j] = m[at(j)]
    BY <1>1, <2>2, <2>3, <2>4
  <2>6. \A p, q \in DOMAIN r : p < q => at(p) < at(q)
    BY <1>1, <2>2, <2>4
  <2>7. QED
    BY <2>5, <2>6 DEF InOrder, r
<1>4. QED
  BY <1>2, <1>3

(* Where the new element goes, and what the others do.                     *)
LEMMA InsertInOrder ==
  ASSUME NEW m \in Seq(Match), Sorted(m), NEW e \in Match, NEW r \in Insert(m, e)
  PROVE  \E x \in DOMAIN r :
           /\ r[x] = e
           /\ \A p \in DOMAIN r : /\ p < x => r[p].score >= e.score
                                  /\ p > x => r[p].score < e.score
                                  /\ p # x => \E i \in DOMAIN m : r[p] = m[i]
           /\ \A p, q \in DOMAIN r : p # x /\ q # x /\ p < q =>
                \E i, j \in DOMAIN m : i < j /\ r[p] = m[i] /\ r[q] = m[j]
<1>1. PICK x \in Positions(m, e.score) : r = InsertAt(m, x, e)
  BY DEF Insert
<1>2. /\ x \in 1 .. Len(m) + 1
      /\ \A i \in 1 .. x - 1 : m[i].score >= e.score
      /\ x <= Len(m) => m[x].score < e.score
  BY DEF Positions
<1>3. /\ DOMAIN m = 1 .. Len(m) /\ Len(m) \in Nat
      /\ e.score \in Int /\ \A i \in DOMAIN m : m[i].score \in Int
  <2>1. \A y \in Match : y.score \in Int
    BY MatchAssumption DEF Match
  <2>2. QED
    BY <2>1
<1>4. /\ r \in Seq(Match) /\ Len(r) = Len(m) + 1
      /\ \A j \in 1 .. Len(m) + 1 : r[j] = IF j < x THEN m[j]
                                         ELSE IF j = x THEN e ELSE m[j - 1]
  <2>1. /\ InsertAt(m, x, e) \in Seq(Match)
        /\ Len(InsertAt(m, x, e)) = Len(m) + 1
        /\ \A j \in 1 .. Len(m) + 1 :
             InsertAt(m, x, e)[j] = IF j < x THEN m[j]
                                    ELSE IF j = x THEN e ELSE m[j - 1]
    <3>1. x \in 1 .. Len(m) + 1
      BY <1>2
    <3>2. QED
      BY ONLY <3>1, e \in Match, m \in Seq(Match), InsertAtFacts
  <2>2. QED
    BY ONLY <2>1, <1>1
<1>5. DOMAIN r = 1 .. Len(m) + 1
  BY <1>4
<1> DEFINE at(j) == IF j < x THEN j ELSE j - 1
<1>6. /\ r[x] = e /\ x \in DOMAIN r
      /\ \A j \in DOMAIN r : j # x => at(j) \in DOMAIN m /\ r[j] = m[at(j)]
  BY <1>2, <1>3, <1>4, <1>5
<1>7. \A p, q \in DOMAIN r : p # x /\ q # x /\ p < q => at(p) < at(q)
  BY <1>2, <1>3, <1>5
<1>8. ASSUME NEW p \in DOMAIN r, p < x PROVE r[p].score >= e.score
  <2>1. p \in 1 .. x - 1 /\ r[p] = m[p]
    BY <1>2, <1>3, <1>4, <1>5, <1>8
  <2>2. QED
    BY <1>2, <2>1
<1>9. ASSUME NEW p \in DOMAIN r, p > x PROVE r[p].score < e.score
  <2>1. /\ p - 1 \in DOMAIN m /\ x \in DOMAIN m /\ r[p] = m[p - 1]
        /\ x <= Len(m) /\ x <= p - 1
    BY <1>2, <1>3, <1>4, <1>5, <1>9
  <2>2. m[x].score >= m[p - 1].score
    <3>1. CASE x = p - 1
      BY ONLY <1>3, <2>1, <3>1
    <3>2. CASE x < p - 1
      BY <2>1, <3>2 DEF Sorted
    <3>3. QED
      BY <1>2, <1>5, <2>1, <3>1, <3>2
  <2>3. QED
    BY <1>2, <1>3, <2>1, <2>2
<1>10. QED
  BY <1>6, <1>7, <1>8, <1>9

-----------------------------------------------------------------------------
(* A candidate that retain_best_match ignores changes no leader that the   *)
(* array lists, and is itself beaten by the array.                         *)
LEMMA IgnoreMirrors ==
  ASSUME NEW m, GoodArray(m), max_matches # 0,
         NEW s \in Seq(Result), Mirrors(m, s),
         NEW c \in Result, Ignored(m, c.name, c.score)
  PROVE  Mirrors(m, Append(s, c))
<1> DEFINE t == Append(s, c)
           n == Len(s) + 1
<1>1. /\ t \in Seq(Result) /\ DOMAIN t = DOMAIN s \cup {n}
      /\ n \notin DOMAIN s /\ t[n] = c
      /\ \A i \in DOMAIN s : t[i] = s[i]
      /\ \A i, j \in DOMAIN s : Top!Beats(t, i, j) <=> Top!Beats(s, i, j)
      /\ \A i \in DOMAIN s : /\ Top!Beats(t, i, n) <=> s[i].score >= c.score
                             /\ Top!Beats(t, n, i) <=> c.score > s[i].score
      /\ \A i \in DOMAIN s :
           i \in Top!Leaders(t) <=>
             /\ i \in Top!Leaders(s)
             /\ s[i].name = c.name => s[i].score >= c.score
      /\ n \in Top!Leaders(t) <=>
           \A i \in Top!Leaders(s) : s[i].name = c.name => s[i].score < c.score
      /\ HasLeaders(t)
  BY LeadersAppend DEF Mirrors
<1>2. /\ Top!Leaders(s) \subseteq DOMAIN s
      /\ Top!Leaders(t) \subseteq DOMAIN t
  BY DEF Top!Leaders
<1>3. /\ m \in Seq(Match) /\ DOMAIN m = 1 .. Len(m) /\ Len(m) \in Nat
      /\ max_matches \in Nat
      /\ c.score \in Int /\ \A i \in DOMAIN m : m[i].score \in Int
      /\ \A i \in DOMAIN s : s[i].score \in Int
  <2>1. \A x \in Match : x.score \in Int
    BY MatchAssumption DEF Match
  <2>2. \A x \in Result : x.score \in Int
    BY MatchAssumption DEF Result
  <2>3. QED
    BY <2>1, <2>2, MatchAssumption DEF GoodArray
<1> HIDE DEF t, n
<1>4. CASE \E i \in Existing(m, c.name) : m[i].score >= c.score
  <2>1. PICK l \in Top!Leaders(s) : s[l].name = c.name /\ s[l].score >= c.score
    BY <1>4 DEF Mirrors, ElementsLead, Leads, Existing
  <2>2. Top!Leaders(t) = Top!Leaders(s)
    <3>1. n \notin Top!Leaders(t)
      BY <1>1, <1>2, <1>3, <2>1
    <3>2. \A i \in Top!Leaders(s) : s[i].name = c.name => i = l
      BY <2>1, OneLeaderPerName
    <3>3. QED
      BY <1>1, <1>2, <2>1, <3>1, <3>2
  <2>3. \A x, k : Leads(t, k, x) <=> Leads(s, k, x)
    BY <1>1, <1>2, <2>2 DEF Leads
  <2>4. ElementsLead(m, t)
    BY <1>1, <2>3 DEF Mirrors, ElementsLead
  <2>5. \A x, k : Leads(s, k, x) => k \in DOMAIN s
    BY <1>2 DEF Leads
  <2>6. LeadersInOrder(m, t)
    BY <1>1, <2>3, <2>5 DEF Mirrors, LeadersInOrder
  <2>7. LeadersListed(m, t)
    BY <1>1, <1>2, <2>2, <2>3, <2>5 DEF Mirrors, LeadersListed
  <2>8. QED
    BY <1>1, <2>4, <2>6, <2>7 DEF Mirrors, t
<1>5. CASE /\ Existing(m, c.name) = {} /\ Len(m) = max_matches
           /\ c.score <= m[Len(m)].score
  <2>1. \A p \in DOMAIN m : m[p].name # c.name
    BY <1>5 DEF Existing
  <2>2. \A p \in DOMAIN m : \A k : Leads(t, k, m[p]) <=> Leads(s, k, m[p])
    <3> SUFFICES ASSUME NEW p \in DOMAIN m, NEW k
                 PROVE  Leads(t, k, m[p]) <=> Leads(s, k, m[p])
      OBVIOUS
    <3>1. m[p].name # c.name
      BY <2>1
    <3>2. Leads(t, k, m[p]) => k \in DOMAIN s
      BY <1>1, <1>2, <3>1 DEF Leads
    <3>3. Leads(s, k, m[p]) => k \in DOMAIN s
      BY <1>2 DEF Leads
    <3>4. QED
      BY <1>1, <3>1, <3>2, <3>3 DEF Leads
  <2>3. \A x, k : Leads(s, k, x) => k \in DOMAIN s
    BY <1>2 DEF Leads
  <2>4. ElementsLead(m, t)
    BY <1>1, <2>2 DEF Mirrors, ElementsLead
  <2>5. LeadersInOrder(m, t)
    BY <1>1, <2>2, <2>3 DEF Mirrors, LeadersInOrder
  <2>6. \A p \in DOMAIN m : m[p].score >= c.score
    <3>1. Len(m) \in DOMAIN m
      BY <1>3, <1>5
    <3>2. \A p \in DOMAIN m : m[p].score >= m[Len(m)].score
      BY <1>3, <3>1 DEF GoodArray, Sorted
    <3>3. QED
      BY <1>3, <1>5, <3>1, <3>2
  <2>7. \A p \in DOMAIN m, k \in DOMAIN s : Leads(s, k, m[p]) => Top!Beats(t, k, n)
    BY <1>1, <2>6 DEF Leads
  <2>8. LeadersListed(m, t)
    <3> SUFFICES ASSUME NEW l \in Top!Leaders(t)
                 PROVE  \/ \E p \in DOMAIN m : m[p].name = t[l].name
                        \/ /\ Len(m) = max_matches
                           /\ \A p \in DOMAIN m, k \in DOMAIN t :
                                Leads(t, k, m[p]) => Top!Beats(t, k, l)
      BY DEF LeadersListed
    <3>1. CASE l = n
      BY <1>5, <2>2, <2>3, <2>7, <3>1
    <3>2. CASE l \in DOMAIN s
      <4>1. l \in Top!Leaders(s) /\ t[l] = s[l]
        BY <1>1, <3>2
      <4>2. \/ \E p \in DOMAIN m : m[p].name = s[l].name
            \/ \A p \in DOMAIN m, k \in DOMAIN s :
                 Leads(s, k, m[p]) => Top!Beats(s, k, l)
        BY <4>1 DEF Mirrors, LeadersListed
      <4>3. QED
        BY <1>1, <1>5, <2>2, <2>3, <3>2, <4>1, <4>2
    <3>3. QED
      BY <1>1, <1>2, <3>1, <3>2
  <2>9. QED
    BY <1>1, <2>4, <2>5, <2>8 DEF Mirrors, t
<1>6. QED
  BY <1>4, <1>5 DEF Ignored

(* A candidate that is retained leads its name, and takes its place.       *)
LEMMA RetainMirrors ==
  ASSUME NEW m, GoodArray(m), max_matches # 0,
         NEW s \in Seq(Result), Mirrors(m, s),
         NEW c \in Result, ~Ignored(m, c.name, c.score),
         NEW b \in NameBlock, b \notin Blocks(m),
         NEW r \in Insert(MakeRoom(m, c.name), Named(c, b))
  PROVE  Mirrors(r, Append(s, c))
<1> DEFINE t == Append(s, c)
           n == Len(s) + 1
           room == MakeRoom(m, c.name)
           e == Named(c, b)
           L == Leaving(m, c.name)
<1>1. /\ t \in Seq(Result) /\ DOMAIN t = DOMAIN s \cup {n}
      /\ n \notin DOMAIN s /\ t[n] = c
      /\ \A i \in DOMAIN s : t[i] = s[i]
      /\ \A i, j \in DOMAIN s : Top!Beats(t, i, j) <=> Top!Beats(s, i, j)
      /\ \A i \in DOMAIN s : /\ Top!Beats(t, i, n) <=> s[i].score >= c.score
                             /\ Top!Beats(t, n, i) <=> c.score > s[i].score
      /\ \A i \in DOMAIN s :
           i \in Top!Leaders(t) <=>
             /\ i \in Top!Leaders(s)
             /\ s[i].name = c.name => s[i].score >= c.score
      /\ n \in Top!Leaders(t) <=>
           \A i \in Top!Leaders(s) : s[i].name = c.name => s[i].score < c.score
      /\ HasLeaders(t)
  BY LeadersAppend DEF Mirrors
<1>2. /\ Top!Leaders(s) \subseteq DOMAIN s
      /\ Top!Leaders(t) \subseteq DOMAIN t
  BY DEF Top!Leaders
<1>3. /\ m \in Seq(Match) /\ DOMAIN m = 1 .. Len(m) /\ Len(m) \in Nat
      /\ max_matches \in Nat
      /\ c.score \in Int /\ \A i \in DOMAIN m : m[i].score \in Int
      /\ \A i \in DOMAIN s : s[i].score \in Int
  <2>1. \A x \in Match : x.score \in Int
    BY MatchAssumption DEF Match
  <2>2. \A x \in Result : x.score \in Int
    BY MatchAssumption DEF Result
  <2>3. QED
    BY <2>1, <2>2, MatchAssumption DEF GoodArray
<1>4. /\ GoodArray(room) /\ Len(room) < max_matches
      /\ \A j \in DOMAIN room : room[j].name # c.name
      /\ \A j \in DOMAIN room : \E k \in DOMAIN m : k \notin L /\ room[j] = m[k]
      /\ \A k \in DOMAIN m \ L : \E j \in DOMAIN room : room[j] = m[k]
      /\ Len(m) = max_matches => Len(room) = max_matches - 1
      /\ InOrder(room, m)
  BY RoomIsMade, MakeRoomInOrder
<1>5. e \in Match /\ e.name = c.name /\ e.score = c.score /\ e.block = b
  BY DEF Named, Match, Result
<1>6. r \in Insert(room, e) /\ room \in Seq(Match) /\ Sorted(room)
  BY <1>4 DEF GoodArray
<1>7. \A k \in DOMAIN m : m[k].block # b
  BY DEF Blocks
<1> HIDE DEF t, n, room, e, L
<1>8. /\ Len(r) = Len(room) + 1 /\ DOMAIN r = 1 .. Len(r) /\ Len(r) \in Nat
      /\ \A j \in DOMAIN r : r[j] = e \/ \E k \in DOMAIN room : r[j] = room[k]
      /\ \A k \in DOMAIN room : \E j \in DOMAIN r : r[j] = room[k]
  <2>1. \A j \in DOMAIN room : room[j].name # e.name /\ room[j].block # e.block
    BY <1>4, <1>5, <1>7
  <2>2. /\ GoodArray(r) /\ Len(r) = Len(room) + 1
        /\ \A j \in DOMAIN r : r[j] = e \/ \E k \in DOMAIN room : r[j] = room[k]
        /\ \A k \in DOMAIN room : \E j \in DOMAIN r : r[j] = room[k]
    BY <1>4, <1>5, <1>6, <2>1, InsertKeepsGood
  <2>3. QED
    BY <2>2 DEF GoodArray
<1>9. PICK x \in DOMAIN r :
        /\ r[x] = e
        /\ \A p \in DOMAIN r : /\ p < x => r[p].score >= e.score
                               /\ p > x => r[p].score < e.score
                               /\ p # x => \E i \in DOMAIN room : r[p] = room[i]
        /\ \A p, q \in DOMAIN r : p # x /\ q # x /\ p < q =>
             \E i, j \in DOMAIN room : i < j /\ r[p] = room[i] /\ r[q] = room[j]
  BY <1>5, <1>6, InsertInOrder
<1>10. \A k \in DOMAIN m \ L : \E j \in DOMAIN r : r[j] = m[k]
  BY <1>4, <1>8
<1>11. \A p, q \in DOMAIN r : p # x /\ q # x /\ p < q =>
         \E i, j \in DOMAIN m : i < j /\ r[p] = m[i] /\ r[q] = m[j]
  BY <1>4, <1>9 DEF InOrder
<1>12. \A j \in DOMAIN r :
         r[j] = e \/ \E k \in DOMAIN m : k \notin L /\ r[j] = m[k] /\ m[k].name # c.name
  <2> SUFFICES ASSUME NEW j \in DOMAIN r, NEW i \in DOMAIN room, r[j] = room[i]
               PROVE  \E k \in DOMAIN m : k \notin L /\ r[j] = m[k] /\ m[k].name # c.name
    BY <1>8
  <2>1. room[i].name # c.name
    BY <1>4
  <2>2. PICK k \in DOMAIN m : k \notin L /\ room[i] = m[k]
    BY <1>4
  <2>3. QED
    BY <2>1, <2>2
<1>a. \A i \in DOMAIN m : m[i].name = c.name => m[i].score < c.score
  <2>1. \A i \in DOMAIN m : m[i].name = c.name => ~(m[i].score >= c.score)
    BY DEF Ignored, Existing
  <2>2. QED
    BY <1>3, <2>1
<1>13. /\ L \subseteq DOMAIN m /\ \A i \in L : m[i].score < c.score
       /\ Len(m) = max_matches => L # {}
       /\ \A i \in L : m[i].name = c.name \/ (i = Len(m) /\ Len(m) = max_matches)
  <2>1. CASE Existing(m, c.name) # {}
    <3>1. L = Existing(m, c.name)
      BY <2>1 DEF L, Leaving
    <3>2. \A i \in DOMAIN m : m[i].name = c.name => m[i].score < c.score
      BY <1>a
    <3>3. QED
      BY <2>1, <3>1, <3>2 DEF Existing
  <2>2. CASE Existing(m, c.name) = {}
    <3>1. L = IF Len(m) = max_matches THEN {Len(m)} ELSE {}
      BY <2>2 DEF L, Leaving
    <3>2. Len(m) = max_matches => Len(m) \in DOMAIN m /\ m[Len(m)].score < c.score
      BY <1>3, <2>2 DEF Ignored
    <3>3. QED
      BY <3>1, <3>2
  <2>3. QED
    BY <2>1, <2>2
<1>14. n \in Top!Leaders(t)
  <2> SUFFICES ASSUME NEW l \in Top!Leaders(s), s[l].name = c.name
               PROVE  s[l].score < c.score
    BY <1>1
  <2>1. CASE \E p \in DOMAIN m : m[p].name = c.name
    <3>1. PICK p \in DOMAIN m : m[p].name = c.name
      BY <2>1
    <3>2. PICK k \in DOMAIN s : Leads(s, k, m[p])
      BY DEF Mirrors, ElementsLead
    <3>3. k = l
      BY <3>1, <3>2, OneLeaderPerName DEF Leads
    <3>4. m[p].score < c.score
      BY <1>a, <3>1
    <3>5. QED
      BY <3>2, <3>3, <3>4 DEF Leads
  <2>2. CASE ~ \E p \in DOMAIN m : m[p].name = c.name
    <3>1. /\ Len(m) = max_matches
          /\ \A p \in DOMAIN m, k \in DOMAIN s :
               Leads(s, k, m[p]) => Top!Beats(s, k, l)
      BY <2>2 DEF Mirrors, LeadersListed
    <3>2. PICK p \in L : p \in DOMAIN m /\ m[p].score < c.score
      BY <1>13, <3>1
    <3>3. PICK k \in DOMAIN s : Leads(s, k, m[p])
      BY <3>2 DEF Mirrors, ElementsLead
    <3>4. Top!Beats(s, k, l) /\ s[k].score = m[p].score
      BY <3>1, <3>2, <3>3 DEF Leads
    <3>5. s[k].score >= s[l].score
      BY <1>2, <1>3, <3>4 DEF Top!Beats
    <3>6. QED
      BY <1>2, <1>3, <3>2, <3>4, <3>5
  <2>3. QED
    BY <2>1, <2>2
<1>15. \A i \in DOMAIN m : m[i].name # c.name =>
         \A k : Leads(t, k, m[i]) <=> Leads(s, k, m[i])
  <2> SUFFICES ASSUME NEW i \in DOMAIN m, m[i].name # c.name, NEW k
               PROVE  Leads(t, k, m[i]) <=> Leads(s, k, m[i])
    OBVIOUS
  <2>1. Leads(t, k, m[i]) => k \in DOMAIN s
    BY <1>1, <1>2 DEF Leads
  <2>2. Leads(s, k, m[i]) => k \in DOMAIN s
    BY <1>2 DEF Leads
  <2>3. QED
    BY <1>1, <2>1, <2>2 DEF Leads
<1>16. \A k : Leads(t, k, e) <=> k = n
  BY <1>1, <1>5, <1>14, OneLeaderPerName DEF Leads
<1>17. ElementsLead(r, t)
  <2> SUFFICES ASSUME NEW j \in DOMAIN r PROVE \E l \in DOMAIN t : Leads(t, l, r[j])
    BY DEF ElementsLead
  <2>1. CASE r[j] = e
    BY <1>1, <1>16, <2>1
  <2>2. CASE \E k \in DOMAIN m : r[j] = m[k] /\ m[k].name # c.name
    BY <1>1, <1>15, <2>2 DEF Mirrors, ElementsLead
  <2>3. QED
    BY <1>12, <2>1, <2>2
<1>18. LeadersInOrder(r, t)
  <2> SUFFICES ASSUME NEW p \in DOMAIN r, NEW q \in DOMAIN r, p < q,
                      NEW l, NEW k, Leads(t, l, r[p]), Leads(t, k, r[q])
               PROVE  Top!Beats(t, l, k)
    BY DEF LeadersInOrder
  <2>0. /\ \A j \in DOMAIN room : room[j].name # c.name
        /\ \A y \in DOMAIN r : y # x => \E j \in DOMAIN m : r[y] = m[j] /\ m[j].name # c.name
        /\ \A y, z : Leads(s, y, z) => y \in DOMAIN s
    BY <1>2, <1>4, <1>9 DEF Leads
  <2>1. CASE p # x /\ q # x
    <3>1. PICK i, j \in DOMAIN m : i < j /\ r[p] = m[i] /\ r[q] = m[j]
      BY <1>11, <2>1
    <3>2. m[i].name # c.name /\ m[j].name # c.name
      BY <2>0, <2>1, <3>1
    <3>3. Leads(s, l, m[i]) /\ Leads(s, k, m[j])
      BY <1>15, <3>1, <3>2
    <3>4. l \in DOMAIN s /\ k \in DOMAIN s
      BY <2>0, <3>3
    <3>5. Top!Beats(s, l, k)
      BY <3>1, <3>3, <3>4 DEF Mirrors, LeadersInOrder
    <3>6. QED
      BY <1>1, <3>4, <3>5
  <2>2. CASE p = x /\ q # x
    <3>1. l = n
      BY <1>9, <1>16, <2>2
    <3>2. PICK j \in DOMAIN m : r[q] = m[j] /\ m[j].name # c.name
      BY <2>0, <2>2
    <3>3. Leads(s, k, m[j]) /\ k \in DOMAIN s
      BY <1>15, <2>0, <3>2
    <3>4. r[q].score < e.score
      <4>1. q > x
        BY <1>8, <1>9, <2>2
      <4>2. QED
        BY <1>9, <4>1
    <3>5. s[k].score < c.score
      BY <1>5, <3>2, <3>3, <3>4 DEF Leads
    <3>6. QED
      BY <1>1, <1>3, <3>1, <3>3, <3>5
  <2>3. CASE q = x
    <3>1. k = n /\ p # x
      <4>1. p # q
        BY <1>8
      <4>2. QED
        BY <1>9, <1>16, <2>3, <4>1
    <3>2. PICK j \in DOMAIN m : r[p] = m[j] /\ m[j].name # c.name
      BY <2>0, <3>1
    <3>3. Leads(s, l, m[j]) /\ l \in DOMAIN s
      BY <1>15, <2>0, <3>2
    <3>4. r[p].score >= e.score
      BY <1>9, <2>3
    <3>5. s[l].score >= c.score
      BY <1>5, <3>2, <3>3, <3>4 DEF Leads
    <3>6. QED
      BY <1>1, <3>1, <3>3, <3>5
  <2>4. QED
    BY <2>1, <2>2, <2>3
<1>19. LeadersListed(r, t)
  <2> SUFFICES ASSUME NEW l \in Top!Leaders(t),
                      ~ \E p \in DOMAIN r : r[p].name = t[l].name
               PROVE  /\ Len(r) = max_matches
                      /\ \A p \in DOMAIN r, k \in DOMAIN t :
                           Leads(t, k, r[p]) => Top!Beats(t, k, l)
    BY DEF LeadersListed
  <2>1. l \in DOMAIN s /\ l \in Top!Leaders(s) /\ t[l] = s[l]
    <3>1. l # n
      BY <1>1, <1>5, <1>9
    <3>2. QED
      BY <1>1, <1>2, <3>1
  <2>2. s[l].name # c.name
    BY <1>5, <1>9, <2>1
  <2>3. \A k \in DOMAIN m \ L : m[k].name # s[l].name
    BY <1>10, <2>1
  <2>4. /\ Len(m) = max_matches
        /\ \A k \in DOMAIN m \ L : \A y : Leads(s, y, m[k]) => Top!Beats(s, y, l)
        /\ s[l].score < c.score
    <3>0. \A y, z : Leads(s, y, z) => y \in DOMAIN s
      BY <1>2 DEF Leads
    <3>1. CASE \E i \in L : m[i].name = s[l].name
      <4>1. PICK i \in L : m[i].name = s[l].name
        BY <3>1
      <4>2. i = Len(m) /\ Len(m) = max_matches /\ i \in DOMAIN m /\ L = {i}
        BY <1>13, <2>2, <4>1 DEF L, Leaving, Existing
      <4>3. Leads(s, l, m[i])
        BY <2>1, <4>1, <4>2, OneLeaderPerName DEF Mirrors, ElementsLead, Leads
      <4>4. \A k \in DOMAIN m \ L : k < i
        BY <1>3, <4>2
      <4>5. \A k \in DOMAIN m \ L : \A y : Leads(s, y, m[k]) => Top!Beats(s, y, l)
        BY <2>1, <3>0, <4>2, <4>3, <4>4 DEF Mirrors, LeadersInOrder
      <4>6. s[l].score < c.score
        BY <1>13, <4>3 DEF Leads
      <4>7. QED
        BY <4>2, <4>5, <4>6
    <3>2. CASE ~ \E i \in L : m[i].name = s[l].name
      <4>1. /\ Len(m) = max_matches
            /\ \A p \in DOMAIN m, k \in DOMAIN s :
                 Leads(s, k, m[p]) => Top!Beats(s, k, l)
        BY <2>1, <2>3, <3>2 DEF Mirrors, LeadersListed
      <4>2. PICK p \in L : p \in DOMAIN m /\ m[p].score < c.score
        BY <1>13, <4>1
      <4>3. PICK k \in DOMAIN s : Leads(s, k, m[p])
        BY <4>2 DEF Mirrors, ElementsLead
      <4>4. Top!Beats(s, k, l) /\ s[k].score = m[p].score
        BY <4>1, <4>2, <4>3 DEF Leads
      <4>5. s[k].score >= s[l].score
        BY <1>3, <2>1, <4>4 DEF Top!Beats
      <4>6. s[l].score < c.score
        BY <1>3, <2>1, <4>2, <4>4, <4>5
      <4>7. QED
        BY <3>0, <4>1, <4>6
    <3>3. QED
      BY <3>1, <3>2
  <2>5. Len(r) = max_matches
    BY <1>3, <1>4, <1>8, <2>4
  <2>6. ASSUME NEW p \in DOMAIN r, NEW k \in DOMAIN t, Leads(t, k, r[p])
        PROVE  Top!Beats(t, k, l)
    <3>1. CASE r[p] = e
      <4>1. k = n
        BY <1>16, <2>6, <3>1
      <4>2. QED
        BY <1>1, <1>3, <2>1, <2>4, <4>1
    <3>2. CASE r[p] # e
      <4>1. PICK j \in DOMAIN m : j \notin L /\ r[p] = m[j] /\ m[j].name # c.name
        BY <1>12, <3>2
      <4>2. Leads(s, k, m[j]) /\ k \in DOMAIN s
        BY <1>2, <1>15, <2>6, <4>1 DEF Leads
      <4>3. QED
        BY <1>1, <2>1, <2>4, <4>1, <4>2
    <3>3. QED
      BY <3>1, <3>2
  <2>7. QED
    BY <2>5, <2>6
<1>20. QED
  BY <1>1, <1>17, <1>18, <1>19 DEF Mirrors, t

-----------------------------------------------------------------------------
(* A set numbered from 1 to n has n elements, and a numbering that misses  *)
(* some counts no more than there are.                                     *)
LEMMA Numbered ==
  ASSUME NEW S, NEW n \in Nat, NEW f \in [1 .. n -> S],
         \A p, q \in 1 .. n : f[p] = f[q] => p = q,
         \A x \in S : \E p \in 1 .. n : f[p] = x
  PROVE  Cardinality(S) = n
<1>1. f \in Bijection(1 .. n, S)
  BY Fun_IsBij
<1>2. QED
  BY <1>1, FS_CountingElements DEF ExistsBijection

LEMMA NumberedPart ==
  ASSUME NEW S, IsFiniteSet(S), NEW n \in Nat, NEW f \in [1 .. n -> S],
         \A p, q \in 1 .. n : f[p] = f[q] => p = q
  PROVE  Cardinality(S) \in Nat /\ Cardinality(S) >= n
<1>1. f \in Injection(1 .. n, S)
  BY DEF Injection, IsInjective
<1>2. Cardinality(1 .. n) = n
  BY FS_Interval
<1>3. Cardinality(1 .. n) <= Cardinality(S) /\ Cardinality(S) \in Nat
  BY <1>1, FS_Injection, FS_CardinalityType
<1>4. QED
  BY <1>2, <1>3

LEMMA SameCardinality == \A S : Top!Cardinality(S) = Cardinality(S)
BY DEF Top!Cardinality, Cardinality

(* What the array reports.                                                 *)
Reported(m) == [i \in DOMAIN m |-> [name |-> m[i].name, score |-> m[i].score]]

(* An array that mirrors the leaders is the report the search promises.    *)
LEMMA MirrorsReport ==
  ASSUME NEW m, GoodArray(m), NEW s \in Seq(Result), Mirrors(m, s)
  PROVE  Top!IsReport(Reported(m), s)
<1> DEFINE r == Reported(m)
           Ls == Top!Leaders(s)
           f == [p \in 1 .. Len(m) |-> CHOOSE l \in DOMAIN s : Leads(s, l, m[p])]
<1>1. /\ m \in Seq(Match) /\ DOMAIN m = 1 .. Len(m) /\ Len(m) \in Nat
      /\ max_matches \in Nat /\ Len(m) <= max_matches
      /\ DOMAIN s = 1 .. Len(s) /\ Len(s) \in Nat /\ Ls \subseteq DOMAIN s
  BY MatchAssumption DEF GoodArray, Top!Leaders
<1>2. /\ r \in Seq(Top!Candidate) /\ Len(r) = Len(m) /\ DOMAIN r = 1 .. Len(m)
      /\ \A p \in 1 .. Len(m) : r[p] = [name |-> m[p].name, score |-> m[p].score]
  <2>1. \A p \in 1 .. Len(m) :
          [name |-> m[p].name, score |-> m[p].score] \in Top!Candidate
    <3>1. \A p \in 1 .. Len(m) : m[p] \in Match
      BY <1>1
    <3>2. QED
      BY ONLY <3>1 DEF Match, Top!Candidate
  <2>2. r \in [1 .. Len(m) -> Top!Candidate]
    BY <1>1, <2>1 DEF Reported
  <2>3. \A p \in 1 .. Len(m) : r[p] = [name |-> m[p].name, score |-> m[p].score]
    BY <1>1 DEF Reported
  <2> HIDE DEF r
  <2>4. QED
    BY <1>1, <2>2, <2>3
<1>3. IsFiniteSet(Ls)
  <2>1. IsFiniteSet(1 .. Len(s)) /\ Ls \in SUBSET (1 .. Len(s))
    BY <1>1, FS_Interval
  <2>2. QED
    BY ONLY <2>1, FS_Subset
<1>4. \A p \in 1 .. Len(m) : Leads(s, f[p], m[p])
  BY <1>1 DEF Mirrors, ElementsLead
<1>5. f \in [1 .. Len(m) -> Ls]
  BY <1>1, <1>4 DEF Leads
<1>6. \A l \in Ls, p \in 1 .. Len(m) : m[p].name = s[l].name => l = f[p]
  BY <1>4, OneLeaderPerName DEF Leads
<1> HIDE DEF r, Ls, f
<1>7. \A p, q \in 1 .. Len(m) : p < q => Top!Beats(s, f[p], f[q])
  BY <1>1, <1>4, <1>5 DEF Mirrors, LeadersInOrder
<1>8. \A l, k \in Ls : ~(Top!Beats(s, l, k) /\ Top!Beats(s, k, l))
  BY <1>1, BeatsOrders
<1>9. \A p, q \in 1 .. Len(m) : f[p] = f[q] => p = q
  <2>1. \A p, q \in 1 .. Len(m) : p < q => f[p] # f[q]
    BY <1>5, <1>7, <1>8
  <2>2. QED
    BY <1>1, <2>1
<1>10. ASSUME NEW l \in Ls, \A p \in 1 .. Len(m) : f[p] # l
       PROVE  /\ Len(m) = max_matches
              /\ \A p \in 1 .. Len(m) : Top!Beats(s, f[p], l)
  <2>1. ~ \E p \in DOMAIN m : m[p].name = s[l].name
    BY <1>1, <1>6, <1>10
  <2>2. /\ Len(m) = max_matches
        /\ \A p \in DOMAIN m, k \in DOMAIN s : Leads(s, k, m[p]) => Top!Beats(s, k, l)
    BY <2>1 DEF Mirrors, LeadersListed, Ls
  <2>3. QED
    BY <1>1, <1>4, <1>5, <2>2
<1>11. \/ Len(r) = max_matches /\ Cardinality(Ls) >= max_matches
       \/ Len(r) < max_matches /\ Cardinality(Ls) = Len(r)
  <2>1. CASE Len(m) = max_matches
    BY <1>1, <1>2, <1>3, <1>5, <1>9, <2>1, NumberedPart
  <2>2. CASE Len(m) # max_matches
    <3>1. \A l \in Ls : \E p \in 1 .. Len(m) : f[p] = l
      BY <1>10, <2>2
    <3>2. Cardinality(Ls) = Len(m)
      <4>1. Len(m) \in Nat
        BY <1>1
      <4>2. QED
        BY ONLY <1>5, <1>9, <3>1, <4>1, Numbered
    <3>3. QED
      BY <1>1, <1>2, <2>2, <3>2
  <2>3. QED
    BY <2>1, <2>2
<1>12. ASSUME NEW l \in Ls, Top!Rank(s, l) \in DOMAIN r
       PROVE  r[Top!Rank(s, l)] = s[l]
  <2> DEFINE B == {j \in Ls : Top!Beats(s, j, l)}
  <2>1. Top!Rank(s, l) = 1 + Cardinality(B)
    BY SameCardinality DEF Top!Rank, Ls
  <2>2. CASE \E p \in 1 .. Len(m) : f[p] = l
    <3>1. PICK p \in 1 .. Len(m) : f[p] = l
      BY <2>2
    <3> DEFINE g == [q \in 1 .. (p - 1) |-> f[q]]
    <3>2. p - 1 \in Nat /\ 1 .. (p - 1) \subseteq 1 .. Len(m)
      BY <1>1
    <3>3. g \in [1 .. (p - 1) -> B]
      BY <1>1, <1>5, <1>7, <3>1, <3>2
    <3>4. \A q, h \in 1 .. (p - 1) : g[q] = g[h] => q = h
      BY <1>9, <3>2
    <3>5. ASSUME NEW j \in B PROVE \E q \in 1 .. (p - 1) : g[q] = j
      <4>1. PICK q \in 1 .. Len(m) : f[q] = j
        <5>1. CASE \A q \in 1 .. Len(m) : f[q] # j
          BY <1>8, <1>10, <3>1, <5>1
        <5>2. QED
          BY <5>1
      <4>2. ~(p < q) /\ p # q
        BY <1>7, <1>8, <3>1, <4>1
      <4>3. q \in 1 .. (p - 1)
        BY <1>1, <4>2
      <4>4. QED
        BY <4>1, <4>3
    <3> HIDE DEF g, B
    <3>6. Cardinality(B) = p - 1
      BY <3>2, <3>3, <3>4, <3>5, Numbered
    <3>7. Top!Rank(s, l) = p
      BY <1>1, <2>1, <3>6
    <3>8. Leads(s, l, m[p]) /\ s[l] \in Result
      BY <1>1, <1>4, <3>1
    <3>9. QED
      BY <1>2, <3>7, <3>8 DEF Leads, Result
  <2>3. CASE ~ \E p \in 1 .. Len(m) : f[p] = l
    <3>1. f \in [1 .. Len(m) -> B]
      BY <1>5, <1>10, <2>3
    <3>2. IsFiniteSet(B)
      BY <1>3, FS_Subset
    <3> HIDE DEF B
    <3>3. Cardinality(B) \in Nat /\ Cardinality(B) >= Len(m)
      BY <1>1, <1>9, <3>1, <3>2, NumberedPart
    <3>4. QED
      BY <1>1, <1>2, <1>12, <2>1, <3>3
  <2>4. QED
    BY <2>2, <2>3
<1>13. \A l \in Ls : Top!Rank(s, l) \in DOMAIN r => r[Top!Rank(s, l)] = s[l]
  BY <1>12
<1>14. Top!Cardinality(Ls) = Cardinality(Ls)
  BY SameCardinality
<1>15. QED
  BY ONLY <1>2, <1>11, <1>13, <1>14 DEF Top!IsReport, Ls, r

-----------------------------------------------------------------------------
(* Until the search returns the array mirrors the history.                 *)
MirrorInv == pc \in Starting \cup Searching => Mirrors(best_matches, seen)

LEMMA EmptyMirrors == Mirrors(<<>>, <<>>)
<1>1. DOMAIN <<>> = {} /\ Top!Leaders(<<>>) = {}
  BY EmptyArray DEF Top!Leaders
<1>2. QED
  BY <1>1 DEF Mirrors, HasLeaders, ElementsLead, LeadersInOrder, LeadersListed

(* Ignoring or retaining a candidate considers it.                         *)
LEMMA CandidateMirrors ==
  ASSUME FindInv, MirrorInv, IgnoreEntry \/ RetainEntry
  PROVE  /\ MirrorInv'
         /\ \E c \in Top!Candidate : seen' = Append(seen, c)
         /\ Top!IsReport(Reported(best_matches'), seen')
<1> DEFINE c == Head(entry)
           m == best_matches
<1>1. /\ c \in Result /\ pc = "compare" /\ max_matches # 0
      /\ seen \in Seq(Result) /\ GoodArray(m) /\ names = Blocks(m)
      /\ Mirrors(m, seen) /\ seen' = Append(seen, c) /\ pc' = "read"
  BY EntryFacts DEF IgnoreEntry, RetainEntry, FindInv, TypeOK, Searching, MirrorInv
<1>2. Mirrors(m', seen')
  <2>1. CASE IgnoreEntry
    <3>1. m' = m /\ Ignored(m, c.name, c.score)
      BY <2>1 DEF IgnoreEntry
    <3> HIDE DEF c, m
    <3>2. Mirrors(m, Append(seen, c))
      BY ONLY <1>1, <3>1, IgnoreMirrors
    <3>3. QED
      BY ONLY <1>1, <3>1, <3>2
  <2>2. CASE RetainEntry
    <3>1. PICK b \in NameBlock \ names :
            m' \in Insert(MakeRoom(m, c.name), Named(c, b))
      BY <2>2 DEF RetainEntry
    <3>2. ~Ignored(m, c.name, c.score)
      BY <2>2 DEF RetainEntry
    <3>3. Mirrors(m', Append(seen, c))
      BY ONLY <1>1, <3>1, <3>2, RetainMirrors
    <3>4. QED
      BY <1>1, <3>3
  <2>3. QED
    BY <2>1, <2>2
<1>3. GoodArray(m') /\ seen' \in Seq(Result)
  BY IgnoreKept, RetainKept DEF FindInv, TypeOK
<1>4. Top!IsReport(Reported(m'), seen')
  BY ONLY <1>2, <1>3, MirrorsReport
<1>5. c \in Top!Candidate
  BY <1>1 DEF Result, Top!Candidate
<1>6. QED
  BY <1>1, <1>2, <1>4, <1>5 DEF MirrorInv

(* Every other step of the search keeps the mirror, or ends the search.    *)
LEMMA OthersMirror ==
  ASSUME FindInv, MirrorInv, [Next]_vars, ~(IgnoreEntry \/ RetainEntry)
  PROVE  /\ MirrorInv'
         /\ seen' = seen
         /\ best_matches' = best_matches \/ best_matches' = <<>>
<1>1. CASE \/ OpenDatabase \/ ParseObserved \/ ReadWeights \/ Refuse \/ Rewind
           \/ ReadEntry \/ ReadEnd \/ SkipEntry \/ Terminated \/ UNCHANGED vars
  <2>1. UNCHANGED <<best_matches, seen>>
    BY <1>1 DEF OpenDatabase, ParseObserved, ReadWeights, Refuse, Rewind, ReadEntry,
       ReadEnd, SkipEntry, Terminated, ArrayUnchanged, vars
  <2>2. pc' \in Starting \cup Searching => pc \in Starting \cup Searching
    BY <1>1 DEF OpenDatabase, ParseObserved, ReadWeights, Refuse, Rewind, ReadEntry,
       ReadEnd, SkipEntry, Terminated, Return, vars, Starting, Searching
  <2>3. QED
    BY <2>1, <2>2 DEF MirrorInv
<1>2. CASE ReadFails \/ RetainFails \/ FreeMatches
  <2>1. /\ best_matches' = <<>> /\ seen' = seen /\ pc' \in {"returned", "done"}
    BY <1>2 DEF ReadFails, RetainFails, FreeMatches, GiveUp, Return
  <2>2. QED
    BY <2>1 DEF MirrorInv, Starting, Searching
<1>3. QED
  BY <1>1, <1>2 DEF Next

LEMMA MirrorInvariant == Spec => []MirrorInv
<1>1. Init => MirrorInv
  BY EmptyMirrors DEF Init, MirrorInv
<1>2. FindInv /\ MirrorInv /\ [Next]_vars => MirrorInv'
  BY CandidateMirrors, OthersMirror
<1>3. QED
  BY <1>1, <1>2, FindInvariant, PTL DEF Spec

(* The bounded array implements the report over the whole history, ties,   *)
(* repeated names and evicted names included: every step of the search     *)
(* considers a candidate, discards the report or changes neither           *)
(* (src/src/matcher.c:371-551).                                            *)
THEOREM ArrayReportsTheTop == Spec => ReportsTheTop
<1>1. Init => Top!Init
  <2>1. DOMAIN <<>> = {}
    BY EmptyArray
  <2>2. Reported(<<>>) = <<>>
    BY <2>1 DEF Reported
  <2>3. QED
    BY <2>2 DEF Init, Top!Init, Reported
<1>2. FindInv /\ MirrorInv /\ [Next]_vars => [Top!Next]_(Top!vars)
  <2> SUFFICES ASSUME FindInv, MirrorInv, [Next]_vars
               PROVE  [Top!Next]_(Top!vars)
    OBVIOUS
  <2>1. CASE IgnoreEntry \/ RetainEntry
    <3>1. Top!Consider
      BY <2>1, CandidateMirrors DEF Top!Consider, Reported
    <3>2. QED
      BY <3>1 DEF Top!Next
  <2>2. CASE ~(IgnoreEntry \/ RetainEntry)
    <3>1. seen' = seen
      BY <2>2, OthersMirror
    <3>2. CASE best_matches' = best_matches
      BY <3>1, <3>2 DEF Top!vars
    <3>3. CASE best_matches' = <<>>
      <4>1. Top!Discard
        BY <3>1, <3>3, EmptyArray DEF Top!Discard
      <4>2. QED
        BY <4>1 DEF Top!Next
    <3>4. QED
      BY <2>2, <3>2, <3>3, OthersMirror
  <2>3. QED
    BY <2>1, <2>2
<1>3. QED
  BY <1>1, <1>2, FindInvariant, MirrorInvariant, PTL DEF Spec, ReportsTheTop, Top!Spec
=============================================================================
