------------------------------ MODULE TextProofs ------------------------------
(***************************************************************************)
(* The parser of one line and the reader of an observed fingerprint        *)
(* account for every block they allocate, for every text they are given    *)
(* and wherever an allocation is refused, and accept exactly what is a     *)
(* group or made of groups; the reader of the database hands out the       *)
(* references of the file in their order.                                  *)
(***************************************************************************)
EXTENDS MCText, NaturalRecursion, SequenceTheorems, TLAPS

-----------------------------------------------------------------------------
(* Sequences whose elements need no type of their own.                     *)

IsSeq(s) == \E S : s \in Seq(S)

LEMMA EmptyIsSeq == IsSeq(<<>>)
<1>1. <<>> \in Seq({})
  OBVIOUS
<1>2. QED
  BY <1>1 DEF IsSeq

LEMMA LengthOfSeq ==
  ASSUME NEW s, IsSeq(s)
  PROVE  Len(s) \in Nat /\ DOMAIN s = 1 .. Len(s) /\ (s = <<>> <=> Len(s) = 0)
<1>1. PICK S : s \in Seq(S)
  BY DEF IsSeq
<1>2. QED
  BY <1>1, EmptySeq, LenProperties

LEMMA AppendToSeq ==
  ASSUME NEW s, IsSeq(s), NEW e
  PROVE  IsSeq(Append(s, e)) /\ Len(Append(s, e)) = Len(s) + 1
<1>1. PICK S : s \in Seq(S)
  BY DEF IsSeq
<1>2. s \in Seq(S \cup {e})
  BY <1>1
<1>3. Append(s, e) \in Seq(S \cup {e}) /\ Len(Append(s, e)) = Len(s) + 1
  BY <1>2
<1>4. QED
  BY <1>3 DEF IsSeq

-----------------------------------------------------------------------------
(* The parser of one line.                                                 *)

(* The blocks of a group are those of its fields, and nothing is held      *)
(* before its name is; the array of fields comes with the first of them.   *)
GroupBlocks(count) ==
  IF count = 0 THEN {Parser!NAME} ELSE Parser!free_fingerprint_group(count)

GroupInv ==
  /\ IsSeq(parsed_group.fields)
  /\ parsed_group = [name |-> parsed_group.name, fields |-> parsed_group.fields]
  /\ pc = "name"  => held = {} /\ outcome = 0 /\ Parser!FieldCount = 0
  /\ pc = "field" => held = GroupBlocks(Parser!FieldCount) /\ outcome = 0
  /\ pc = "end"   => /\ Parser!FieldCount > 0 /\ outcome = 0
                     /\ held = GroupBlocks(Parser!FieldCount)
  /\ Parser!BlocksAccounted

(* What a group holds, with whatever there is of the next field, is freed  *)
(* with it once that field counts.                                         *)
LEMMA NextFieldFreed ==
  ASSUME NEW count \in Nat
  PROVE  /\ GroupBlocks(count) \subseteq Parser!free_fingerprint_group(count)
         /\ Parser!free_fingerprint_group(count + 1)
              = GroupBlocks(count) \cup {Parser!ARRAY} \cup Parser!Of(count + 1)
<1>1. 1 .. count + 1 = (1 .. count) \cup {count + 1}
  OBVIOUS
<1>2. UNION {Parser!Of(k) : k \in 1 .. count + 1}
        = (UNION {Parser!Of(k) : k \in 1 .. count}) \cup Parser!Of(count + 1)
  <2>1. \A b : (\E k \in 1 .. count + 1 : b \in Parser!Of(k))
                <=> (\E k \in 1 .. count : b \in Parser!Of(k)) \/ b \in Parser!Of(count + 1)
    BY <1>1
  <2>2. QED
    BY <2>1
<1>3. count = 0 => (UNION {Parser!Of(k) : k \in 1 .. count}) = {}
  OBVIOUS
<1>4. QED
  BY <1>2, <1>3 DEF GroupBlocks, Parser!free_fingerprint_group

LEMMA GroupInit == Parser!Init => GroupInv
BY EmptyIsSeq, LengthOfSeq DEF Parser!Init, Parser!NoGroup, Parser!BlocksAccounted,
   Parser!FieldCount, GroupInv

LEMMA GroupFails ==
  ASSUME GroupInv, NEW blocks, NEW count, Parser!Fail(blocks, count),
         blocks \subseteq Parser!free_fingerprint_group(count)
  PROVE  GroupInv'
BY DEF GroupInv, Parser!Fail, Parser!BlocksAccounted

LEMMA GroupKept == GroupInv /\ [Parser!Next]_(Parser!vars) => GroupInv'
<1> SUFFICES ASSUME GroupInv, [Parser!Next]_(Parser!vars) PROVE GroupInv'
  OBVIOUS
<1> DEFINE count == Parser!FieldCount
<1>0. /\ IsSeq(parsed_group.fields) /\ count = Len(parsed_group.fields)
      /\ count \in Nat
  BY LengthOfSeq DEF GroupInv, Parser!FieldCount
<1>1. CASE Parser!ParseName
  <2>1. pc = "name" /\ held = {} /\ count = 0 /\ outcome = 0
    BY <1>1 DEF Parser!ParseName, GroupInv
  <2>2. CASE \E blocks \in SUBSET {Parser!NAME} : Parser!Fail(blocks, 0)
    BY <2>2, GroupFails DEF Parser!free_fingerprint_group
  <2>3. CASE /\ parsed_group' = [parsed_group EXCEPT !.name = Parser!GroupName(place)]
             /\ held' = {Parser!NAME} /\ pc' = "field" /\ UNCHANGED outcome
    <3>1. parsed_group' = [name   |-> Parser!GroupName(place),
                           fields |-> parsed_group.fields]
      BY <2>3 DEF GroupInv
    <3>2. IsSeq(parsed_group.fields)' /\ Parser!FieldCount' = 0
      BY <1>0, <2>1, <3>1 DEF Parser!FieldCount, IsSeq
    <3>3. QED
      BY <2>1, <2>3, <3>1, <3>2 DEF GroupInv, GroupBlocks, Parser!BlocksAccounted
  <2>4. QED
    BY <1>1, <2>2, <2>3 DEF Parser!ParseName
<1>2. CASE Parser!ParseFieldMalformed \/ Parser!GrowRefused
  <2>1. held \subseteq Parser!free_fingerprint_group(count) /\ Parser!Fail(held, count)
    BY <1>0, <1>2, NextFieldFreed
    DEF GroupInv, Parser!ParseFieldMalformed, Parser!GrowRefused
  <2>2. QED
    BY <2>1, GroupFails
<1>3. CASE Parser!TextRefused
  <2>1. PICK got \in SUBSET Parser!Of(count + 1) :
          Parser!Fail(held \cup {Parser!ARRAY} \cup got, count + 1)
    BY <1>3 DEF Parser!TextRefused, Parser!counted_before_use
  <2>2. held = GroupBlocks(count)
    BY <1>3 DEF Parser!TextRefused, GroupInv
  <2>3. QED
    BY <1>0, <2>1, <2>2, NextFieldFreed, GroupFails
<1>4. CASE Parser!ParseField
  <2> DEFINE blocks == held \cup {Parser!ARRAY} \cup Parser!Of(count + 1)
             field  == [name |-> Parser!field_name, value |-> Parser!field_value]
  <2>1. pc = "field" /\ held = GroupBlocks(count) /\ outcome = 0
    BY <1>4 DEF Parser!ParseField, GroupInv
  <2>2. blocks = Parser!free_fingerprint_group(count + 1)
    BY <1>0, <2>1, NextFieldFreed
  <2>3. CASE Parser!Fail(blocks, count + 1)
    BY <2>2, <2>3, GroupFails
  <2>4. CASE /\ parsed_group' = [parsed_group EXCEPT !.fields = Append(@, field)]
             /\ held' = blocks /\ pc' \in {"end", "field"} /\ UNCHANGED outcome
    <3>1. parsed_group' = [name   |-> parsed_group.name,
                           fields |-> Append(parsed_group.fields, field)]
      BY <2>4 DEF GroupInv
    <3>2. IsSeq(parsed_group.fields)' /\ Parser!FieldCount' = count + 1
      BY <1>0, <3>1, AppendToSeq DEF Parser!FieldCount, IsSeq
    <3>3. held' = GroupBlocks(count + 1)
      BY <1>0, <2>2, <2>4 DEF GroupBlocks
    <3>4. Parser!FieldCount' > 0 /\ held' = GroupBlocks(Parser!FieldCount)'
      BY <1>0, <3>2, <3>3 DEF GroupBlocks, Parser!free_fingerprint_group
    <3>5. QED
      BY <2>1, <2>4, <3>1, <3>2, <3>4 DEF GroupInv, Parser!BlocksAccounted
  <2>5. QED
    BY <1>4, <2>3, <2>4 DEF Parser!ParseField
<1>5. CASE Parser!ParseEnd
  <2>1. /\ pc = "end" /\ count > 0 /\ outcome = 0
        /\ held = Parser!free_fingerprint_group(count)
    BY <1>5 DEF Parser!ParseEnd, GroupInv, GroupBlocks
  <2>2. CASE Parser!Fail(held, count)
    BY <2>1, <2>2, GroupFails
  <2>3. CASE pc' = "done" /\ UNCHANGED <<place, pos, parsed_group, held, outcome>>
    BY <2>1, <2>3
    DEF GroupInv, IsSeq, Parser!BlocksAccounted, Parser!FieldCount,
        Parser!free_fingerprint_group
  <2>4. QED
    BY <1>5, <2>2, <2>3 DEF Parser!ParseEnd
<1>6. CASE UNCHANGED Parser!vars
  BY <1>6 DEF Parser!vars, GroupInv, IsSeq, GroupBlocks, Parser!BlocksAccounted,
     Parser!FieldCount, Parser!free_fingerprint_group
<1>7. QED
  BY <1>1, <1>2, <1>3, <1>4, <1>5, <1>6 DEF Parser!Next

-----------------------------------------------------------------------------
(* The reader of an observed fingerprint.                                  *)

GroupsHeld == IF groups = <<>> THEN {} ELSE Observed!free_match_fingerprint

(* Between two lines the reader holds the groups stored so far; behind the *)
(* parser also the one that has no place in the array yet.                 *)
ObservedInv ==
  /\ IsSeq(groups)
  /\ parsed # {} => outcome = Observed!RUNNING /\ \E g : parsed = {g}
  /\ outcome = Observed!RUNNING =>
       held = GroupsHeld \cup IF parsed = {} THEN {}
                              ELSE {Observed!Group(Len(groups) + 1)}
  /\ Observed!NothingElseHeld

LEMMA ObservedInit == Observed!Init => ObservedInv
BY EmptyIsSeq DEF Observed!Init, Observed!RUNNING, Observed!NothingElseHeld,
   GroupsHeld, ObservedInv

LEMMA ObservedFails ==
  ASSUME ObservedInv, NEW blocks, Observed!Fail(blocks), blocks \subseteq GroupsHeld
  PROVE  ObservedInv'
BY DEF ObservedInv, Observed!Fail, GroupsHeld, Observed!NothingElseHeld,
   Observed!RUNNING, IsSeq

LEMMA ObservedKept == ObservedInv /\ [Observed!Next]_(Observed!vars) => ObservedInv'
<1> SUFFICES ASSUME ObservedInv, [Observed!Next]_(Observed!vars) PROVE ObservedInv'
  OBVIOUS
<1> DEFINE count == Len(groups)
<1>0. /\ IsSeq(groups) /\ count \in Nat /\ DOMAIN groups = 1 .. count
      /\ groups = <<>> <=> count = 0
  BY LengthOfSeq DEF ObservedInv
<1>1. CASE Observed!ReadRefused \/ Observed!ParseMalformed
  <2>1. held = GroupsHeld /\ Observed!Fail(held)
    BY <1>1 DEF Observed!ReadRefused, Observed!ParseMalformed, Observed!Reading, ObservedInv
  <2>2. QED
    BY <2>1, ObservedFails
<1>2. CASE Observed!ParseLine
  <2>1. /\ outcome = Observed!RUNNING /\ held = GroupsHeld
        /\ \E g : parsed' = {g}
        /\ held' = held \cup {Observed!Group(count + 1)}
        /\ UNCHANGED <<groups, outcome>>
    BY <1>2 DEF Observed!ParseLine, Observed!Reading, Observed!after_parse, ObservedInv
  <2>2. /\ IsSeq(groups)' /\ GroupsHeld' = GroupsHeld
        /\ Observed!Group(count + 1)' = Observed!Group(count + 1)
    BY <1>0, <2>1 DEF IsSeq, GroupsHeld, Observed!free_match_fingerprint, Observed!Group
  <2>3. QED
    BY <2>1, <2>2 DEF ObservedInv, Observed!NothingElseHeld, Observed!RUNNING
<1>3. CASE Observed!GrowRefused
  <2>1. /\ held = GroupsHeld \cup {Observed!Group(count + 1)}
        /\ Observed!Fail(held \ {Observed!Group(count + 1)})
    BY <1>3 DEF Observed!GrowRefused, ObservedInv
  <2>2. QED
    BY <2>1, ObservedFails
<1>4. CASE Observed!StoreGroup
  <2>1. PICK g \in parsed : groups' = Append(groups, g)
    BY <1>4 DEF Observed!StoreGroup
  <2>2. /\ held = GroupsHeld \cup {Observed!Group(count + 1)}
        /\ held' = held \cup {Observed!ARRAY} /\ parsed' = {}
        /\ outcome = Observed!RUNNING /\ UNCHANGED outcome
    BY <1>4, <2>1 DEF Observed!StoreGroup, ObservedInv
  <2>3. IsSeq(groups)' /\ Len(groups') = count + 1
    BY <1>0, <2>1, AppendToSeq DEF IsSeq
  <2>4. groups' # <<>> /\ DOMAIN groups' = 1 .. count + 1
    <3>1. IsSeq(Append(groups, g)) /\ Len(Append(groups, g)) = count + 1
      BY <1>0, AppendToSeq
    <3>2. QED
      BY <1>0, <2>1, <3>1, LengthOfSeq
  <2>5. 1 .. count + 1 = (1 .. count) \cup {count + 1}
    BY <1>0
  <2>6. {Observed!Group(k) : k \in 1 .. count + 1}
          = {Observed!Group(k) : k \in 1 .. count} \cup {Observed!Group(count + 1)}
    BY <2>5
  <2>7. count = 0 => {Observed!Group(k) : k \in 1 .. count} = {}
    OBVIOUS
  <2>8. held' = {Observed!ARRAY} \cup {Observed!Group(k) : k \in 1 .. count + 1}
    BY <1>0, <2>2, <2>6, <2>7 DEF GroupsHeld, Observed!free_match_fingerprint
  <2>9. held' = GroupsHeld'
    BY <2>4, <2>8 DEF GroupsHeld, Observed!free_match_fingerprint
  <2>10. QED
    BY <2>2, <2>3, <2>9 DEF ObservedInv, Observed!NothingElseHeld, Observed!RUNNING
<1>5. CASE Observed!ReadEnd
  BY <1>5 DEF Observed!ReadEnd, ObservedInv, GroupsHeld, Observed!free_match_fingerprint,
     Observed!NothingElseHeld, Observed!RUNNING, IsSeq
<1>6. CASE UNCHANGED Observed!vars
  BY <1>6 DEF Observed!vars, ObservedInv, GroupsHeld, Observed!free_match_fingerprint,
     Observed!NothingElseHeld, IsSeq
<1>7. QED
  BY <1>1, <1>2, <1>3, <1>4, <1>5, <1>6 DEF Observed!Next

-----------------------------------------------------------------------------
(* The reader of the database: the headers of a file.                      *)

HeaderPlaces(f) == {k \in DOMAIN f : f[k].kind \in {"header", "bare"}}

(* Those among its first k lines, ...                                      *)
Met(f, k)   == Marks(Len(f), HeaderPlaces(f), k)
(* ... all of them, and what belongs to the h-th.                          *)
Heads(f)    == AllMarks(Len(f), HeaderPlaces(f))
Until(f, h) == MarkAfter(Len(f), HeaderPlaces(f), h)
Own(f, h)   == {k \in Heads(f)[h] + 1 .. Until(f, h) - 1 : f[k].kind \notin {"blank", "class"}}

(* What has been gathered of the h-th reference after k lines.             *)
Gathered(f, h, k) == Collected(f, Own(f, h))[k]
NamesOf(ls)       == [k \in DOMAIN ls |-> ls[k].name]

LEMMA PlacesAreSeq ==
  ASSUME NEW R, NEW f \in Seq(R)
  PROVE  /\ Len(f) \in Nat /\ DOMAIN f = 1 .. Len(f)
         /\ HeaderPlaces(f) \in SUBSET (1 .. Len(f))
<1>1. Len(f) \in Nat /\ DOMAIN f = 1 .. Len(f)
  BY LenProperties
<1>2. QED
  BY <1>1 DEF HeaderPlaces

LEMMA MetSteps ==
  ASSUME NEW R, NEW f \in Seq(R)
  PROVE  /\ Met(f, 0) = <<>>
         /\ \A k \in Nat : Met(f, k) \in Seq(Nat)
<1>1. Len(f) \in Nat /\ HeaderPlaces(f) \in SUBSET (1 .. Len(f))
  BY PlacesAreSeq
<1>2. QED
  BY <1>1, MarksSteps DEF Met

-----------------------------------------------------------------------------
(* What the reader learns from the next line: that it is a header, ...     *)
LEMMA HeaderMet ==
  ASSUME NEW R, NEW f \in Seq(R), NEW p \in Nat, p + 1 \in HeaderPlaces(f),
         NEW n \in Nat, Len(Met(f, p)) = n
  PROVE  n < Len(Heads(f)) /\ Heads(f)[n + 1] = p + 1 /\ Len(Met(f, p + 1)) = n + 1
<1>1. Len(f) \in Nat /\ HeaderPlaces(f) \in SUBSET (1 .. Len(f))
  BY PlacesAreSeq
<1>2. QED
  BY <1>1, MarkMet DEF Met, Heads

LEMMA NoHeaderMet ==
  ASSUME NEW R, NEW f \in Seq(R), NEW p \in Nat, p + 1 \notin HeaderPlaces(f)
  PROVE  Met(f, p + 1) = Met(f, p)
<1>1. Len(f) \in Nat /\ HeaderPlaces(f) \in SUBSET (1 .. Len(f))
  BY PlacesAreSeq
<1>2. QED
  BY <1>1, NoMarkMet DEF Met

(* Where the reference being read begins, and that it does not end before  *)
(* the next header.                                                        *)
LEMMA HeadOfThis ==
  ASSUME NEW R, NEW f \in Seq(R), NEW p \in 0 .. Len(f), NEW h \in Nat, h > 0,
         Len(Met(f, p)) = h
  PROVE  /\ h <= Len(Heads(f)) /\ Len(Heads(f)) \in Nat
         /\ Heads(f)[h] \in 1 .. p
         /\ Until(f, h) \in p + 1 .. Len(f) + 1
<1>1. Len(f) \in Nat /\ HeaderPlaces(f) \in SUBSET (1 .. Len(f))
  BY PlacesAreSeq
<1>2. Len(Marks(Len(f), HeaderPlaces(f), p)) = h
  BY DEF Met
<1>3. Until(f, h) \in p + 1 .. Len(f) + 1
  BY <1>1, <1>2, NextMark DEF Until, IsNextMark
<1>4. h <= Len(Heads(f)) /\ Len(Heads(f)) \in Nat /\ Heads(f)[h] \in 1 .. p
  BY <1>1, <1>2, MarksInOrder DEF Heads
<1>5. QED
  BY <1>3, <1>4

(* ... that it is one of the reference, ...                                *)
LEMMA OwnLine ==
  ASSUME NEW R, NEW f \in Seq(R), NEW p \in Nat, p < Len(f), NEW h \in Nat, h > 0,
         Len(Met(f, p)) = h, p + 1 \notin HeaderPlaces(f)
  PROVE  p + 1 \in Own(f, h) <=> f[p + 1].kind \notin {"blank", "class"}
<1>1. Len(f) \in Nat
  BY PlacesAreSeq
<1>2. PICK m \in 0 .. Len(f) : m = p + 1
  BY <1>1
<1>3. Len(Met(f, m)) = h
  BY <1>2, NoHeaderMet
<1>4. p \in 0 .. Len(f)
  BY <1>1
<1>5. Heads(f)[h] \in 1 .. p
  BY <1>4, HeadOfThis
<1>6. Until(f, h) \in m + 1 .. Len(f) + 1
  BY <1>3, HeadOfThis
<1>7. m \in Heads(f)[h] + 1 .. Until(f, h) - 1
  BY <1>1, <1>2, <1>5, <1>6
<1>8. QED
  BY <1>2, <1>7 DEF Own

(* ... or that the reference ends here.                                    *)
LEMMA EndsHere ==
  ASSUME NEW R, NEW f \in Seq(R), NEW p \in 0 .. Len(f), NEW h \in Nat, h > 0,
         Len(Met(f, p)) = h, p = Len(f) \/ p + 1 \in HeaderPlaces(f)
  PROVE  Until(f, h) = p + 1
<1>1. Len(f) \in Nat /\ p \in Nat
  BY PlacesAreSeq
<1>2. CASE p = Len(f)
  BY <1>2 DEF Until, MarkAfter, Met, Heads, AllMarks
<1>3. CASE p + 1 \in HeaderPlaces(f)
  BY <1>1, <1>3, HeaderMet DEF Until, MarkAfter, Heads
<1>4. QED
  BY <1>2, <1>3

-----------------------------------------------------------------------------
(* The lines of a reference.                                               *)

LEMMA OwnInFile ==
  ASSUME NEW R, NEW f \in Seq(R), NEW p \in 0 .. Len(f), NEW h \in Nat, h > 0,
         Len(Met(f, p)) = h
  PROVE  Own(f, h) \in SUBSET DOMAIN f
<1>1. Len(f) \in Nat /\ DOMAIN f = 1 .. Len(f)
  BY PlacesAreSeq
<1>2. Heads(f)[h] \in 1 .. p /\ Until(f, h) \in p + 1 .. Len(f) + 1
  BY HeadOfThis
<1>3. PICK low \in Nat, high \in Nat : /\ low = Heads(f)[h] /\ high = Until(f, h)
                                       /\ high <= Len(f) + 1
  BY <1>1, <1>2
<1>4. Heads(f)[h] + 1 .. Until(f, h) - 1 \subseteq 1 .. Len(f)
  BY <1>1, <1>3
<1>5. QED
  BY <1>1, <1>4 DEF Own

LEMMA NothingYet ==
  ASSUME NEW R, NEW f \in Seq(R), NEW p \in 0 .. Len(f), NEW h \in Nat, h > 0,
         Len(Met(f, p)) = h, Heads(f)[h] = p
  PROVE  Gathered(f, h, p) = <<>>
<1>1. Own(f, h) \in SUBSET DOMAIN f /\ Len(f) \in Nat
  BY OwnInFile, PlacesAreSeq
<1>2. p \in Nat
  BY <1>1
<1>0. PICK none \in Nat : none = 0
  OBVIOUS
<1>3. \A j \in none + 1 .. none + p : j \notin Own(f, h)
  BY <1>0, <1>2 DEF Own
<1>4. Collected(f, Own(f, h))[none + p] = Collected(f, Own(f, h))[none]
  BY <1>1, <1>2, <1>3, CollectedSame
<1>5. /\ Collected(f, Own(f, h))[0] = <<>>
      /\ \A j \in Nat :
           Collected(f, Own(f, h))[j + 1] = IF j + 1 \in Own(f, h)
                                            THEN Append(Collected(f, Own(f, h))[j], f[j + 1])
                                            ELSE Collected(f, Own(f, h))[j]
      /\ \A j \in Nat : Collected(f, Own(f, h))[j] \in Seq(R)
  BY <1>1, CollectedSteps
<1>6. QED
  BY <1>0, <1>2, <1>4, <1>5 DEF Gathered

LEMMA GatherLine ==
  ASSUME NEW R, NEW f \in Seq(R), NEW p \in Nat, p < Len(f), NEW h \in Nat, h > 0,
         Len(Met(f, p)) = h, p + 1 \notin HeaderPlaces(f)
  PROVE  /\ Gathered(f, h, p) \in Seq(R)
         /\ Gathered(f, h, p + 1) = IF f[p + 1].kind \notin {"blank", "class"}
                                    THEN Append(Gathered(f, h, p), f[p + 1])
                                    ELSE Gathered(f, h, p)
<1>1. Len(f) \in Nat /\ p \in 0 .. Len(f)
  BY PlacesAreSeq
<1>2. Own(f, h) \in SUBSET DOMAIN f
  BY <1>1, OwnInFile
<1>3. /\ Collected(f, Own(f, h))[0] = <<>>
      /\ \A j \in Nat :
           Collected(f, Own(f, h))[j + 1] = IF j + 1 \in Own(f, h)
                                            THEN Append(Collected(f, Own(f, h))[j], f[j + 1])
                                            ELSE Collected(f, Own(f, h))[j]
      /\ \A j \in Nat : Collected(f, Own(f, h))[j] \in Seq(R)
  BY <1>2, CollectedSteps
<1>4. p + 1 \in Own(f, h) <=> f[p + 1].kind \notin {"blank", "class"}
  BY OwnLine
<1>5. Gathered(f, h, p + 1) = IF p + 1 \in Own(f, h)
                              THEN Append(Gathered(f, h, p), f[p + 1])
                              ELSE Gathered(f, h, p)
  BY <1>3 DEF Gathered
<1>6. Gathered(f, h, p) \in Seq(R)
  BY <1>3 DEF Gathered
<1>7. QED
  BY <1>4, <1>5, <1>6

(* What has been gathered is the beginning of what belongs to the          *)
(* reference, and all of it where the reference ends.                      *)
LEMMA GatheredSoFar ==
  ASSUME NEW R, NEW f \in Seq(R), NEW p \in 0 .. Len(f), NEW h \in Nat, h > 0,
         Len(Met(f, p)) = h
  PROVE  /\ Gathered(f, h, p) \in Seq(R) /\ Gathered(f, h, Len(f)) \in Seq(R)
         /\ Begins(Gathered(f, h, p), Gathered(f, h, Len(f)))
         /\ Until(f, h) = p + 1 => Gathered(f, h, Len(f)) = Gathered(f, h, p)
<1>1. Len(f) \in Nat /\ p \in Nat /\ p <= Len(f)
  BY PlacesAreSeq
<1>2. Own(f, h) \in SUBSET DOMAIN f
  BY OwnInFile
<1>3. PICK d \in Nat : Len(f) = p + d
  <2>1. Len(f) - p \in Nat /\ Len(f) = p + (Len(f) - p)
    BY <1>1
  <2>2. QED
    BY <2>1
<1>4. \A j \in Nat : Collected(f, Own(f, h))[j] \in Seq(R)
  <2>1. /\ Collected(f, Own(f, h))[0] = <<>>
        /\ \A j \in Nat :
             Collected(f, Own(f, h))[j + 1] = IF j + 1 \in Own(f, h)
                                              THEN Append(Collected(f, Own(f, h))[j], f[j + 1])
                                              ELSE Collected(f, Own(f, h))[j]
        /\ \A j \in Nat : Collected(f, Own(f, h))[j] \in Seq(R)
    BY <1>2, CollectedSteps
  <2>2. QED
    BY <2>1
<1>5. Begins(Collected(f, Own(f, h))[p], Collected(f, Own(f, h))[p + d])
  BY <1>1, <1>2, CollectedStays
<1>6. ASSUME Until(f, h) = p + 1
      PROVE  Collected(f, Own(f, h))[p + d] = Collected(f, Own(f, h))[p]
  <2>1. \A j \in p + 1 .. p + d : j \notin Own(f, h)
    BY <1>1, <1>6 DEF Own
  <2>2. QED
    BY <1>1, <1>2, <2>1, CollectedSame
<1>7. QED
  BY <1>1, <1>3, <1>4, <1>5, <1>6 DEF Gathered

-----------------------------------------------------------------------------
(* The reference that is being read.                                       *)

Reading(f, p, h, on, g) ==
  /\ f[Heads(f)[h]].kind = "header" /\ on = <<f[Heads(f)[h]].name>>
  /\ g = NamesOf(Gathered(f, h, p))
  /\ \A k \in DOMAIN Gathered(f, h, p) : Gathered(f, h, p)[k].kind = "group"
  /\ IsInjective(g)

Well(f, h) == /\ f[Heads(f)[h]].kind = "header"
              /\ Gathered(f, h, Len(f)) # <<>>
              /\ \A k \in DOMAIN Gathered(f, h, Len(f)) :
                   Gathered(f, h, Len(f))[k].kind = "group"
              /\ IsInjective(NamesOf(Gathered(f, h, Len(f))))

Handed(f, h) == [name |-> f[Heads(f)[h]].name, groups |-> NamesOf(Gathered(f, h, Len(f)))]

LEMMA NamesOfEmpty == NamesOf(<<>>) = <<>> /\ IsInjective(<<>>)
BY DEF NamesOf, IsInjective

LEMMA NamesOfAppend ==
  ASSUME NEW R, NEW ls \in Seq(R), NEW l \in R
  PROVE  /\ NamesOf(ls) \in Seq({ls[k].name : k \in DOMAIN ls})
         /\ Len(NamesOf(ls)) = Len(ls)
         /\ NamesOf(Append(ls, l)) = Append(NamesOf(ls), l.name)
<1>1. Len(ls) \in Nat /\ DOMAIN ls = 1 .. Len(ls)
  BY LenProperties
<1> DEFINE N == {ls[k].name : k \in DOMAIN ls}
           g == NamesOf(ls)
           a == Append(ls, l)
<1>2. g \in [1 .. Len(ls) -> N]
  BY <1>1 DEF NamesOf
<1>3. g \in Seq(N) /\ Len(g) = Len(ls) /\ DOMAIN g = 1 .. Len(ls)
  BY <1>1, <1>2, IsASeq, LenProperties
<1>4. /\ a \in Seq(R) /\ Len(a) = Len(ls) + 1 /\ DOMAIN a = 1 .. Len(ls) + 1
      /\ \A k \in 1 .. Len(ls) : a[k] = ls[k]
      /\ a[Len(ls) + 1] = l
  BY <1>1, AppendProperties, LenProperties
<1> DEFINE b == Append(g, l.name)
<1>5. /\ DOMAIN b = 1 .. Len(ls) + 1 /\ b = [k \in DOMAIN b |-> b[k]]
      /\ \A k \in 1 .. Len(ls) : b[k] = g[k]
      /\ b[Len(ls) + 1] = l.name
  <2>1. g \in Seq(N \cup {l.name}) /\ l.name \in N \cup {l.name}
    <3>1. g \in [1 .. Len(ls) -> N \cup {l.name}]
      BY <1>2
    <3>2. QED
      BY <1>1, <3>1, IsASeq
  <2>2. /\ b \in Seq(N \cup {l.name}) /\ Len(b) = Len(g) + 1
        /\ \A k \in 1 .. Len(g) : b[k] = g[k]
        /\ b[Len(g) + 1] = l.name
    BY <2>1, AppendProperties
  <2>3. DOMAIN b = 1 .. Len(b) /\ b \in [1 .. Len(b) -> N \cup {l.name}]
    BY <2>2, LenProperties
  <2>4. b = [k \in DOMAIN b |-> b[k]]
    BY <2>3
  <2>5. QED
    BY <1>3, <2>2, <2>3, <2>4
<1>6. NamesOf(a) = [k \in 1 .. Len(ls) + 1 |-> b[k]]
  <2>1. NamesOf(a) = [k \in 1 .. Len(ls) + 1 |-> a[k].name]
    BY <1>4 DEF NamesOf
  <2>2. ASSUME NEW k \in 1 .. Len(ls) + 1 PROVE a[k].name = b[k]
    <3>1. CASE k = Len(ls) + 1
      BY <1>4, <1>5, <3>1
    <3>2. CASE k # Len(ls) + 1
      <4>1. k \in 1 .. Len(ls)
        BY <1>1, <3>2
      <4>2. g[k] = ls[k].name
        BY <1>1, <4>1 DEF NamesOf
      <4>3. QED
        BY <1>4, <1>5, <4>1, <4>2
    <3>3. QED
      BY <3>1, <3>2
  <2>3. QED
    BY <2>1, <2>2
<1>7. b = [k \in 1 .. Len(ls) + 1 |-> b[k]]
  BY <1>5
<1>8. QED
  BY <1>3, <1>6, <1>7

LEMMA InjectiveAppend ==
  ASSUME NEW S, NEW g \in Seq(S), NEW e \in S
  PROVE  /\ (\A k \in 1 .. Len(g) : g[k] # e) /\ IsInjective(g) => IsInjective(Append(g, e))
         /\ (\E k \in 1 .. Len(g) : g[k] = e) => ~IsInjective(Append(g, e))
<1>1. Len(g) \in Nat /\ DOMAIN g = 1 .. Len(g)
  BY LenProperties
<1>2. /\ DOMAIN Append(g, e) = 1 .. Len(g) + 1
      /\ \A k \in 1 .. Len(g) : Append(g, e)[k] = g[k]
      /\ Append(g, e)[Len(g) + 1] = e
  BY AppendProperties, LenProperties
<1> DEFINE a == Append(g, e)
           n == Len(g)
<1>3. \A k \in 1 .. n + 1 : k = n + 1 \/ k \in 1 .. n
  BY <1>1
<1>4. /\ n \in Nat /\ DOMAIN g = 1 .. n /\ DOMAIN a = 1 .. n + 1
      /\ \A k \in 1 .. n : a[k] = g[k]
      /\ a[n + 1] = e
  BY <1>1, <1>2
<1> HIDE DEF a, n
<1>5. ASSUME \A k \in 1 .. n : g[k] # e, IsInjective(g) PROVE IsInjective(a)
  <2>1. ASSUME NEW i \in 1 .. n + 1, NEW k \in 1 .. n + 1, a[i] = a[k] PROVE i = k
    <3>1. CASE i \in 1 .. n /\ k \in 1 .. n
      BY <1>4, <1>5, <2>1, <3>1 DEF IsInjective
    <3>2. CASE i = n + 1 /\ k \in 1 .. n
      BY <1>4, <1>5, <2>1, <3>2
    <3>3. CASE k = n + 1 /\ i \in 1 .. n
      BY <1>4, <1>5, <2>1, <3>3
    <3>4. QED
      BY <1>3, <3>1, <3>2, <3>3
  <2>2. QED
    BY <1>4, <2>1 DEF IsInjective
<1>6. ASSUME NEW k \in 1 .. n, g[k] = e PROVE ~IsInjective(a)
  <2>1. k \in 1 .. n + 1 /\ n + 1 \in 1 .. n + 1 /\ k # n + 1
    BY <1>4
  <2>2. a[k] = a[n + 1]
    BY <1>4, <1>6
  <2>3. QED
    BY <1>4, <2>1, <2>2 DEF IsInjective
<1>7. QED
  BY <1>5, <1>6 DEF a, n

LEMMA ReadingStarts ==
  ASSUME NEW R, NEW f \in Seq(R), NEW p \in Nat, p < Len(f), p + 1 \in HeaderPlaces(f),
         f[p + 1].kind = "header", NEW n \in Nat, Len(Met(f, p)) = n
  PROVE  Len(Met(f, p + 1)) = n + 1 /\ Reading(f, p + 1, n + 1, <<f[p + 1].name>>, <<>>)
<1>1. /\ n < Len(Heads(f)) /\ Heads(f)[n + 1] = p + 1 /\ Len(Met(f, p + 1)) = n + 1
  BY HeaderMet
<1>2. Len(f) \in Nat
  BY PlacesAreSeq
<1>3. PICK m \in 0 .. Len(f), h \in Nat : m = p + 1 /\ h = n + 1 /\ h > 0
  BY <1>2
<1>4. Gathered(f, h, m) = <<>>
  BY <1>1, <1>3, NothingYet
<1>5. DOMAIN <<>> = {}
  OBVIOUS
<1>6. QED
  BY <1>1, <1>3, <1>4, <1>5, NamesOfEmpty DEF Reading

(* A reference of which p lines of the file are read.                      *)
LEMMA ReadingPasses ==
  ASSUME NEW R, NEW f \in Seq(R), NEW p \in Nat, p < Len(f), NEW h \in Nat, h > 0,
         Len(Met(f, p)) = h, NEW on, NEW g, Reading(f, p, h, on, g),
         p + 1 \notin HeaderPlaces(f), f[p + 1].kind \in {"blank", "class"}
  PROVE  Len(Met(f, p + 1)) = h /\ Reading(f, p + 1, h, on, g)
<1>1. Len(Met(f, p + 1)) = h
  BY NoHeaderMet
<1>2. Gathered(f, h, p + 1) = Gathered(f, h, p)
  BY GatherLine
<1>3. QED
  BY <1>1, <1>2 DEF Reading

LEMMA ReadingGathers ==
  ASSUME NEW R, NEW f \in Seq(R), NEW p \in Nat, p < Len(f), NEW h \in Nat, h > 0,
         Len(Met(f, p)) = h, NEW on, NEW g, Reading(f, p, h, on, g),
         p + 1 \notin HeaderPlaces(f), f[p + 1].kind \notin {"blank", "class"}
  PROVE  /\ Len(Met(f, p + 1)) = h
         /\ Gathered(f, h, p) \in Seq(R) /\ f[p + 1] \in R
         /\ Gathered(f, h, p + 1) = Append(Gathered(f, h, p), f[p + 1])
         /\ Len(g) = Len(Gathered(f, h, p))
         /\ NamesOf(Gathered(f, h, p + 1)) = Append(g, f[p + 1].name)
         /\ \E S : g \in Seq(S) /\ f[p + 1].name \in S
<1>1. Len(f) \in Nat
  BY PlacesAreSeq
<1>2. Len(Met(f, p + 1)) = h
  BY NoHeaderMet
<1>3. /\ Gathered(f, h, p) \in Seq(R)
      /\ Gathered(f, h, p + 1) = Append(Gathered(f, h, p), f[p + 1])
  BY GatherLine
<1>4. f[p + 1] \in R
  <2>1. p + 1 \in 1 .. Len(f)
    BY <1>1
  <2>2. QED
    BY <2>1, ElementOfSeq
<1> DEFINE N == {Gathered(f, h, p)[k].name : k \in DOMAIN Gathered(f, h, p)}
<1>5. g = NamesOf(Gathered(f, h, p))
  BY DEF Reading
<1>6. /\ g \in Seq(N) /\ Len(g) = Len(Gathered(f, h, p))
      /\ NamesOf(Append(Gathered(f, h, p), f[p + 1])) = Append(g, f[p + 1].name)
  <2> DEFINE ls == Gathered(f, h, p)
             l  == f[p + 1]
  <2>1. ls \in Seq(R) /\ l \in R
    BY <1>3, <1>4
  <2> HIDE DEF ls, l
  <2>2. /\ NamesOf(ls) \in Seq({ls[k].name : k \in DOMAIN ls})
        /\ Len(NamesOf(ls)) = Len(ls)
        /\ NamesOf(Append(ls, l)) = Append(NamesOf(ls), l.name)
    BY <2>1, NamesOfAppend
  <2>3. QED
    BY <1>5, <2>2 DEF ls, l
<1>7. g \in Seq(N \cup {f[p + 1].name})
  <2>1. g \in [1 .. Len(g) -> N] /\ Len(g) \in Nat
    BY <1>6, LenProperties
  <2>2. g \in [1 .. Len(g) -> N \cup {f[p + 1].name}]
    BY <2>1
  <2>3. QED
    BY <2>1, <2>2, IsASeq
<1>8. QED
  BY <1>2, <1>3, <1>4, <1>6, <1>7

LEMMA ReadingGrows ==
  ASSUME NEW R, NEW f \in Seq(R), NEW p \in Nat, p < Len(f), NEW h \in Nat, h > 0,
         Len(Met(f, p)) = h, NEW on, NEW g, Reading(f, p, h, on, g),
         p + 1 \notin HeaderPlaces(f), f[p + 1].kind = "group",
         \A k \in 1 .. Len(g) : g[k] # f[p + 1].name
  PROVE  Len(Met(f, p + 1)) = h /\ Reading(f, p + 1, h, on, Append(g, f[p + 1].name))
<1> DEFINE l == f[p + 1]
           ls == Gathered(f, h, p)
<1>1. /\ Len(Met(f, p + 1)) = h
      /\ ls \in Seq(R) /\ l \in R
      /\ Gathered(f, h, p + 1) = Append(ls, l)
      /\ NamesOf(Gathered(f, h, p + 1)) = Append(g, l.name)
      /\ \E S : g \in Seq(S) /\ l.name \in S
  BY ReadingGathers
<1>2. PICK S : g \in Seq(S) /\ l.name \in S
  BY <1>1
<1>3. IsInjective(g)
  BY DEF Reading
<1>4. IsInjective(Append(g, l.name))
  BY <1>2, <1>3, InjectiveAppend
<1>5. \A k \in DOMAIN ls : ls[k].kind = "group"
  BY DEF Reading
<1>6. ASSUME NEW k \in DOMAIN Append(ls, l) PROVE Append(ls, l)[k].kind = "group"
  <2>1. Len(ls) \in Nat /\ DOMAIN ls = 1 .. Len(ls)
    BY <1>1, LenProperties
  <2>2. /\ DOMAIN Append(ls, l) = 1 .. Len(ls) + 1
        /\ \A i \in 1 .. Len(ls) : Append(ls, l)[i] = ls[i]
        /\ Append(ls, l)[Len(ls) + 1] = l
    BY <1>1, AppendProperties, LenProperties
  <2>3. k = Len(ls) + 1 \/ k \in 1 .. Len(ls)
    BY <2>1, <2>2
  <2>4. QED
    BY <1>5, <2>1, <2>2, <2>3
<1>7. QED
  BY <1>1, <1>4, <1>6 DEF Reading

(* A line that is no new group cannot be part of a well-formed reference.  *)
LEMMA ReadingStops ==
  ASSUME NEW R, NEW f \in Seq(R), NEW p \in Nat, p < Len(f), NEW h \in Nat, h > 0,
         Len(Met(f, p)) = h, NEW on, NEW g, Reading(f, p, h, on, g),
         p + 1 \notin HeaderPlaces(f), f[p + 1].kind \notin {"blank", "class"},
         f[p + 1].kind # "group" \/ \E k \in 1 .. Len(g) : g[k] = f[p + 1].name
  PROVE  ~Well(f, h)
<1> DEFINE l == f[p + 1]
           ls == Gathered(f, h, p)
           all == Gathered(f, h, Len(f))
<1>1. /\ Len(Met(f, p + 1)) = h
      /\ ls \in Seq(R) /\ l \in R
      /\ Gathered(f, h, p + 1) = Append(ls, l)
      /\ Len(g) = Len(ls)
      /\ NamesOf(Gathered(f, h, p + 1)) = Append(g, l.name)
      /\ \E S : g \in Seq(S) /\ l.name \in S
  BY ReadingGathers
<1>2. Len(f) \in Nat
  BY PlacesAreSeq
<1>3. PICK m \in 0 .. Len(f) : m = p + 1
  BY <1>2
<1>4. all \in Seq(R) /\ Begins(Gathered(f, h, m), all)
  BY <1>1, <1>3, GatheredSoFar
<1>5. Begins(Append(ls, l), all)
  BY <1>1, <1>3, <1>4
<1>6. /\ Len(ls) \in Nat /\ Len(Append(ls, l)) = Len(ls) + 1 /\ Append(ls, l)[Len(ls) + 1] = l
      /\ DOMAIN Append(ls, l) = 1 .. Len(ls) + 1
  BY <1>1, AppendProperties, LenProperties
<1>7. Len(all) \in Nat /\ DOMAIN all = 1 .. Len(all)
  BY <1>4, LenProperties
<1>8. \A k \in 1 .. Len(ls) + 1 : k \in DOMAIN all /\ all[k] = Append(ls, l)[k]
  BY <1>5, <1>6, <1>7 DEF Begins
<1>9. CASE l.kind # "group"
  <2>1. Len(ls) + 1 \in DOMAIN all /\ all[Len(ls) + 1] = l
    <3>1. Len(ls) + 1 \in 1 .. Len(ls) + 1
      BY <1>6
    <3>2. QED
      BY <1>6, <1>8, <3>1
  <2>2. QED
    BY <1>9, <2>1 DEF Well
<1>10. CASE \E k \in 1 .. Len(g) : g[k] = l.name
  <2>1. PICK S : g \in Seq(S) /\ l.name \in S
    BY <1>1
  <2>2. ~IsInjective(Append(g, l.name))
    BY <1>10, <2>1, InjectiveAppend
  <2>3. Append(g, l.name) = NamesOf(Append(ls, l))
    BY <1>1
  <2>4. PICK i \in 1 .. Len(ls) + 1, k \in 1 .. Len(ls) + 1 :
          i # k /\ Append(ls, l)[i].name = Append(ls, l)[k].name
    BY <1>6, <2>2, <2>3 DEF IsInjective, NamesOf
  <2>5. i \in DOMAIN all /\ k \in DOMAIN all /\ all[i].name = all[k].name
    BY <1>8, <2>4
  <2>6. ~IsInjective(NamesOf(all))
    BY <2>4, <2>5 DEF IsInjective, NamesOf
  <2>7. QED
    BY <2>6 DEF Well
<1>11. QED
  BY <1>9, <1>10

(* Where the reference ends, it is well-formed if it has a group, and it is*)
(* what has been read.                                                     *)
LEMMA ReadingEnds ==
  ASSUME NEW R, NEW f \in Seq(R), NEW p \in 0 .. Len(f), NEW h \in Nat, h > 0,
         Len(Met(f, p)) = h, NEW on, NEW g, Reading(f, p, h, on, g),
         p = Len(f) \/ p + 1 \in HeaderPlaces(f)
  PROVE  /\ h <= Len(Heads(f))
         /\ g = <<>> => ~Well(f, h)
         /\ g # <<>> => /\ Well(f, h)
                        /\ [name |-> on[1], groups |-> g] = Handed(f, h)
<1>1. h <= Len(Heads(f)) /\ Until(f, h) = p + 1
  BY HeadOfThis, EndsHere
<1>2. Gathered(f, h, p) \in Seq(R) /\ Gathered(f, h, Len(f)) = Gathered(f, h, p)
  BY <1>1, GatheredSoFar
<1> DEFINE ls == Gathered(f, h, p)
<1>3. DOMAIN ls = 1 .. Len(ls) /\ Len(ls) \in Nat /\ (ls = <<>> <=> Len(ls) = 0)
  BY <1>2, LenProperties, EmptySeq
<1>4. g = NamesOf(ls) /\ DOMAIN g = DOMAIN ls
  BY DEF Reading, NamesOf
<1>5. g = <<>> <=> ls = <<>>
  <2>1. ls = <<>> => g = <<>>
    BY <1>4, NamesOfEmpty
  <2>2. g = <<>> => ls = <<>>
    <3>1. g = <<>> => DOMAIN ls = {}
      BY <1>4
    <3>2. DOMAIN ls = {} => Len(ls) = 0
      BY <1>3
    <3>3. QED
      BY <1>3, <3>1, <3>2
  <2>3. QED
    BY <2>1, <2>2
<1>6. on[1] = f[Heads(f)[h]].name
  BY DEF Reading
<1>7. QED
  BY <1>1, <1>2, <1>4, <1>5, <1>6 DEF Reading, Well, Handed

-----------------------------------------------------------------------------
(* The reader of the database.                                             *)

DatabaseInv ==
  /\ file \in Seq(Database!FileLine)
  /\ entries \in Seq({Handed(file, h) : h \in Nat})
  /\ \A h \in DOMAIN entries : Well(file, h) /\ entries[h] = Handed(file, h)
  /\ Len(entries) <= Len(Heads(file))
  /\ phase \in {"weights", "rewind"} => entries = <<>> /\ groups = <<>>
  /\ phase = "references" =>
       /\ pos \in 0 .. Len(file)
       /\ ~found => Len(Met(file, pos)) = Len(entries) /\ groups = <<>>
       /\ found => /\ Len(Met(file, pos)) = Len(entries) + 1
                   /\ Reading(file, pos, Len(entries) + 1, os_name, groups)
  /\ phase = "done" /\ status = 0 => Len(entries) = Len(Heads(file))
  /\ phase = "done" /\ status = -1 /\ ~failed /\ weights # <<>>
       => Len(entries) < Len(Heads(file)) /\ ~Well(file, Len(entries) + 1)

LEMMA DatabaseTypes ==
  ASSUME DatabaseInv
  PROVE  /\ Len(file) \in Nat /\ DOMAIN file = 1 .. Len(file)
         /\ Len(entries) \in Nat /\ DOMAIN entries = 1 .. Len(entries)
         /\ Len(Heads(file)) \in Nat
<1>1. file \in Seq(Database!FileLine) /\ entries \in Seq({Handed(file, h) : h \in Nat})
  BY DEF DatabaseInv
<1>2. Len(file) \in Nat /\ DOMAIN file = 1 .. Len(file)
  BY <1>1, LenProperties
<1>3. Len(entries) \in Nat /\ DOMAIN entries = 1 .. Len(entries)
  BY <1>1, LenProperties
<1>4. Heads(file) \in Seq(Nat)
  BY <1>1, <1>2, MetSteps DEF Heads, AllMarks, Met
<1>5. QED
  BY <1>2, <1>3, <1>4, LenProperties

LEMMA DatabaseInit == Database!Init => DatabaseInv
<1> SUFFICES ASSUME Database!Init PROVE DatabaseInv
  OBVIOUS
<1>1. file \in Seq(Database!FileLine)
  BY FileAssumption DEF Database!Init
<1>2. entries \in Seq({Handed(file, h) : h \in Nat}) /\ Len(entries) = 0 /\ DOMAIN entries = {}
  BY DEF Database!Init
<1>3. Len(Heads(file)) \in Nat
  BY <1>1, MetSteps, LenProperties DEF Heads, AllMarks, Met
<1>4. QED
  BY <1>1, <1>2, <1>3 DEF Database!Init, DatabaseInv

(* What reading ends with.                                                 *)
LEMMA GivesUp ==
  ASSUME DatabaseInv, NEW s, Database!Give(s),
         s = 0 => Len(entries) = Len(Heads(file)),
         s = -1 /\ ~failed' /\ phase # "weights"
           => Len(entries) < Len(Heads(file)) /\ ~Well(file, Len(entries) + 1)
  PROVE  DatabaseInv'
BY DEF Database!Give, DatabaseInv

LEMMA NextLine ==
  ASSUME NEW len \in Nat, NEW p \in 0 .. len
  PROVE  p \in Nat /\ (p # len => p < len /\ p + 1 \in 1 .. len /\ p + 1 \in 0 .. len)
OBVIOUS

LEMMA MalformedReference ==
  ASSUME DatabaseInv, Database!ReferenceMalformed
  PROVE  Len(entries) < Len(Heads(file)) /\ ~Well(file, Len(entries) + 1)
<1> DEFINE n == Len(entries)
           p == pos
<1>1. /\ phase = "references" /\ pos \in 0 .. Len(file) /\ pos # Len(file)
      /\ file \in Seq(Database!FileLine)
  BY DEF DatabaseInv, Database!ReferenceMalformed, Database!InReferences, Database!AtEof
<1>2. Len(file) \in Nat /\ DOMAIN file = 1 .. Len(file) /\ n \in Nat /\ n + 1 > 0
      /\ n + 1 \in Nat /\ Len(Heads(file)) \in Nat
  BY DatabaseTypes
<1>3. pos \in Nat /\ pos < Len(file) /\ pos + 1 \in DOMAIN file
  <2>1. pos \in Nat /\ pos < Len(file) /\ pos + 1 \in 1 .. Len(file)
        /\ pos + 1 \in 0 .. Len(file)
    BY <1>1, <1>2, NextLine
  <2>2. QED
    BY <1>2, <2>1
<1>4. CASE ~found
  <2>1. Len(Met(file, pos)) = n
    BY <1>1, <1>4 DEF DatabaseInv
  <2>2. file[pos + 1].kind = "bare"
    BY <1>4 DEF Database!ReferenceMalformed, Database!Line
  <2>3. pos + 1 \in HeaderPlaces(file)
    BY <1>3, <2>2 DEF HeaderPlaces
  <2>4. n < Len(Heads(file)) /\ Heads(file)[n + 1] = pos + 1
    <3>1. PICK m \in Nat : m = n
      BY <1>2
    <3>2. Len(Met(file, pos)) = m
      BY <2>1, <3>1
    <3>3. m < Len(Heads(file)) /\ Heads(file)[m + 1] = pos + 1 /\ Len(Met(file, pos + 1)) = m + 1
      BY <1>1, <1>3, <2>3, <3>2, HeaderMet
    <3>4. QED
      BY <3>1, <3>3
  <2>5. QED
    BY <2>2, <2>4 DEF Well
<1>5. CASE found
  <2>1. /\ Len(Met(file, pos)) = n + 1
        /\ Reading(file, pos, n + 1, os_name, groups)
    BY <1>1, <1>5 DEF DatabaseInv
  <2>2. /\ file[pos + 1].kind \notin {"blank", "class", "header", "bare"}
        /\ file[pos + 1].kind # "group" \/ \E k \in 1 .. Len(groups) : groups[k] = file[pos + 1].name
    BY <1>5 DEF Database!ReferenceMalformed, Database!Line, Database!IsHeader,
       Database!AcceptableGroup, Database!Contains
  <2>3. pos + 1 \notin HeaderPlaces(file)
    BY <2>2 DEF HeaderPlaces
  <2>4. ~Well(file, n + 1)
    BY <1>1, <1>2, <1>3, <2>1, <2>2, <2>3, ReadingStops
  <2>5. n + 1 <= Len(Heads(file))
    BY <1>1, <1>2, <2>1, HeadOfThis
  <2>6. QED
    BY <1>2, <2>4, <2>5
<1>6. QED
  BY <1>4, <1>5

LEMMA DatabaseSkips ==
  ASSUME DatabaseInv, Database!ReferenceSkip
  PROVE  DatabaseInv'
<1> DEFINE n == Len(entries)
<1>1. /\ phase = "references" /\ pos \in 0 .. Len(file) /\ pos # Len(file)
      /\ file \in Seq(Database!FileLine)
  BY DEF DatabaseInv, Database!ReferenceSkip, Database!InReferences, Database!AtEof
<1>2. Len(file) \in Nat /\ n \in Nat /\ n + 1 > 0 /\ n + 1 \in Nat
  BY DatabaseTypes
<1>3. pos \in Nat /\ pos < Len(file) /\ pos + 1 \in 0 .. Len(file)
  BY <1>1, <1>2
<1>4. pos + 1 \notin HeaderPlaces(file)
  BY DEF Database!ReferenceSkip, Database!IsHeader, Database!Line, HeaderPlaces
<1>5. /\ pos' = pos + 1
      /\ UNCHANGED <<file, phase, found, weights, os_name, groups, entries, failed, status>>
  BY DEF Database!ReferenceSkip, Database!Consume
<1>6. Met(file, pos + 1) = Met(file, pos)
  BY <1>1, <1>3, <1>4, NoHeaderMet
<1>7. ~found => Len(Met(file, pos + 1)) = n /\ groups = <<>>
  BY <1>1, <1>6 DEF DatabaseInv
<1>8. ASSUME found
      PROVE  /\ Len(Met(file, pos + 1)) = n + 1
             /\ Reading(file, pos + 1, n + 1, os_name, groups)
  <2>1. /\ Len(Met(file, pos)) = n + 1
        /\ Reading(file, pos, n + 1, os_name, groups)
    BY <1>1, <1>8 DEF DatabaseInv
  <2>2. file[pos + 1].kind \in {"blank", "class"}
    BY <1>8 DEF Database!ReferenceSkip, Database!Line
  <2>3. QED
    BY <1>1, <1>2, <1>3, <1>4, <2>1, <2>2, ReadingPasses
<1>9. QED
  BY <1>1, <1>3, <1>5, <1>7, <1>8 DEF DatabaseInv

LEMMA DatabaseMeetsHeader ==
  ASSUME DatabaseInv, Database!ReferenceHeader
  PROVE  DatabaseInv'
<1> DEFINE n == Len(entries)
<1>1. /\ phase = "references" /\ pos \in 0 .. Len(file) /\ pos # Len(file)
      /\ file \in Seq(Database!FileLine) /\ ~found
  BY DEF DatabaseInv, Database!ReferenceHeader, Database!InReferences, Database!AtEof
<1>2. Len(file) \in Nat /\ DOMAIN file = 1 .. Len(file) /\ n \in Nat
  BY DatabaseTypes
<1>3. /\ pos \in Nat /\ pos < Len(file) /\ pos + 1 \in 0 .. Len(file)
      /\ pos + 1 \in DOMAIN file
  <2>1. pos \in Nat /\ pos < Len(file) /\ pos + 1 \in 1 .. Len(file)
        /\ pos + 1 \in 0 .. Len(file)
    BY <1>1, <1>2, NextLine
  <2>2. QED
    BY <1>2, <2>1
<1>4. file[pos + 1].kind = "header"
  BY DEF Database!ReferenceHeader, Database!Line
<1>5. pos + 1 \in HeaderPlaces(file)
  BY <1>3, <1>4 DEF HeaderPlaces
<1>6. Len(Met(file, pos)) = n /\ groups = <<>>
  BY <1>1 DEF DatabaseInv
<1>7. /\ Len(Met(file, pos + 1)) = n + 1
      /\ Reading(file, pos + 1, n + 1, <<file[pos + 1].name>>, <<>>)
  BY <1>1, <1>2, <1>3, <1>4, <1>5, <1>6, ReadingStarts
<1>8. /\ pos' = pos + 1 /\ found' /\ os_name' = <<file[pos + 1].name>>
      /\ UNCHANGED <<file, phase, weights, groups, entries, failed, status>>
  BY DEF Database!ReferenceHeader, Database!Consume, Database!Line
<1>9. QED
  BY <1>1, <1>3, <1>6, <1>7, <1>8 DEF DatabaseInv

LEMMA DatabaseGathers ==
  ASSUME DatabaseInv, Database!ReferenceGroup
  PROVE  DatabaseInv'
<1> DEFINE n == Len(entries)
<1>1. /\ phase = "references" /\ pos \in 0 .. Len(file) /\ pos # Len(file)
      /\ file \in Seq(Database!FileLine) /\ found
  BY DEF DatabaseInv, Database!ReferenceGroup, Database!InReferences, Database!AtEof
<1>2. Len(file) \in Nat /\ n \in Nat /\ n + 1 > 0 /\ n + 1 \in Nat
  BY DatabaseTypes
<1>3. pos \in Nat /\ pos < Len(file) /\ pos + 1 \in 0 .. Len(file)
  BY <1>1, <1>2
<1>4. /\ file[pos + 1].kind = "group"
      /\ \A k \in 1 .. Len(groups) : groups[k] # file[pos + 1].name
  BY DEF Database!ReferenceGroup, Database!Line, Database!AcceptableGroup, Database!Contains
<1>5. pos + 1 \notin HeaderPlaces(file)
  BY <1>4 DEF HeaderPlaces
<1>6. /\ Len(Met(file, pos)) = n + 1
      /\ Reading(file, pos, n + 1, os_name, groups)
  BY <1>1 DEF DatabaseInv
<1>7. /\ Len(Met(file, pos + 1)) = n + 1
      /\ Reading(file, pos + 1, n + 1, os_name, Append(groups, file[pos + 1].name))
  BY <1>1, <1>2, <1>3, <1>4, <1>5, <1>6, ReadingGrows
<1>8. /\ pos' = pos + 1 /\ groups' = Append(groups, file[pos + 1].name)
      /\ UNCHANGED <<file, phase, found, weights, os_name, entries, failed, status>>
  BY DEF Database!ReferenceGroup, Database!Consume, Database!Line
<1>9. QED
  BY <1>1, <1>3, <1>7, <1>8 DEF DatabaseInv

LEMMA DatabaseHandsOut ==
  ASSUME DatabaseInv, Database!ReferenceEnd
  PROVE  DatabaseInv'
<1> DEFINE n == Len(entries)
           S == {Handed(file, h) : h \in Nat}
<1>1. /\ phase = "references" /\ pos \in 0 .. Len(file) /\ found
      /\ file \in Seq(Database!FileLine) /\ entries \in Seq(S)
  BY DEF DatabaseInv, Database!ReferenceEnd
<1>2. /\ Len(file) \in Nat /\ DOMAIN file = 1 .. Len(file) /\ n \in Nat /\ n + 1 > 0
      /\ n + 1 \in Nat /\ DOMAIN entries = 1 .. n /\ Len(Heads(file)) \in Nat
  BY DatabaseTypes
<1>3. /\ Len(Met(file, pos)) = n + 1
      /\ Reading(file, pos, n + 1, os_name, groups)
  BY <1>1 DEF DatabaseInv
<1>4. pos = Len(file) \/ pos + 1 \in HeaderPlaces(file)
  <2> SUFFICES ASSUME pos # Len(file) PROVE pos + 1 \in HeaderPlaces(file)
    OBVIOUS
  <2>1. file[pos + 1].kind \in {"header", "bare"}
    BY DEF Database!ReferenceEnd, Database!AtEof, Database!IsHeader, Database!Line
  <2>2. pos + 1 \in 1 .. Len(file)
    BY <1>1, <1>2, NextLine
  <2>3. QED
    BY <1>2, <2>1, <2>2 DEF HeaderPlaces
<1>5. /\ n + 1 <= Len(Heads(file))
      /\ groups = <<>> => ~Well(file, n + 1)
      /\ groups # <<>> => /\ Well(file, n + 1)
                          /\ [name |-> os_name[1], groups |-> groups] = Handed(file, n + 1)
  <2>1. PICK m \in Nat : m = n + 1 /\ m > 0
    BY <1>2
  <2>2. Len(Met(file, pos)) = m /\ Reading(file, pos, m, os_name, groups)
    BY <1>3, <2>1
  <2>3. /\ m <= Len(Heads(file))
        /\ groups = <<>> => ~Well(file, m)
        /\ groups # <<>> => /\ Well(file, m)
                            /\ [name |-> os_name[1], groups |-> groups] = Handed(file, m)
    BY <1>1, <1>4, <2>1, <2>2, ReadingEnds
  <2>4. QED
    BY <2>1, <2>3
<1>6. CASE groups = <<>>
  <2>1. Database!Give(-1) /\ UNCHANGED failed
    BY <1>6 DEF Database!ReferenceEnd
  <2>2. QED
    BY <1>2, <1>5, <1>6, <2>1, GivesUp
<1>7. CASE groups # <<>>
  <2> DEFINE e == Handed(file, n + 1)
  <2>1. /\ entries' = Append(entries, e) /\ pos' = pos /\ ~found' /\ groups' = <<>>
        /\ UNCHANGED <<file, phase, weights, failed>>
    BY <1>5, <1>7 DEF Database!ReferenceEnd, Database!pos_after_entry
  <2>2. e \in S
    BY <1>2
  <2>3. /\ Append(entries, e) \in Seq(S) /\ Len(Append(entries, e)) = n + 1
        /\ DOMAIN Append(entries, e) = 1 .. n + 1
        /\ \A h \in 1 .. n : Append(entries, e)[h] = entries[h]
        /\ Append(entries, e)[n + 1] = e
    BY <1>1, <2>2, AppendProperties, LenProperties
  <2>4. ASSUME NEW h \in 1 .. n + 1
        PROVE  Well(file, h) /\ Append(entries, e)[h] = Handed(file, h)
    <3>1. CASE h = n + 1
      BY <1>5, <1>7, <2>3, <3>1
    <3>2. CASE h # n + 1
      <4>1. h \in 1 .. n
        BY <1>2, <3>2
      <4>2. Well(file, h) /\ entries[h] = Handed(file, h)
        BY <1>2, <4>1 DEF DatabaseInv
      <4>3. QED
        BY <2>3, <4>1, <4>2
    <3>3. QED
      BY <3>1, <3>2
  <2> HIDE DEF e
  <2>5. QED
    BY <1>1, <1>3, <1>5, <2>1, <2>3, <2>4 DEF DatabaseInv
<1>8. QED
  BY <1>6, <1>7

LEMMA DatabaseKept ==
  ASSUME DatabaseInv, [Database!Next]_(Database!vars)
  PROVE  DatabaseInv'
<1>1. CASE Database!Fails
  <2>1. Database!Give(-1) /\ failed'
    BY <1>1 DEF Database!Fails
  <2>2. QED
    BY <2>1, GivesUp
<1>2. CASE Database!WeightsSkip
  BY <1>2 DEF Database!WeightsSkip, Database!InWeights, DatabaseInv
<1>3. CASE Database!WeightsBegin
  BY <1>3 DEF Database!WeightsBegin, Database!InWeights, DatabaseInv
<1>4. CASE Database!WeightsGroup
  BY <1>4 DEF Database!WeightsGroup, Database!InWeights, DatabaseInv
<1>5. CASE Database!WeightsMalformed
  <2>1. Database!Give(-1) /\ phase = "weights"
    BY <1>5 DEF Database!WeightsMalformed, Database!InWeights
  <2>2. QED
    BY <2>1, GivesUp
<1>6. CASE Database!WeightsEnd
  <2>1. CASE weights = <<>>
    <3>1. Database!Give(-1) /\ phase = "weights"
      BY <1>6, <2>1 DEF Database!WeightsEnd
    <3>2. QED
      BY <3>1, GivesUp
  <2>2. CASE weights # <<>>
    BY <1>6, <2>2 DEF Database!WeightsEnd, DatabaseInv
  <2>3. QED
    BY <2>1, <2>2
<1>7. CASE Database!Rewind
  <2>1. Len(file) \in Nat /\ file \in Seq(Database!FileLine)
    BY DatabaseTypes DEF DatabaseInv
  <2>2. Met(file, 0) = <<>> /\ 0 \in 0 .. Len(file)
    BY <2>1, MetSteps
  <2>3. QED
    BY <1>7, <2>2 DEF Database!Rewind, DatabaseInv
<1>8. CASE Database!ReferenceSkip
  BY <1>8, DatabaseSkips
<1>9. CASE Database!ReferenceHeader
  BY <1>9, DatabaseMeetsHeader
<1>10. CASE Database!ReferenceGroup
  BY <1>10, DatabaseGathers
<1>11. CASE Database!ReferenceMalformed
  <2>1. Database!Give(-1) /\ UNCHANGED failed
    BY <1>11 DEF Database!ReferenceMalformed
  <2>2. QED
    BY <1>11, <2>1, MalformedReference, GivesUp
<1>12. CASE Database!ReferenceEnd
  BY <1>12, DatabaseHandsOut
<1>13. CASE Database!NoMoreReferences
  <2>1. Database!Give(0) /\ phase = "references" /\ pos = Len(file) /\ ~found
    BY <1>13 DEF Database!NoMoreReferences, Database!AtEof
  <2>2. Len(entries) = Len(Heads(file))
    BY <2>1 DEF DatabaseInv, Heads, AllMarks, Met
  <2>3. QED
    BY <2>1, <2>2, GivesUp
<1>14. CASE UNCHANGED Database!vars
  BY <1>14 DEF Database!vars, DatabaseInv
<1>15. QED
  BY <1>1, <1>2, <1>3, <1>4, <1>5, <1>6, <1>7, <1>8, <1>9, <1>10, <1>11, <1>12, <1>13, <1>14
     DEF Database!Next

(* What the file says at once is what its headers and lines say.           *)
LEMMA FileRead ==
  ASSUME file \in Seq(Database!FileLine)
  PROVE  /\ Database!Headers = Heads(file)
         /\ \A h : /\ Database!LinesOf(h) = Gathered(file, h, Len(file))
                   /\ Database!EntryOf(h) = Handed(file, h)
                   /\ Database!WellFormed(h) = Well(file, h)
<1>1. Len(file) \in Nat /\ HeaderPlaces(file) \in SUBSET (1 .. Len(file))
  BY PlacesAreSeq
<1>2. \A s, chosen : Database!Selected(s, chosen) = Selected(s, chosen)
  BY DEF Database!Selected, Selected
<1>3. Database!Headers = Heads(file)
  <2>1. Database!Headers = Places(HeaderPlaces(file), Len(file))
    BY <1>2 DEF Database!Headers, Database!Places, Places, HeaderPlaces
  <2>2. QED
    BY <1>1, <2>1, PlacesAreMarks DEF Heads
<1>4. ASSUME NEW h PROVE Database!LinesOf(h) = Gathered(file, h, Len(file))
  <2>1. Database!NextHeader(h) = Until(file, h)
    BY <1>3 DEF Database!NextHeader, Until, MarkAfter, Heads
  <2>2. Database!LinesOf(h) = Selected(file, Own(file, h))
    BY <1>2, <1>3, <2>1 DEF Database!LinesOf, Own
  <2>3. QED
    BY <2>2, SelectedIsCollected DEF Gathered
<1>5. ASSUME NEW h
      PROVE  /\ Database!EntryOf(h) = Handed(file, h)
             /\ Database!WellFormed(h) = Well(file, h)
  <2>1. Database!LinesOf(h) = Gathered(file, h, Len(file))
    BY <1>4
  <2>2. Database!EntryOf(h) = Handed(file, h)
    BY <1>3, <2>1 DEF Database!EntryOf, Handed, NamesOf
  <2>3. Database!WellFormed(h) = Well(file, h)
    BY <1>3, <2>1, <2>2 DEF Database!WellFormed, Well, Handed, Database!IsInjective, IsInjective
  <2>4. QED
    BY <2>2, <2>3
<1>6. QED
  BY <1>3, <1>4, <1>5

LEMMA DatabaseReadInOrder == DatabaseInv => Database!ReadsReferencesInOrder
<1> SUFFICES ASSUME DatabaseInv PROVE Database!ReadsReferencesInOrder
  OBVIOUS
<1>1. file \in Seq(Database!FileLine)
  BY DEF DatabaseInv
<1>2. /\ Database!Headers = Heads(file)
      /\ \A h : Database!EntryOf(h) = Handed(file, h) /\ Database!WellFormed(h) = Well(file, h)
  BY <1>1, FileRead
<1>3. QED
  BY <1>2 DEF DatabaseInv, Database!ReadsReferencesInOrder

-----------------------------------------------------------------------------
(* The first of some places at or after k, or n + 1.                       *)
FirstAmong(f, n, k, W) ==
  /\ f \in Nat /\ f <= n + 1
  /\ f <= n => k <= f /\ f \in W
  /\ \A m \in k .. n : m < f => m \notin W

LEMMA LeastIsFirst ==
  ASSUME NEW n \in Nat, NEW k \in Nat, k > 0, NEW W
  PROVE  FirstAmong(LeastOf({m \in k .. n : m \in W}, n + 1), n, k, W)
<1> DEFINE V == {m \in k .. n : m \in W}
<1>1. CASE V = {}
  BY <1>1 DEF LeastOf, FirstAmong
<1>2. CASE V # {}
  <2>1. V \in SUBSET Nat
    OBVIOUS
  <2>2. \E m \in V : \A x \in V : m <= x
    BY <1>2, <2>1, SmallestMember
  <2> DEFINE least == CHOOSE m \in V : \A x \in V : m <= x
  <2>3. least \in V /\ \A x \in V : least <= x
    BY <2>2
  <2>4. LeastOf(V, n + 1) = least
    BY <1>2 DEF LeastOf
  <2> HIDE DEF least
  <2>5. FirstAmong(least, n, k, W)
    BY <2>3 DEF FirstAmong
  <2>6. QED
    BY <2>4, <2>5
<1>3. QED
  BY <1>1, <1>2

LEMMA OneFirst ==
  ASSUME NEW n \in Nat, NEW k \in Nat, NEW W, NEW f, NEW g,
         FirstAmong(f, n, k, W), FirstAmong(g, n, k, W)
  PROVE  f = g
BY DEF FirstAmong

(* The symbols of a text that are among some, and those that are visible.  *)
Shows(t, S)  == {m \in 1 .. Len(t) : t[m] \in S}
Visible(t)   == {m \in 1 .. Len(t) : t[m] # BLANK}

LEMMA FirstOfIsFirst ==
  ASSUME NEW R, NEW t \in Seq(R), NEW S, NEW k \in Nat, k > 0
  PROVE  FirstAmong(FirstOf(t, S, k), Len(t), k, Shows(t, S))
<1>1. Len(t) \in Nat
  BY LenProperties
<1>2. {m \in k .. Len(t) : t[m] \in S} = {m \in k .. Len(t) : m \in Shows(t, S)}
  BY <1>1 DEF Shows
<1>3. QED
  BY <1>1, <1>2, LeastIsFirst DEF FirstOf

LEMMA SkipBlanksIsFirst ==
  ASSUME NEW R, NEW t \in Seq(R), NEW k \in Nat, k > 0
  PROVE  FirstAmong(SkipBlanks(t, k), Len(t), k, Visible(t))
<1>1. Len(t) \in Nat
  BY LenProperties
<1>2. {m \in k .. Len(t) : t[m] # BLANK} = {m \in k .. Len(t) : m \in Visible(t)}
  BY <1>1 DEF Visible
<1>3. QED
  BY <1>1, <1>2, LeastIsFirst DEF SkipBlanks

(* The same, as what the scan sees.                                        *)
LEMMA FirstOfSees ==
  ASSUME NEW R, NEW t \in Seq(R), NEW S, NEW k \in Nat, k > 0
  PROVE  /\ FirstOf(t, S, k) \in Nat /\ FirstOf(t, S, k) <= Len(t) + 1
         /\ FirstOf(t, S, k) <= Len(t) => k <= FirstOf(t, S, k) /\ t[FirstOf(t, S, k)] \in S
         /\ k <= Len(t) + 1 => k <= FirstOf(t, S, k)
         /\ \A m \in k .. Len(t) : m < FirstOf(t, S, k) => t[m] \notin S
<1>1. FirstAmong(FirstOf(t, S, k), Len(t), k, Shows(t, S)) /\ Len(t) \in Nat
  BY FirstOfIsFirst, LenProperties
<1> HIDE DEF FirstOf
<1>2. QED
  BY <1>1 DEF FirstAmong, Shows

LEMMA FirstOfIs ==
  ASSUME NEW R, NEW t \in Seq(R), NEW S, NEW k \in Nat, k > 0, NEW f \in Nat,
         f <= Len(t) + 1, f <= Len(t) => k <= f /\ t[f] \in S,
         \A m \in k .. Len(t) : m < f => t[m] \notin S
  PROVE  FirstOf(t, S, k) = f
<1>1. Len(t) \in Nat
  BY LenProperties
<1>2. FirstAmong(f, Len(t), k, Shows(t, S))
  BY <1>1 DEF FirstAmong, Shows
<1>3. FirstAmong(FirstOf(t, S, k), Len(t), k, Shows(t, S))
  BY FirstOfIsFirst
<1>4. QED
  BY <1>1, <1>2, <1>3, OneFirst

LEMMA SkipBlanksSees ==
  ASSUME NEW R, NEW t \in Seq(R), NEW k \in Nat, k > 0
  PROVE  /\ SkipBlanks(t, k) \in Nat /\ SkipBlanks(t, k) <= Len(t) + 1
         /\ SkipBlanks(t, k) <= Len(t) => k <= SkipBlanks(t, k) /\ t[SkipBlanks(t, k)] # BLANK
         /\ k <= Len(t) + 1 => k <= SkipBlanks(t, k)
         /\ \A m \in k .. Len(t) : m < SkipBlanks(t, k) => t[m] = BLANK
<1>1. FirstAmong(SkipBlanks(t, k), Len(t), k, Visible(t)) /\ Len(t) \in Nat
  BY SkipBlanksIsFirst, LenProperties
<1>2. QED
  BY <1>1 DEF FirstAmong, Visible

LEMMA SkipBlanksIs ==
  ASSUME NEW R, NEW t \in Seq(R), NEW k \in Nat, k > 0, NEW f \in Nat,
         f <= Len(t) + 1, f <= Len(t) => k <= f /\ t[f] # BLANK,
         \A m \in k .. Len(t) : m < f => t[m] = BLANK
  PROVE  SkipBlanks(t, k) = f
<1>1. Len(t) \in Nat
  BY LenProperties
<1>2. FirstAmong(f, Len(t), k, Visible(t))
  BY <1>1 DEF FirstAmong, Visible
<1>3. FirstAmong(SkipBlanks(t, k), Len(t), k, Visible(t))
  BY SkipBlanksIsFirst
<1>4. QED
  BY <1>1, <1>2, <1>3, OneFirst

-----------------------------------------------------------------------------
(* A piece of a text.                                                      *)

LEMMA PieceOfText ==
  ASSUME NEW R, NEW t \in Seq(R), NEW a \in 1 .. Len(t) + 1, NEW b \in a - 1 .. Len(t)
  PROVE  /\ SubSeq(t, a, b) \in Seq(R) /\ Len(SubSeq(t, a, b)) = b - a + 1
         /\ DOMAIN SubSeq(t, a, b) = 1 .. b - a + 1
         /\ \A i \in 1 .. b - a + 1 : SubSeq(t, a, b)[i] = t[a + i - 1]
<1>1. Len(t) \in Nat /\ DOMAIN t = 1 .. Len(t)
  BY LenProperties
<1>2. a \in Int /\ b \in Int /\ a >= 1 /\ b <= Len(t) /\ b >= a - 1
  BY <1>1
<1>3. \A i \in a .. b : t[i] \in R
  <2>1. \A i \in a .. b : i \in 1 .. Len(t)
    BY <1>1, <1>2
  <2>2. \A i \in 1 .. Len(t) : t[i] \in R
    BY ElementOfSeq
  <2>3. QED
    BY <2>1, <2>2
<1>4. /\ SubSeq(t, a, b) \in Seq(R)
      /\ Len(SubSeq(t, a, b)) = IF a <= b THEN b - a + 1 ELSE 0
      /\ \A i \in 1 .. b - a + 1 : SubSeq(t, a, b)[i] = t[a + i - 1]
  BY <1>2, <1>3, SubSeqProperties
<1>5. Len(SubSeq(t, a, b)) = b - a + 1
  BY <1>2, <1>4
<1>6. DOMAIN SubSeq(t, a, b) = 1 .. b - a + 1
  BY <1>4, <1>5, LenProperties
<1>7. QED
  BY <1>4, <1>5, <1>6

LEMMA PieceOfPiece ==
  ASSUME NEW R, NEW t \in Seq(R), NEW a \in 1 .. Len(t) + 1, NEW b \in a - 1 .. Len(t),
         NEW i \in 1 .. (b - a + 1) + 1, NEW j \in i - 1 .. b - a + 1
  PROVE  SubSeq(SubSeq(t, a, b), i, j) = SubSeq(t, a + i - 1, a + j - 1)
<1>1. Len(t) \in Nat /\ a \in Int /\ b \in Int /\ i \in Int /\ j \in Int
  BY LenProperties
<1>2. CASE j < i
  <2>1. SubSeq(SubSeq(t, a, b), i, j) = <<>>
    BY <1>1, <1>2, SubSeqEmpty
  <2>2. SubSeq(t, a + i - 1, a + j - 1) = <<>>
    <3>1. PICK x \in Int, y \in Int : x = a + i - 1 /\ y = a + j - 1 /\ y < x
      BY <1>1, <1>2
    <3>2. QED
      BY <3>1, SubSeqEmpty
  <2>3. QED
    BY <2>1, <2>2
<1>3. CASE j >= i
  <2>1. /\ a \in 1 .. Len(t) /\ b \in 1 .. Len(t)
        /\ i \in 1 .. b - a + 1 /\ j \in 1 .. b - a + 1
    BY <1>1, <1>3
  <2>2. QED
    BY <2>1, SubSeqOfSubSeq
<1>4. QED
  BY <1>1, <1>2, <1>3

LEMMA SymbolsOfPiece ==
  ASSUME NEW R, NEW t \in Seq(R), NEW a \in 1 .. Len(t) + 1, NEW b \in a - 1 .. Len(t)
  PROVE  \A s : s \in Symbols(SubSeq(t, a, b)) <=> \E k \in a .. b : t[k] = s
<1> DEFINE c == SubSeq(t, a, b)
<1>1. DOMAIN c = 1 .. b - a + 1 /\ \A i \in 1 .. b - a + 1 : c[i] = t[a + i - 1]
  BY PieceOfText
<1>2. Len(t) \in Nat /\ a \in Int /\ b \in Int
  BY LenProperties
<1> HIDE DEF c
<1>3. ASSUME NEW s, s \in Symbols(c) PROVE \E k \in a .. b : t[k] = s
  <2>1. PICK i \in 1 .. b - a + 1 : c[i] = s
    BY <1>1, <1>3 DEF Symbols
  <2>2. a + i - 1 \in a .. b /\ t[a + i - 1] = s
    BY <1>1, <1>2, <2>1
  <2>3. QED
    BY <2>2
<1>4. ASSUME NEW s, NEW k \in a .. b, t[k] = s PROVE s \in Symbols(c)
  <2>1. PICK i \in 1 .. b - a + 1 : a + i - 1 = k
    <3>1. k - a + 1 \in 1 .. b - a + 1 /\ a + (k - a + 1) - 1 = k
      BY <1>2
    <3>2. QED
      BY <3>1
  <2>2. c[i] = s
    BY <1>1, <1>4, <2>1
  <2>3. QED
    BY <1>1, <2>2 DEF Symbols
<1>5. QED
  BY <1>3, <1>4 DEF c

LEMMA BlankPiece ==
  ASSUME NEW R, NEW t \in Seq(R), NEW a \in 1 .. Len(t) + 1, NEW b \in a - 1 .. Len(t)
  PROVE  IsBlank(SubSeq(t, a, b)) <=> \A k \in a .. b : t[k] = BLANK
<1>1. \A s : s \in Symbols(SubSeq(t, a, b)) <=> \E k \in a .. b : t[k] = s
  BY SymbolsOfPiece
<1> HIDE DEF Symbols
<1>2. QED
  BY <1>1 DEF IsBlank

(* What is left of a piece without the blanks at its ends.                 *)
LEMMA TrimIsBlank ==
  ASSUME NEW R, NEW t \in Seq(R), NEW a \in 1 .. Len(t) + 1, NEW b \in a - 1 .. Len(t),
         \A k \in a .. b : t[k] = BLANK
  PROVE  Trim(SubSeq(t, a, b)) = <<>>
<1> DEFINE c == SubSeq(t, a, b)
<1>1. DOMAIN c = 1 .. b - a + 1 /\ \A i \in 1 .. b - a + 1 : c[i] = t[a + i - 1]
  BY PieceOfText
<1>2. Len(t) \in Nat /\ a \in Int /\ b \in Int
  BY LenProperties
<1> HIDE DEF c
<1>3. ASSUME NEW k \in DOMAIN c PROVE c[k] = BLANK
  <2>1. a + k - 1 \in a .. b
    BY <1>1, <1>2
  <2>2. QED
    BY <1>1, <2>1
<1>4. {k \in DOMAIN c : c[k] # BLANK} = {}
  BY <1>3
<1>5. Trim(c) = <<>>
  BY <1>4 DEF Trim
<1>6. QED
  BY <1>5 DEF c

LEMMA TrimIs ==
  ASSUME NEW R, NEW t \in Seq(R), NEW a \in 1 .. Len(t) + 1, NEW b \in a - 1 .. Len(t),
         NEW p \in a .. b, NEW q \in p .. b, t[p] # BLANK, t[q] # BLANK,
         \A k \in a .. p - 1 : t[k] = BLANK, \A k \in q + 1 .. b : t[k] = BLANK
  PROVE  Trim(SubSeq(t, a, b)) = SubSeq(t, p, q)
<1> DEFINE c == SubSeq(t, a, b)
           n == b - a + 1
           v == {k \in DOMAIN c : c[k] # BLANK}
<1>1. /\ c \in Seq(R) /\ Len(c) = n
      /\ DOMAIN c = 1 .. n /\ \A i \in 1 .. n : c[i] = t[a + i - 1]
  BY PieceOfText
<1>2. /\ Len(t) \in Nat /\ a \in Int /\ b \in Int /\ p \in Int /\ q \in Int /\ n \in Int
      /\ a >= 1 /\ b <= Len(t) /\ a <= p /\ p <= q /\ q <= b
  BY LenProperties
<1>3. PICK i \in 1 .. n : a + i - 1 = p
  <2>1. p - a + 1 \in 1 .. n /\ a + (p - a + 1) - 1 = p
    BY <1>2
  <2>2. QED
    BY <2>1
<1>4. PICK j \in 1 .. n : a + j - 1 = q
  <2>1. q - a + 1 \in 1 .. n /\ a + (q - a + 1) - 1 = q
    BY <1>2
  <2>2. QED
    BY <2>1
<1> HIDE DEF c
<1>5. i \in v /\ j \in v /\ i <= j
  <2>1. c[i] = t[p] /\ c[j] = t[q]
    BY <1>1, <1>3, <1>4
  <2>2. i \in DOMAIN c /\ j \in DOMAIN c
    BY <1>1
  <2>3. i <= j
    BY <1>2, <1>3, <1>4
  <2>4. QED
    BY <2>1, <2>2, <2>3
<1>6. ASSUME NEW k \in 1 .. n, k < i PROVE c[k] = BLANK
  <2>1. a + k - 1 \in a .. p - 1
    BY <1>2, <1>3, <1>6
  <2>2. QED
    BY <1>1, <2>1
<1>7. ASSUME NEW k \in v PROVE k <= j
  <2>1. SUFFICES ASSUME k > j PROVE FALSE
    BY <1>1, <1>4
  <2>2. a + k - 1 \in q + 1 .. b
    BY <1>1, <1>2, <1>4, <2>1
  <2>3. QED
    BY <1>1, <2>2
<1>8. SkipBlanks(c, 1) = i
  <2>1. i \in Nat /\ i <= Len(c) + 1 /\ (i <= Len(c) => 1 <= i /\ c[i] # BLANK)
    BY <1>1, <1>2, <1>5
  <2>2. \A m \in 1 .. Len(c) : m < i => c[m] = BLANK
    BY <1>1, <1>6
  <2>3. PICK k \in Nat : k = 1 /\ k > 0
    OBVIOUS
  <2>4. SkipBlanks(c, k) = i
    <3>1. \A m \in k .. Len(c) : m < i => c[m] = BLANK
      BY <2>2, <2>3
    <3>2. i <= Len(c) => k <= i /\ c[i] # BLANK
      BY <2>1, <2>3
    <3> HIDE DEF v, n
    <3>3. QED
      BY <1>1, <2>1, <2>3, <3>1, <3>2, SkipBlanksIs
  <2>5. QED
    BY <2>3, <2>4
<1> DEFINE last == CHOOSE k \in v : \A x \in v : x <= k
<1>9. last = j
  <2>1. last \in v /\ \A x \in v : x <= last
    BY <1>5, <1>7
  <2>2. last <= j /\ j <= last /\ last \in 1 .. n
    BY <1>1, <1>5, <1>7, <2>1
  <2>3. QED
    BY <1>4, <2>2
<1>10. Trim(c) = SubSeq(c, SkipBlanks(c, 1), last)
  <2>1. v # {}
    BY <1>5
  <2>2. QED
    BY <2>1 DEF Trim
<1> HIDE DEF last
<1>11. SubSeq(c, i, j) = SubSeq(t, p, q)
  <2>1. i \in 1 .. n + 1 /\ j \in i - 1 .. n
    BY <1>2, <1>5
  <2>2. SubSeq(SubSeq(t, a, b), i, j) = SubSeq(t, a + i - 1, a + j - 1)
    BY <2>1, PieceOfPiece
  <2>3. QED
    BY <1>3, <1>4, <2>2 DEF c
<1>12. QED
  BY <1>8, <1>9, <1>10, <1>11 DEF c

(* It is the same from its first visible symbol on.                        *)
LEMMA TrimSkips ==
  ASSUME NEW R, NEW t \in Seq(R), NEW a \in 1 .. Len(t) + 1, NEW b \in a - 1 .. Len(t),
         NEW s \in a .. b + 1, \A k \in a .. s - 1 : t[k] = BLANK
  PROVE  Trim(SubSeq(t, a, b)) = Trim(SubSeq(t, s, b))
<1>1. /\ Len(t) \in Nat /\ a \in Int /\ b \in Int /\ s \in 1 .. Len(t) + 1 /\ b \in s - 1 .. Len(t)
      /\ a >= 1 /\ s >= a
  BY LenProperties
<1> DEFINE v == {k \in s .. b : t[k] # BLANK}
<1>2. CASE v = {}
  <2>1. \A k \in s .. b : t[k] = BLANK
    BY <1>2
  <2>2. \A k \in a .. b : t[k] = BLANK
    BY <1>1, <2>1
  <2>3. QED
    BY <1>1, <2>1, <2>2, TrimIsBlank
<1>3. CASE v # {}
  <2>1. PICK p \in v : \A k \in v : p <= k
    <3>1. v \subseteq Nat
      BY <1>1
    <3>2. QED
      BY <1>3, <3>1, SmallestMember
  <2>2. PICK q \in v : \A k \in v : k <= q
    <3>1. v \subseteq 0 .. Len(t) /\ Len(t) \in Nat
      BY <1>1
    <3>2. QED
      BY <1>3, <3>1, LargestMember
  <2>3. p \in s .. b /\ q \in s .. b /\ p <= q /\ t[p] # BLANK /\ t[q] # BLANK
    BY <2>1, <2>2
  <2>4. \A k \in s .. p - 1 : t[k] = BLANK
    BY <1>1, <2>1, <2>3
  <2>5. \A k \in q + 1 .. b : t[k] = BLANK
    BY <1>1, <2>2, <2>3
  <2>6. \A k \in a .. p - 1 : t[k] = BLANK
    BY <1>1, <2>3, <2>4
  <2> HIDE DEF v
  <2>7. p \in a .. b /\ q \in p .. b
    BY <1>1, <2>3
  <2>8. Trim(SubSeq(t, s, b)) = SubSeq(t, p, q)
    BY <1>1, <2>3, <2>4, <2>5, <2>7, TrimIs
  <2>9. Trim(SubSeq(t, a, b)) = SubSeq(t, p, q)
    BY <1>1, <2>3, <2>5, <2>6, <2>7, TrimIs
  <2>10. QED
    BY <2>8, <2>9
<1>4. QED
  BY <1>2, <1>3

(* A field in its piece.                                                   *)
LEMMA FieldOfPiece ==
  ASSUME NEW R, NEW t \in Seq(R), NEW a \in 1 .. Len(t) + 1, NEW b \in a - 1 .. Len(t),
         NEW e \in a .. b, t[e] = "=", \A k \in a .. e - 1 : t[k] # "="
  PROVE  /\ FieldName(SubSeq(t, a, b)) = Trim(SubSeq(t, a, e - 1))
         /\ FieldValue(SubSeq(t, a, b)) = Trim(SubSeq(t, e + 1, b))
<1> DEFINE c == SubSeq(t, a, b)
           n == b - a + 1
<1>1. /\ c \in Seq(R) /\ Len(c) = n
      /\ DOMAIN c = 1 .. n /\ \A i \in 1 .. n : c[i] = t[a + i - 1]
  BY PieceOfText
<1>2. /\ Len(t) \in Nat /\ a \in Int /\ b \in Int /\ e \in Int /\ n \in Int
      /\ a >= 1 /\ b <= Len(t) /\ a <= e /\ e <= b
  BY LenProperties
<1>3. PICK f \in 1 .. n : a + f - 1 = e
  <2>1. e - a + 1 \in 1 .. n /\ a + (e - a + 1) - 1 = e
    BY <1>2
  <2>2. QED
    BY <2>1
<1> HIDE DEF c
<1>4. ASSUME NEW m \in 1 .. n, m < f PROVE c[m] # "="
  <2>1. a + m - 1 \in a .. e - 1
    BY <1>2, <1>3, <1>4
  <2>2. QED
    BY <1>1, <2>1
<1>5. FirstOf(c, {"="}, 1) = f
  <2>1. f \in Nat /\ f <= Len(c) + 1 /\ 1 <= f
    BY <1>1, <1>2
  <2>2. \A m \in 1 .. Len(c) : m < f => c[m] \notin {"="}
    BY <1>1, <1>4
  <2>3. PICK k \in Nat : k = 1 /\ k > 0
    OBVIOUS
  <2>4. c[f] \in {"="}
    <3>1. c[f] = t[e]
      BY <1>1, <1>3
    <3>2. QED
      BY <3>1
  <2>5. FirstOf(c, {"="}, k) = f
    <3>1. \A m \in k .. Len(c) : m < f => c[m] \notin {"="}
      BY <2>2, <2>3
    <3>2. f <= Len(c) => k <= f /\ c[f] \in {"="}
      BY <2>1, <2>3, <2>4
    <3> HIDE DEF n
    <3>3. QED
      BY <1>1, <2>1, <2>3, <3>1, <3>2, FirstOfIs
  <2>6. QED
    BY <2>3, <2>5
<1>6. SubSeq(c, 1, f - 1) = SubSeq(t, a, e - 1)
  <2>1. 1 \in 1 .. n + 1 /\ f - 1 \in 1 - 1 .. n
    BY <1>2, <1>3
  <2>2. SubSeq(SubSeq(t, a, b), 1, f - 1) = SubSeq(t, a + 1 - 1, a + (f - 1) - 1)
    BY <2>1, PieceOfPiece
  <2>3. a + 1 - 1 = a /\ a + (f - 1) - 1 = e - 1
    BY <1>2, <1>3
  <2>4. QED
    BY <2>2, <2>3 DEF c
<1>7. SubSeq(c, f + 1, Len(c)) = SubSeq(t, e + 1, b)
  <2>1. f + 1 \in 1 .. n + 1 /\ n \in (f + 1) - 1 .. n
    BY <1>2, <1>3
  <2>2. SubSeq(SubSeq(t, a, b), f + 1, n) = SubSeq(t, a + (f + 1) - 1, a + n - 1)
    BY <2>1, PieceOfPiece
  <2>3. a + (f + 1) - 1 = e + 1 /\ a + n - 1 = b
    BY <1>2, <1>3
  <2>4. QED
    BY <1>1, <2>2, <2>3 DEF c
<1>8. QED
  BY <1>5, <1>6, <1>7 DEF FieldName, FieldValue, c

-----------------------------------------------------------------------------
(* The parts between the "%" signs of the n symbols behind place o.        *)
Signs(t, o, n)   == {k \in 1 .. n : t[o + k] = "%"}
Edge(t, o, n, m) == IF m = 0 THEN 0 ELSE MarkAfter(n, Signs(t, o, n), m - 1)
PartAt(t, o, n, m) == SubSeq(t, o + Edge(t, o, n, m - 1) + 1, o + Edge(t, o, n, m) - 1)
PartCount(t, o, n) == Len(AllMarks(n, Signs(t, o, n))) + 1

LEMMA EdgesInOrder ==
  ASSUME NEW t, NEW o, NEW n \in Nat
  PROVE  /\ PartCount(t, o, n) \in Nat /\ PartCount(t, o, n) > 0
         /\ \A m \in Nat : m < PartCount(t, o, n) =>
              /\ Edge(t, o, n, m) \in 0 .. n
              /\ Len(Marks(n, Signs(t, o, n), Edge(t, o, n, m))) = m
<1> DEFINE S == Signs(t, o, n)
           E(m) == Edge(t, o, n, m)
           P == PartCount(t, o, n)
           T == {m \in Nat : m < P => E(m) \in 0 .. n /\ Len(Marks(n, S, E(m))) = m}
<1>1. S \in SUBSET (1 .. n)
  BY DEF Signs
<1>2. P = Len(AllMarks(n, S)) + 1 /\ E(0) = 0
  BY DEF PartCount, Edge
<1>3. ASSUME NEW m \in Nat PROVE E(m + 1) = MarkAfter(n, S, m)
  BY DEF Edge
<1>4. n \in Nat /\ 0 \in 0 .. n /\ n \in 0 .. n
  OBVIOUS
<1> HIDE DEF S, E, P
<1>5. Marks(n, S, 0) = <<>> /\ Len(AllMarks(n, S)) \in Nat
  BY <1>1, MarksSteps DEF AllMarks
<1>6. 0 \in T
  BY <1>2, <1>4, <1>5
<1>7. ASSUME NEW m \in Nat, m \in T PROVE m + 1 \in T
  <2>1. SUFFICES ASSUME m + 1 < P
                 PROVE  E(m + 1) \in 0 .. n /\ Len(Marks(n, S, E(m + 1))) = m + 1
    OBVIOUS
  <2>2. E(m) \in 0 .. n /\ Len(Marks(n, S, E(m))) = m
    BY <1>2, <1>5, <1>7, <2>1
  <2>3. PICK k \in 0 .. n : k = E(m)
    BY <2>2
  <2>4. PICK x : x = MarkAfter(n, S, m)
    OBVIOUS
  <2>5. /\ x \in k + 1 .. n + 1
        /\ x <= n => /\ x \in S
                     /\ Len(Marks(n, S, x)) = m + 1
                     /\ m < Len(AllMarks(n, S))
        /\ x = n + 1 => Len(AllMarks(n, S)) = m
    <3>1. Len(Marks(n, S, k)) = m
      BY <2>2, <2>3
    <3>2. IsNextMark(n, S, k, m, MarkAfter(n, S, m))
      BY <1>1, <3>1, NextMark
    <3>3. QED
      BY <2>4, <3>2 DEF IsNextMark
  <2>6. x # n + 1
    BY <1>2, <1>5, <2>1, <2>5
  <2>7. x <= n /\ x \in 0 .. n
    BY <2>3, <2>5, <2>6
  <2>8. QED
    BY <1>3, <2>4, <2>5, <2>7
<1> HIDE DEF T
<1>8. \A m \in Nat : m \in T
  BY <1>6, <1>7, Induction
<1>9. QED
  BY <1>2, <1>5, <1>8 DEF T, S, E, P

(* The part behind edge m ends at the next edge, which is a "%" unless the *)
(* part is the last one.                                                   *)
LEMMA NextEdge ==
  ASSUME NEW t, NEW o, NEW n \in Nat, NEW m \in Nat, m < PartCount(t, o, n)
  PROVE  /\ Edge(t, o, n, m) \in 0 .. n
         /\ Edge(t, o, n, m + 1) \in Edge(t, o, n, m) + 1 .. n + 1
         /\ \A j \in Edge(t, o, n, m) + 1 .. Edge(t, o, n, m + 1) - 1 : t[o + j] # "%"
         /\ Edge(t, o, n, m + 1) <= n =>
              t[o + Edge(t, o, n, m + 1)] = "%" /\ m + 1 < PartCount(t, o, n)
         /\ Edge(t, o, n, m + 1) = n + 1 => PartCount(t, o, n) = m + 1
<1> DEFINE S == Signs(t, o, n)
<1>1. S \in SUBSET (1 .. n) /\ \A k \in 1 .. n : k \in S <=> t[o + k] = "%"
  BY DEF Signs
<1>2. PICK k \in 0 .. n : k = Edge(t, o, n, m) /\ Len(Marks(n, S, k)) = m
  BY EdgesInOrder
<1>3. PICK x : x = MarkAfter(n, S, m)
  OBVIOUS
<1>4. x = Edge(t, o, n, m + 1)
  BY <1>3 DEF Edge
<1>5. PartCount(t, o, n) = Len(AllMarks(n, S)) + 1
  BY DEF PartCount
<1>6. Len(AllMarks(n, S)) \in Nat
  BY <1>1, MarksSteps DEF AllMarks
<1> HIDE DEF S
<1>7. /\ x \in k + 1 .. n + 1
      /\ \A j \in k + 1 .. x - 1 : j \notin S
      /\ x <= n => /\ x \in S
                   /\ Len(Marks(n, S, x)) = m + 1
                   /\ m < Len(AllMarks(n, S))
      /\ x = n + 1 => Len(AllMarks(n, S)) = m
  <2>1. Len(Marks(n, S, k)) = m
    BY <1>2
  <2>2. IsNextMark(n, S, k, m, MarkAfter(n, S, m))
    BY <1>1, <2>1, NextMark
  <2>3. QED
    BY <1>3, <2>2 DEF IsNextMark
<1>8. \A j \in k + 1 .. x - 1 : t[o + j] # "%"
  <2>1. \A j \in k + 1 .. x - 1 : j \in 1 .. n /\ j \notin S
    BY <1>2, <1>7
  <2>2. QED
    BY <1>1, <2>1
<1>9. x <= n => t[o + x] = "%" /\ m + 1 < PartCount(t, o, n)
  BY <1>1, <1>2, <1>5, <1>6, <1>7
<1>10. QED
  BY <1>2, <1>4, <1>5, <1>7, <1>8, <1>9

(* They are the parts of that piece of the text.                           *)
LEMMA PartsOfPiece ==
  ASSUME NEW R, NEW t \in Seq(R), NEW o \in 1 .. Len(t), NEW n \in Nat, o + n <= Len(t)
  PROVE  Parts(SubSeq(t, o + 1, o + n)) = [m \in 1 .. PartCount(t, o, n) |-> PartAt(t, o, n, m)]
<1> DEFINE c == SubSeq(t, o + 1, o + n)
           S == Signs(t, o, n)
           E(m) == Edge(t, o, n, m)
<1>1. Len(t) \in Nat /\ o \in Nat /\ o + 1 \in 1 .. Len(t) + 1 /\ o + n \in (o + 1) - 1 .. Len(t)
  BY LenProperties
<1>2. (o + n) - (o + 1) + 1 = n
  BY <1>1
<1>3. /\ c \in Seq(R) /\ Len(c) = n /\ DOMAIN c = 1 .. n
      /\ \A i \in 1 .. n : c[i] = t[(o + 1) + i - 1]
  BY <1>1, <1>2, PieceOfText
<1>4. \A i \in 1 .. n : c[i] = t[o + i]
  <2>1. \A i \in 1 .. n : (o + 1) + i - 1 = o + i
    BY <1>1
  <2>2. QED
    BY <1>3, <2>1
<1>5. {k \in DOMAIN c : c[k] = "%"} = S
  BY <1>3, <1>4 DEF Signs
<1>6. S \in SUBSET (1 .. n)
  BY DEF Signs
<1> DEFINE all == AllMarks(n, S)
           cut(m) == IF m = 0 THEN 0 ELSE IF m <= Len(all) THEN all[m] ELSE n + 1
<1>7. Len(all) \in Nat /\ Len(all) + 1 = PartCount(t, o, n)
  BY <1>6, MarksSteps DEF AllMarks, PartCount
<1>8. Places(S, n) = all
  BY <1>6, PlacesAreMarks
<1>9. Parts(c) = [m \in 1 .. Len(all) + 1 |-> SubSeq(c, cut(m - 1) + 1, cut(m) - 1)]
  <2>1. Places({k \in DOMAIN c : c[k] = "%"}, Len(c)) = all
    BY <1>3, <1>5, <1>8
  <2> HIDE DEF all, c, S
  <2>2. Parts(c) = LET signs == all
                       edge(m) == IF m = 0 THEN 0
                                  ELSE IF m <= Len(signs) THEN signs[m] ELSE Len(c) + 1
                   IN  [m \in 1 .. Len(signs) + 1 |-> SubSeq(c, edge(m - 1) + 1, edge(m) - 1)]
    BY <2>1 DEF Parts
  <2>3. QED
    BY <1>3, <2>2
<1>10. \A m \in Nat : cut(m) = E(m)
  <2> HIDE DEF S
  <2>1. \A m \in Nat : E(m) = IF m = 0 THEN 0
                              ELSE IF m - 1 < Len(all) THEN all[(m - 1) + 1] ELSE n + 1
    BY DEF Edge, MarkAfter, S
  <2> HIDE DEF all
  <2>2. \A m \in Nat : (m - 1) + 1 = m /\ (m - 1 < Len(all) <=> m <= Len(all))
    BY <1>7
  <2>3. QED
    BY <2>1, <2>2
<1> HIDE DEF all, S, cut, E
<1>11. ASSUME NEW m \in 1 .. PartCount(t, o, n)
       PROVE  SubSeq(c, cut(m - 1) + 1, cut(m) - 1) = PartAt(t, o, n, m)
  <2>1. PICK h \in Nat : m = h + 1 /\ m - 1 = h /\ h < PartCount(t, o, n) /\ m \in Nat
    <3>1. m - 1 \in Nat /\ m = (m - 1) + 1 /\ m - 1 < PartCount(t, o, n) /\ m \in Nat
      BY <1>7
    <3>2. QED
      BY <3>1
  <2>2. E(h) \in 0 .. n /\ E(m) \in E(h) + 1 .. n + 1
    BY <2>1, NextEdge DEF E
  <2>3. cut(h) = E(h) /\ cut(m) = E(m)
    BY <1>10, <2>1
  <2>4. PICK x \in 0 .. n, y \in 0 .. n : x = E(h) /\ y = E(m) - 1 /\ x <= y
    <3>1. E(m) - 1 \in 0 .. n /\ E(h) <= E(m) - 1
      BY <2>2
    <3>2. QED
      BY <2>2, <3>1
  <2>5. SubSeq(SubSeq(t, o + 1, o + n), x + 1, y) = SubSeq(t, (o + 1) + (x + 1) - 1, (o + 1) + y - 1)
    <3>1. x + 1 \in 1 .. ((o + n) - (o + 1) + 1) + 1
          /\ y \in (x + 1) - 1 .. (o + n) - (o + 1) + 1
      BY <1>1, <2>4
    <3>2. QED
      BY <1>1, <3>1, PieceOfPiece
  <2>6. (o + 1) + (x + 1) - 1 = o + x + 1 /\ (o + 1) + y - 1 = o + y
    BY <1>1
  <2>7. PartAt(t, o, n, m) = SubSeq(t, o + x + 1, o + E(m) - 1)
    BY <2>1, <2>4 DEF PartAt, E
  <2>8. o + E(m) - 1 = o + y
    BY <1>1, <2>2, <2>4
  <2>9. SubSeq(c, cut(m - 1) + 1, cut(m) - 1) = SubSeq(c, x + 1, y)
    BY <2>1, <2>3, <2>4
  <2>10. QED
    BY <2>5, <2>6, <2>7, <2>8, <2>9 DEF c
<1>12. QED
  BY <1>7, <1>9, <1>11 DEF c

(* The scan of one field, from place s on.                                 *)
NameEnd(t, s)  == FirstOf(t, {"=", "%", ")"}, s)
ValueEnd(t, s) == FirstOf(t, {"%", ")"}, FirstOf(t, {"="}, s) + 1)
NameAt(t, s)   == Trim(SubSeq(t, s, NameEnd(t, s) - 1))
ValueAt(t, s)  == Trim(SubSeq(t, NameEnd(t, s) + 1, ValueEnd(t, s) - 1))
WellFormed(t, s) ==
  /\ NameEnd(t, s) <= Len(t) /\ t[NameEnd(t, s)] = "="
  /\ NameAt(t, s) # <<>> /\ ValueEnd(t, s) <= Len(t)

IsField(piece) == "=" \in Symbols(piece) /\ FieldName(piece) # <<>>

(* The symbols from a to b are one part, of which the first are blank.     *)
PartFrom(t, a, b, s) ==
  /\ a \in 1 .. Len(t) + 1 /\ b \in a - 1 .. Len(t) /\ s \in a .. b + 1
  /\ \A k \in a .. s - 1 : t[k] = BLANK
  /\ \A k \in a .. b : t[k] # "%" /\ t[k] # ")"
  /\ b + 1 <= Len(t) => t[b + 1] \in {"%", ")"}

LEMMA FieldScanned ==
  ASSUME NEW R, NEW t \in Seq(R), NEW a \in Nat, NEW b \in Nat, NEW s \in Nat, a > 0,
         PartFrom(t, a, b, s), NEW e \in a .. b, t[e] = "=", \A k \in a .. e - 1 : t[k] # "="
  PROVE  /\ NameEnd(t, s) = e /\ ValueEnd(t, s) = b + 1
         /\ NameAt(t, s) = FieldName(SubSeq(t, a, b))
         /\ ValueAt(t, s) = FieldValue(SubSeq(t, a, b))
         /\ "=" \in Symbols(SubSeq(t, a, b))
<1>1. Len(t) \in Nat
  BY LenProperties
<1>2. /\ a \in 1 .. Len(t) + 1 /\ b \in a - 1 .. Len(t) /\ s \in a .. b + 1
      /\ \A k \in a .. s - 1 : t[k] = BLANK
      /\ \A k \in a .. b : t[k] # "%" /\ t[k] # ")"
      /\ b + 1 <= Len(t) => t[b + 1] \in {"%", ")"}
  BY DEF PartFrom
<1>3. e \in Nat /\ a <= e /\ e <= b /\ b <= Len(t) /\ s > 0
  BY <1>1, <1>2
<1>4. s <= e
  <2>1. SUFFICES ASSUME e < s PROVE FALSE
    BY <1>3
  <2>2. e \in a .. s - 1
    BY <1>3, <2>1
  <2>3. t[e] = BLANK
    BY <1>2, <2>2
  <2>4. QED
    BY <2>3 DEF BLANK
<1>5. NameEnd(t, s) = e
  <2>1. \A m \in s .. Len(t) : m < e => t[m] \notin {"=", "%", ")"}
    <3>1. ASSUME NEW m \in s .. Len(t), m < e PROVE t[m] \notin {"=", "%", ")"}
      <4>1. m \in a .. e - 1 /\ m \in a .. b
        BY <1>1, <1>2, <1>3, <3>1
      <4>2. t[m] # "=" /\ t[m] # "%" /\ t[m] # ")"
        BY <1>2, <4>1
      <4>3. QED
        BY <4>2
    <3>2. QED
      BY <3>1
  <2>2. e <= Len(t) + 1 /\ (e <= Len(t) => s <= e /\ t[e] \in {"=", "%", ")"})
    BY <1>1, <1>3, <1>4
  <2>3. QED
    BY <1>3, <2>1, <2>2, FirstOfIs DEF NameEnd
<1>6. FirstOf(t, {"="}, s) = e
  <2>1. \A m \in s .. Len(t) : m < e => t[m] \notin {"="}
    <3>1. ASSUME NEW m \in s .. Len(t), m < e PROVE t[m] \notin {"="}
      <4>1. m \in a .. e - 1
        BY <1>1, <1>2, <1>3, <3>1
      <4>2. QED
        BY <4>1
    <3>2. QED
      BY <3>1
  <2>2. e <= Len(t) + 1 /\ (e <= Len(t) => s <= e /\ t[e] \in {"="})
    BY <1>1, <1>3, <1>4
  <2>3. QED
    BY <1>3, <2>1, <2>2, FirstOfIs
<1>7. PICK g \in Nat, h \in Nat : g = e + 1 /\ h = b + 1 /\ g > 0
  BY <1>3
<1>8. FirstOf(t, {"%", ")"}, g) = h
  <2>1. \A m \in g .. Len(t) : m < h => t[m] \notin {"%", ")"}
    <3>1. ASSUME NEW m \in g .. Len(t), m < h PROVE t[m] \notin {"%", ")"}
      <4>1. m \in a .. b
        BY <1>1, <1>3, <1>7, <3>1
      <4>2. QED
        BY <1>2, <4>1
    <3>2. QED
      BY <3>1
  <2>2. h <= Len(t) + 1 /\ (h <= Len(t) => g <= h /\ t[h] \in {"%", ")"})
    BY <1>1, <1>2, <1>3, <1>7
  <2>3. QED
    BY <1>7, <2>1, <2>2, FirstOfIs
<1>9. ValueEnd(t, s) = b + 1
  BY <1>6, <1>7, <1>8 DEF ValueEnd
<1>10. /\ FieldName(SubSeq(t, a, b)) = Trim(SubSeq(t, a, e - 1))
       /\ FieldValue(SubSeq(t, a, b)) = Trim(SubSeq(t, e + 1, b))
  BY <1>2, FieldOfPiece
<1>11. Trim(SubSeq(t, a, e - 1)) = Trim(SubSeq(t, s, e - 1))
  <2>1. PICK d \in Nat : d = e - 1
    BY <1>2, <1>3
  <2>2. d \in a - 1 .. Len(t) /\ s \in a .. d + 1
    BY <1>1, <1>2, <1>3, <1>4, <2>1
  <2>3. Trim(SubSeq(t, a, d)) = Trim(SubSeq(t, s, d))
    BY <1>2, <2>2, TrimSkips
  <2>4. QED
    BY <2>1, <2>3
<1>12. NameAt(t, s) = FieldName(SubSeq(t, a, b))
  BY <1>5, <1>10, <1>11 DEF NameAt
<1>13. ValueAt(t, s) = FieldValue(SubSeq(t, a, b))
  <2>1. (b + 1) - 1 = b
    OBVIOUS
  <2>2. QED
    BY <1>5, <1>9, <1>10, <2>1 DEF ValueAt
<1>14. "=" \in Symbols(SubSeq(t, a, b))
  <2>1. \E k \in a .. b : t[k] = "="
    OBVIOUS
  <2>2. \A x : x \in Symbols(SubSeq(t, a, b)) <=> \E k \in a .. b : t[k] = x
    BY <1>2, SymbolsOfPiece
  <2>3. QED
    BY <2>1, <2>2
<1>15. QED
  BY <1>5, <1>9, <1>12, <1>13, <1>14

LEMMA FieldAccepted ==
  ASSUME NEW R, NEW t \in Seq(R), NEW a \in Nat, NEW b \in Nat, NEW s \in Nat, a > 0,
         PartFrom(t, a, b, s)
  PROVE  /\ WellFormed(t, s) <=> IsField(SubSeq(t, a, b)) /\ b + 1 <= Len(t)
         /\ WellFormed(t, s) => /\ NameAt(t, s) = FieldName(SubSeq(t, a, b))
                                /\ ValueAt(t, s) = FieldValue(SubSeq(t, a, b))
                                /\ ValueEnd(t, s) = b + 1
<1>1. Len(t) \in Nat
  BY LenProperties
<1>2. /\ a \in 1 .. Len(t) + 1 /\ b \in a - 1 .. Len(t) /\ s \in a .. b + 1
      /\ \A k \in a .. s - 1 : t[k] = BLANK
      /\ \A k \in a .. b : t[k] # "%" /\ t[k] # ")"
      /\ b + 1 <= Len(t) => t[b + 1] \in {"%", ")"}
  BY DEF PartFrom
<1>3. "=" \in Symbols(SubSeq(t, a, b)) <=> \E k \in a .. b : t[k] = "="
  <2>1. \A x : x \in Symbols(SubSeq(t, a, b)) <=> \E k \in a .. b : t[k] = x
    BY <1>2, SymbolsOfPiece
  <2>2. QED
    BY <2>1
<1>4. CASE \E k \in a .. b : t[k] = "="
  <2> DEFINE V == {k \in a .. b : t[k] = "="}
  <2>1. PICK e \in V : \A k \in V : e <= k
    <3>1. V \subseteq Nat /\ V # {}
      BY <1>4
    <3>2. QED
      BY <3>1, SmallestMember
  <2>2. e \in a .. b /\ t[e] = "="
    OBVIOUS
  <2>3. \A k \in a .. e - 1 : t[k] # "="
    BY <2>1, <2>2
  <2> HIDE DEF V
  <2>4. /\ NameEnd(t, s) = e /\ ValueEnd(t, s) = b + 1
        /\ NameAt(t, s) = FieldName(SubSeq(t, a, b))
        /\ ValueAt(t, s) = FieldValue(SubSeq(t, a, b))
        /\ "=" \in Symbols(SubSeq(t, a, b))
    BY <2>2, <2>3, FieldScanned
  <2>5. e <= Len(t)
    BY <1>1, <1>2, <2>2
  <2>6. QED
    BY <2>2, <2>4, <2>5 DEF WellFormed, IsField
<1>5. CASE ~ \E k \in a .. b : t[k] = "="
  <2>1. PICK h \in Nat : h = b + 1
    OBVIOUS
  <2>2. \A m \in s .. Len(t) : m < h => t[m] \notin {"=", "%", ")"}
    <3>1. ASSUME NEW m \in s .. Len(t), m < h PROVE t[m] \notin {"=", "%", ")"}
      <4>1. m \in a .. b
        BY <1>1, <1>2, <2>1, <3>1
      <4>2. t[m] # "=" /\ t[m] # "%" /\ t[m] # ")"
        BY <1>2, <1>5, <4>1
      <4>3. QED
        BY <4>2
    <3>2. QED
      BY <3>1
  <2>3. h <= Len(t) + 1 /\ (h <= Len(t) => s <= h /\ t[h] \in {"=", "%", ")"})
    BY <1>1, <1>2, <2>1
  <2>4. s > 0
    BY <1>2
  <2>5. FirstOf(t, {"=", "%", ")"}, s) = h
    BY <2>2, <2>3, <2>4, FirstOfIs
  <2>6. NameEnd(t, s) = h /\ (h <= Len(t) => t[h] # "=")
    BY <1>2, <2>1, <2>5 DEF NameEnd
  <2>7. ~ WellFormed(t, s)
    BY <2>6 DEF WellFormed
  <2>8. QED
    BY <1>3, <1>5, <2>7 DEF IsField
<1>6. QED
  BY <1>4, <1>5

(* The parser's operators on texts are the ones above.                     *)
LEMMA ParserTexts ==
  /\ Parser!BLANK = BLANK
  /\ \A t, S, k : Parser!FirstOf(t, S, k) = FirstOf(t, S, k)
  /\ \A t, k : Parser!SkipBlanks(t, k) = SkipBlanks(t, k)
  /\ \A t : Parser!Trim(t) = Trim(t)
<1>1. Parser!BLANK = BLANK /\ \A S, e : Parser!LeastOf(S, e) = LeastOf(S, e)
  BY DEF Parser!BLANK, BLANK, Parser!LeastOf, LeastOf
<1>2. \A t, S, k : Parser!FirstOf(t, S, k) = FirstOf(t, S, k)
  BY <1>1 DEF Parser!FirstOf, FirstOf
<1>3. \A t, k : Parser!SkipBlanks(t, k) = SkipBlanks(t, k)
  BY <1>1 DEF Parser!SkipBlanks, SkipBlanks
<1>4. \A t : Parser!Trim(t) = Trim(t)
  BY <1>1, <1>3 DEF Parser!Trim, Trim
<1>5. QED
  BY <1>1, <1>2, <1>3, <1>4

LEMMA ParserGroups ==
  /\ \A t : Parser!OpenAt(t) = OpenAt(t) /\ Parser!GroupName(t) = GroupName(t)
  /\ \A t : Parser!IsGroup(t) = IsGroup(t)
  /\ \A t : Parser!GroupOf(t) = GroupOf(t)
<1>1. /\ Parser!BLANK = BLANK
      /\ \A t, S, k : Parser!FirstOf(t, S, k) = FirstOf(t, S, k)
      /\ \A t : Parser!Trim(t) = Trim(t)
  BY ParserTexts
<1>2. \A t : Parser!OpenAt(t) = OpenAt(t)
  BY <1>1 DEF Parser!OpenAt, OpenAt
<1>3. \A t : Parser!CloseAt(t) = CloseAt(t)
  BY <1>1, <1>2 DEF Parser!CloseAt, CloseAt
<1>4. \A S, n : Parser!Places(S, n) = Places(S, n)
  BY DEF Parser!Places, Places, Parser!Selected, Selected
<1>5. \A t : Parser!Parts(t) = Parts(t)
  BY <1>4 DEF Parser!Parts, Parts
<1>6. \A t : Parser!Body(t) = Body(t)
  BY <1>2, <1>3, <1>5 DEF Parser!Body, Body
<1>7. \A t : Parser!FieldName(t) = FieldName(t) /\ Parser!FieldValue(t) = FieldValue(t)
  BY <1>1 DEF Parser!FieldName, FieldName, Parser!FieldValue, FieldValue
<1>8. \A t : Parser!GroupName(t) = GroupName(t)
  BY <1>1, <1>2 DEF Parser!GroupName, GroupName
<1>9. \A t : Parser!Symbols(t) = Symbols(t)
  BY DEF Parser!Symbols, Symbols
<1>10. \A t : Parser!IsBlank(t) = IsBlank(t)
  BY <1>1, <1>9 DEF Parser!IsBlank, IsBlank
<1>11. \A t : Parser!IsGroup(t) = IsGroup(t)
  BY <1>3, <1>6, <1>7, <1>8, <1>9, <1>10 DEF Parser!IsGroup, IsGroup
<1>12. \A t : Parser!GroupOf(t) = GroupOf(t)
  BY <1>6, <1>7, <1>8 DEF Parser!GroupOf, GroupOf
<1>13. QED
  BY <1>2, <1>8, <1>11, <1>12

(* The parts of a line, and where the one behind the m-th begins.          *)
Room(t)       == CloseAt(t) - OpenAt(t) - 1
CountIn(t)    == PartCount(t, OpenAt(t), Room(t))
PartIn(t, m)  == PartAt(t, OpenAt(t), Room(t), m)
Behind(t, m)  == OpenAt(t) + Edge(t, OpenAt(t), Room(t), m) + 1
FieldIn(t, m) == [name |-> FieldName(PartIn(t, m)), value |-> FieldValue(PartIn(t, m))]
LineRest(t)   == SubSeq(t, CloseAt(t) + 1, Len(t))

LEMMA Parentheses ==
  ASSUME NEW R, NEW t \in Seq(R), OpenAt(t) <= Len(t)
  PROVE  /\ Len(t) \in Nat /\ OpenAt(t) \in 1 .. Len(t) /\ Room(t) \in Nat
         /\ CloseAt(t) \in OpenAt(t) + 1 .. Len(t) + 1
         /\ OpenAt(t) + Room(t) = CloseAt(t) - 1 /\ OpenAt(t) + Room(t) <= Len(t)
         /\ CloseAt(t) <= Len(t) => t[CloseAt(t)] = ")"
         /\ \A k \in OpenAt(t) + 1 .. CloseAt(t) - 1 : t[k] # ")"
<1>1. Len(t) \in Nat
  BY LenProperties
<1>2. PICK first_of \in Nat : first_of = 1 /\ first_of > 0
  OBVIOUS
<1>3. OpenAt(t) \in 1 .. Len(t)
  <2>1. OpenAt(t) = FirstOf(t, {"("}, first_of)
    BY <1>2 DEF OpenAt
  <2>2. /\ FirstOf(t, {"("}, first_of) \in Nat
        /\ first_of <= Len(t) + 1 => first_of <= FirstOf(t, {"("}, first_of)
    BY <1>2, FirstOfSees
  <2>3. QED
    BY <1>1, <1>2, <2>1, <2>2
<1>4. PICK k \in Nat : k = OpenAt(t) + 1 /\ k > 0
  BY <1>3
<1>5. CloseAt(t) = FirstOf(t, {")"}, k)
  BY <1>4 DEF CloseAt
<1>6. PICK c : c = FirstOf(t, {")"}, k)
  OBVIOUS
<1>7. /\ c \in Nat /\ c <= Len(t) + 1
      /\ c <= Len(t) => k <= c /\ t[c] \in {")"}
      /\ k <= Len(t) + 1 => k <= c
      /\ \A m \in k .. Len(t) : m < c => t[m] \notin {")"}
  <2>1. /\ FirstOf(t, {")"}, k) \in Nat /\ FirstOf(t, {")"}, k) <= Len(t) + 1
        /\ FirstOf(t, {")"}, k) <= Len(t) => k <= FirstOf(t, {")"}, k) /\ t[FirstOf(t, {")"}, k)] \in {")"}
        /\ k <= Len(t) + 1 => k <= FirstOf(t, {")"}, k)
        /\ \A m \in k .. Len(t) : m < FirstOf(t, {")"}, k) => t[m] \notin {")"}
    BY <1>4, FirstOfSees
  <2>2. QED
    BY <1>6, <2>1
<1>8. c \in OpenAt(t) + 1 .. Len(t) + 1
  BY <1>1, <1>3, <1>4, <1>7
<1>9. \A m \in OpenAt(t) + 1 .. c - 1 : t[m] # ")"
  BY <1>1, <1>3, <1>4, <1>7
<1>10. CloseAt(t) = c
  BY <1>5, <1>6
<1>11. Room(t) = c - OpenAt(t) - 1
  BY <1>10 DEF Room
<1>12. Room(t) \in Nat /\ OpenAt(t) + Room(t) = c - 1 /\ OpenAt(t) + Room(t) <= Len(t)
  BY <1>1, <1>3, <1>8, <1>11
<1>13. QED
  BY <1>1, <1>3, <1>7, <1>8, <1>9, <1>10, <1>12

LEMMA GroupIsItsParts ==
  ASSUME NEW R, NEW t \in Seq(R), OpenAt(t) <= Len(t)
  PROVE  /\ CountIn(t) \in Nat /\ CountIn(t) > 0
         /\ IsGroup(t) <=> /\ CloseAt(t) <= Len(t) /\ GroupName(t) # <<>> /\ IsBlank(LineRest(t))
                           /\ \A m \in 1 .. CountIn(t) : IsField(PartIn(t, m))
         /\ GroupOf(t) = [name   |-> GroupName(t),
                          fields |-> [m \in 1 .. CountIn(t) |-> FieldIn(t, m)]]
<1>1. /\ OpenAt(t) \in 1 .. Len(t) /\ Room(t) \in Nat
      /\ OpenAt(t) + Room(t) = CloseAt(t) - 1 /\ OpenAt(t) + Room(t) <= Len(t)
  BY Parentheses
<1>2. Body(t) = [m \in 1 .. CountIn(t) |-> PartIn(t, m)]
  <2>1. Parts(SubSeq(t, OpenAt(t) + 1, OpenAt(t) + Room(t)))
          = [m \in 1 .. PartCount(t, OpenAt(t), Room(t)) |-> PartAt(t, OpenAt(t), Room(t), m)]
    BY <1>1, PartsOfPiece
  <2>2. QED
    BY <1>1, <2>1 DEF Body, CountIn, PartIn
<1>3. CountIn(t) \in Nat /\ CountIn(t) > 0
  BY <1>1, EdgesInOrder DEF CountIn
<1>4. DOMAIN Body(t) = 1 .. CountIn(t) /\ \A m \in 1 .. CountIn(t) : Body(t)[m] = PartIn(t, m)
  BY <1>2
<1>5. IsGroup(t) <=> /\ CloseAt(t) <= Len(t) /\ GroupName(t) # <<>> /\ IsBlank(LineRest(t))
                     /\ \A m \in 1 .. CountIn(t) : IsField(PartIn(t, m))
  BY <1>4 DEF IsGroup, IsField, LineRest
<1>6. GroupOf(t) = [name   |-> GroupName(t),
                    fields |-> [m \in 1 .. CountIn(t) |-> FieldIn(t, m)]]
  BY <1>4 DEF GroupOf, FieldIn
<1>7. QED
  BY <1>3, <1>5, <1>6

LEMMA PartBehind ==
  ASSUME NEW R, NEW t \in Seq(R), OpenAt(t) <= Len(t), NEW m \in Nat, m < CountIn(t),
         NEW a, a = Behind(t, m)
  PROVE  \E b \in Nat :
           /\ a \in Nat /\ a > 0 /\ PartIn(t, m + 1) = SubSeq(t, a, b)
           /\ PartFrom(t, a, b, SkipBlanks(t, a))
           /\ b + 1 <= Len(t) /\ t[b + 1] = "%" =>
                m + 1 < CountIn(t) /\ Behind(t, m + 1) = b + 2
           /\ b + 1 <= Len(t) /\ t[b + 1] = ")" => m + 1 = CountIn(t) /\ b + 1 = CloseAt(t)
           /\ b + 1 > Len(t) => CloseAt(t) > Len(t)
<1> DEFINE o == OpenAt(t)
           n == Room(t)
           c == CloseAt(t)
           x == Edge(t, o, n, m)
           y == Edge(t, o, n, m + 1)
<1>1. /\ Len(t) \in Nat /\ o \in 1 .. Len(t) /\ n \in Nat
      /\ c \in o + 1 .. Len(t) + 1 /\ o + n = c - 1 /\ o + n <= Len(t)
      /\ c <= Len(t) => t[c] = ")"
      /\ \A k \in o + 1 .. c - 1 : t[k] # ")"
  BY Parentheses
<1>2. /\ x \in 0 .. n /\ y \in x + 1 .. n + 1
      /\ \A j \in x + 1 .. y - 1 : t[o + j] # "%"
      /\ y <= n => t[o + y] = "%" /\ m + 1 < CountIn(t)
      /\ y = n + 1 => CountIn(t) = m + 1
  BY <1>1, NextEdge DEF CountIn
<1>3. a = o + x + 1 /\ Behind(t, m + 1) = o + y + 1
  BY DEF Behind
<1>4. PartIn(t, m + 1) = SubSeq(t, o + x + 1, o + y - 1)
  <2>1. (m + 1) - 1 = m
    OBVIOUS
  <2>2. QED
    BY <2>1 DEF PartIn, PartAt
<1> HIDE DEF o, n, c, x, y
<1>5. PICK b \in Nat : b = o + y - 1
  BY <1>1, <1>2
<1>6. /\ a \in Nat /\ a > 0 /\ a \in 1 .. Len(t) + 1 /\ b \in a - 1 .. Len(t)
      /\ b + 1 = o + y /\ b + 2 = o + y + 1
  BY <1>1, <1>2, <1>3, <1>5
<1>7. \A k \in a .. b : t[k] # "%" /\ t[k] # ")"
  <2>1. ASSUME NEW k \in a .. b PROVE t[k] # "%" /\ t[k] # ")"
    <3>1. k \in o + 1 .. c - 1
      BY <1>1, <1>2, <1>3, <1>5
    <3>2. PICK j \in x + 1 .. y - 1 : o + j = k
      <4>1. k - o \in x + 1 .. y - 1 /\ o + (k - o) = k
        BY <1>1, <1>2, <1>3, <1>5
      <4>2. QED
        BY <4>1
    <3>3. QED
      BY <1>1, <1>2, <3>1, <3>2
  <2>2. QED
    BY <2>1
<1>8. y <= n \/ y = n + 1
  BY <1>1, <1>2
<1>9. b + 1 <= Len(t) => (y <= n /\ t[b + 1] = "%") \/ (y = n + 1 /\ b + 1 = c /\ t[b + 1] = ")")
  BY <1>1, <1>2, <1>6, <1>8
<1>10. b + 1 > Len(t) => c > Len(t)
  BY <1>1, <1>2, <1>6, <1>8
<1>11. PICK s : s = SkipBlanks(t, a)
  OBVIOUS
<1>12. /\ s \in Nat /\ s <= Len(t) + 1
       /\ a <= Len(t) + 1 => a <= s
       /\ \A k \in a .. Len(t) : k < s => t[k] = BLANK
  BY <1>6, <1>11, SkipBlanksSees
<1>13. s \in a .. b + 1
  <2>1. CASE s > b + 1
    <3>1. b + 1 \in a .. Len(t) /\ b + 1 < s
      BY <1>1, <1>6, <1>12, <2>1
    <3>2. t[b + 1] = BLANK
      BY <1>12, <3>1
    <3>3. b + 1 <= Len(t)
      BY <1>1, <1>6, <3>1
    <3>4. t[b + 1] = "%" \/ t[b + 1] = ")"
      BY <1>9, <3>3
    <3>5. QED
      BY <3>2, <3>4 DEF BLANK
  <2>2. QED
    BY <1>1, <1>6, <1>12, <2>1
<1>14. \A k \in a .. s - 1 : t[k] = BLANK
  BY <1>1, <1>6, <1>12, <1>13
<1>15. PartFrom(t, a, b, s)
  BY <1>6, <1>7, <1>9, <1>13, <1>14 DEF PartFrom
<1>16. b + 1 <= Len(t) /\ t[b + 1] = "%" => m + 1 < CountIn(t) /\ Behind(t, m + 1) = b + 2
  BY <1>2, <1>3, <1>6, <1>9
<1>17. b + 1 <= Len(t) /\ t[b + 1] = ")" => m + 1 = CountIn(t) /\ b + 1 = c
  BY <1>2, <1>9
<1>18. PartIn(t, m + 1) = SubSeq(t, a, b)
  BY <1>3, <1>4, <1>5
<1>19. QED
  BY <1>6, <1>10, <1>11, <1>15, <1>16, <1>17, <1>18 DEF c

(* Nothing but blanks before the end or a ")" is no field.                 *)
LEMMA NothingIsNoField ==
  ASSUME NEW R, NEW t \in Seq(R), OpenAt(t) <= Len(t), NEW m \in Nat, m < CountIn(t),
         NEW a, a = Behind(t, m),
         SkipBlanks(t, a) <= Len(t) => t[SkipBlanks(t, a)] = ")"
  PROVE  ~ IsGroup(t)
<1>1. PICK b \in Nat :
           /\ a \in Nat /\ a > 0 /\ PartIn(t, m + 1) = SubSeq(t, a, b)
           /\ PartFrom(t, a, b, SkipBlanks(t, a))
  BY PartBehind
<1>2. Len(t) \in Nat
  BY LenProperties
<1>3. PICK s : s = SkipBlanks(t, a)
  OBVIOUS
<1>4. /\ a \in 1 .. Len(t) + 1 /\ b \in a - 1 .. Len(t) /\ s \in a .. b + 1
      /\ \A k \in a .. s - 1 : t[k] = BLANK
      /\ \A k \in a .. b : t[k] # "%" /\ t[k] # ")"
  BY <1>1, <1>3 DEF PartFrom
<1>5. s = b + 1
  <2>1. CASE s <= b
    <3>1. s \in a .. b /\ s <= Len(t)
      BY <1>2, <1>4, <2>1
    <3>2. QED
      BY <1>3, <1>4, <3>1
  <2>2. QED
    BY <1>4, <2>1
<1>6. \A k \in a .. b : t[k] # "="
  <2>1. \A k \in a .. b : k \in a .. s - 1
    BY <1>4, <1>5
  <2>2. QED
    BY <1>4, <2>1 DEF BLANK
<1>7. "=" \notin Symbols(SubSeq(t, a, b))
  <2>1. \A y : y \in Symbols(SubSeq(t, a, b)) <=> \E k \in a .. b : t[k] = y
    BY <1>4, SymbolsOfPiece
  <2>2. QED
    BY <1>6, <2>1
<1>8. ~ IsField(PartIn(t, m + 1))
  BY <1>1, <1>7 DEF IsField
<1>9. m + 1 \in 1 .. CountIn(t)
  BY GroupIsItsParts
<1>10. IsGroup(t) => \A k \in 1 .. CountIn(t) : IsField(PartIn(t, k))
  BY GroupIsItsParts
<1>11. QED
  BY <1>8, <1>9, <1>10

(* The first values of a function, as a sequence.                          *)
Firsts(f, m) == [k \in 1 .. m |-> f[k]]

LEMMA FirstsGrow ==
  ASSUME NEW f, NEW m \in Nat
  PROVE  /\ Firsts(f, 0) = <<>>
         /\ Append(Firsts(f, m), f[m + 1]) = Firsts(f, m + 1)
<1> DEFINE S == {f[k] : k \in 1 .. m + 1}
<1>1. PICK n \in Nat : n = m + 1
  OBVIOUS
<1>2. \A k \in 1 .. n : f[k] \in S
  BY <1>1
<1> HIDE DEF S
<1>3. ASSUME NEW j \in Nat, j <= n
      PROVE  /\ Firsts(f, j) \in Seq(S) /\ Len(Firsts(f, j)) = j
             /\ \A k \in 1 .. j : Firsts(f, j)[k] = f[k]
  <2>1. \A k \in 1 .. j : f[k] \in S
    BY <1>2, <1>3
  <2>2. Firsts(f, j) \in [1 .. j -> S]
    BY <2>1 DEF Firsts
  <2>3. Firsts(f, j) \in Seq(S)
    BY <2>2, IsASeq
  <2>4. DOMAIN Firsts(f, j) = 1 .. j
    BY DEF Firsts
  <2>5. Len(Firsts(f, j)) = j
    BY <2>3, <2>4, LenProperties
  <2>6. \A k \in 1 .. j : Firsts(f, j)[k] = f[k]
    BY DEF Firsts
  <2>7. QED
    BY <2>3, <2>5, <2>6
<1>4. Firsts(f, 0) = <<>>
  <2>1. PICK none \in Nat : none = 0
    OBVIOUS
  <2>2. Firsts(f, none) \in Seq(S) /\ Len(Firsts(f, none)) = 0
    BY <1>3, <2>1
  <2>3. QED
    BY <2>1, <2>2, EmptySeq
<1>5. Append(Firsts(f, m), f[m + 1]) = Firsts(f, m + 1)
  <2>1. /\ Firsts(f, m) \in Seq(S) /\ Len(Firsts(f, m)) = m
        /\ \A k \in 1 .. m : Firsts(f, m)[k] = f[k]
    BY <1>1, <1>3
  <2>2. /\ Firsts(f, n) \in Seq(S) /\ Len(Firsts(f, n)) = n
        /\ \A k \in 1 .. n : Firsts(f, n)[k] = f[k]
    BY <1>3
  <2>3. f[n] \in S
    BY <1>1, <1>2
  <2> DEFINE grown == Append(Firsts(f, m), f[n])
  <2>4. /\ grown \in Seq(S) /\ Len(grown) = n
        /\ \A i \in 1 .. m : grown[i] = Firsts(f, m)[i]
        /\ grown[n] = f[n]
    <3>1. /\ grown \in Seq(S) /\ Len(grown) = Len(Firsts(f, m)) + 1
          /\ \A i \in 1 .. Len(Firsts(f, m)) : grown[i] = Firsts(f, m)[i]
          /\ grown[Len(Firsts(f, m)) + 1] = f[n]
      BY <2>1, <2>3, AppendProperties
    <3> HIDE DEF grown
    <3>2. QED
      BY <1>1, <2>1, <3>1
  <2> HIDE DEF grown
  <2>5. \A i \in 1 .. Len(grown) : grown[i] = Firsts(f, n)[i]
    <3>1. ASSUME NEW i \in 1 .. n PROVE grown[i] = Firsts(f, n)[i]
      <4>1. CASE i = n
        BY <2>2, <2>4, <4>1
      <4>2. CASE i # n
        <5>1. i \in 1 .. m
          BY <1>1, <4>2
        <5>2. grown[i] = f[i]
          BY <2>1, <2>4, <5>1
        <5>3. QED
          BY <2>2, <5>2
      <4>3. QED
        BY <4>1, <4>2
    <3>2. QED
      BY <2>4, <3>1
  <2>6. grown = Firsts(f, n)
    BY <2>2, <2>4, <2>5, SeqEqual
  <2>7. QED
    BY <1>1, <2>6 DEF grown
<1>6. QED
  BY <1>4, <1>5

FieldsUpTo(t, m) == Firsts([k \in Nat |-> FieldIn(t, k)], m)

LEMMA FieldsGrow ==
  ASSUME NEW t, NEW m \in Nat
  PROVE  /\ FieldsUpTo(t, 0) = <<>>
         /\ Append(FieldsUpTo(t, m), FieldIn(t, m + 1)) = FieldsUpTo(t, m + 1)
         /\ FieldsUpTo(t, m) = [k \in 1 .. m |-> FieldIn(t, k)]
<1> DEFINE f == [k \in Nat |-> FieldIn(t, k)]
<1>1. f[m + 1] = FieldIn(t, m + 1)
  OBVIOUS
<1>2. [k \in 1 .. m |-> f[k]] = [k \in 1 .. m |-> FieldIn(t, k)]
  OBVIOUS
<1>3. \A j : FieldsUpTo(t, j) = Firsts(f, j)
  BY DEF FieldsUpTo
<1> HIDE DEF f
<1>4. /\ Firsts(f, 0) = <<>>
      /\ Append(Firsts(f, m), f[m + 1]) = Firsts(f, m + 1)
  BY FirstsGrow
<1>5. QED
  BY <1>1, <1>2, <1>3, <1>4 DEF Firsts

-----------------------------------------------------------------------------
(* The parser has read the name and m fields of the line, all well-formed. *)
ParsedTo(t, g, m) ==
  /\ OpenAt(t) <= Len(t) /\ GroupName(t) # <<>> /\ m \in Nat /\ m <= CountIn(t)
  /\ g = [name |-> GroupName(t), fields |-> FieldsUpTo(t, m)]
  /\ \A k \in 1 .. m : IsField(PartIn(t, k))

AtField(t, g, p) ==
  \E m \in Nat : m < CountIn(t) /\ ParsedTo(t, g, m) /\ p = SkipBlanks(t, Behind(t, m))

AtEnd(t, g, p) ==
  ParsedTo(t, g, CountIn(t)) /\ CloseAt(t) <= Len(t) /\ p = CloseAt(t) + 1

ReadInv ==
  /\ place \in Lines
  /\ refused => pc = "done" /\ outcome = -1
  /\ ~ refused =>
       /\ pc = "name"  => outcome = 0 /\ parsed_group = Parser!NoGroup
       /\ pc = "field" => outcome = 0 /\ AtField(place, parsed_group, pos)
       /\ pc = "end"   => outcome = 0 /\ AtEnd(place, parsed_group, pos)
       /\ pc = "done"  => /\ (outcome = 0) <=> IsGroup(place)
                          /\ outcome = 0 => parsed_group = GroupOf(place)

LEMMA ReadMeans == ReadInv => Parser!ParsesGroups
BY ParserGroups DEF ReadInv, Parser!ParsesGroups

LEMMA ReadFails ==
  ASSUME ReadInv, NEW blocks, NEW count, Parser!Fail(blocks, count),
         refused' \/ (refused' = refused /\ ~ IsGroup(place))
  PROVE  ReadInv'
BY DEF ReadInv, Parser!Fail

LEMMA LinesAreTexts == ReadInv => place \in Seq(STRING)
BY LineAssumption DEF ReadInv

LEMMA NoOpening ==
  ASSUME NEW t \in Seq(STRING), OpenAt(t) > Len(t)
  PROVE  ~ IsGroup(t)
<1>1. Len(t) \in Nat
  BY LenProperties
<1>2. OpenAt(t) \in Nat /\ OpenAt(t) <= Len(t) + 1
  <2>1. PICK k \in Nat : k = 1 /\ k > 0
    OBVIOUS
  <2>2. FirstOf(t, {"("}, k) \in Nat /\ FirstOf(t, {"("}, k) <= Len(t) + 1
    BY <2>1, FirstOfSees
  <2>3. QED
    BY <2>1, <2>2 DEF OpenAt
<1>3. PICK k \in Nat : k = OpenAt(t) + 1 /\ k > 0 /\ k > Len(t) + 1
  BY <1>1, <1>2
<1>4. /\ FirstOf(t, {")"}, k) \in Nat
      /\ FirstOf(t, {")"}, k) <= Len(t) => k <= FirstOf(t, {")"}, k)
  BY <1>3, FirstOfSees
<1>5. FirstOf(t, {")"}, k) > Len(t)
  BY <1>1, <1>3, <1>4
<1>6. CloseAt(t) > Len(t) /\ CloseAt(t) \in Nat
  BY <1>3, <1>4, <1>5 DEF CloseAt
<1>7. QED
  BY <1>1, <1>6 DEF IsGroup

LEMMA NameRead ==
  ASSUME ReadInv, pc = "name", Parser!ParseName
  PROVE  ReadInv'
<1> DEFINE t == place
<1>1. t \in Seq(STRING) /\ Len(t) \in Nat
  BY LinesAreTexts, LenProperties
<1>2. ~ refused /\ outcome = 0 /\ parsed_group = [name |-> <<>>, fields |-> <<>>]
  BY DEF ReadInv, Parser!NoGroup
<1>3. Parser!NameFound <=> OpenAt(t) <= Len(t) /\ GroupName(t) # <<>>
  BY ParserGroups DEF Parser!NameFound
<1>4. Parser!OpenAt(t) = OpenAt(t) /\ Parser!GroupName(t) = GroupName(t)
  BY ParserGroups
<1>5. \A k : Parser!FieldMissing(k) <=> (SkipBlanks(t, k) <= Len(t) => t[SkipBlanks(t, k)] = ")")
  BY ParserTexts DEF Parser!FieldMissing
<1>6. ASSUME OpenAt(t) <= Len(t)
      PROVE  /\ Behind(t, 0) = OpenAt(t) + 1
             /\ CountIn(t) \in Nat /\ 0 < CountIn(t)
  <2>1. OpenAt(t) \in 1 .. Len(t)
    BY <1>1, <1>6, Parentheses
  <2>2. Behind(t, 0) = OpenAt(t) + 0 + 1
    BY DEF Behind, Edge
  <2>3. QED
    BY <1>1, <1>6, <2>1, <2>2, GroupIsItsParts
<1> HIDE DEF t
<1>7. CASE /\ Parser!NameFound => Parser!FieldMissing(Parser!OpenAt(t) + 1)
           /\ \E blocks : Parser!Fail(blocks, 0)
           /\ UNCHANGED refused
  <2>1. ~ IsGroup(t)
    <3>1. CASE ~ (OpenAt(t) <= Len(t))
      <4>1. OpenAt(t) > Len(t)
        <5>1. PICK k \in Nat : k = 1 /\ k > 0
          OBVIOUS
        <5>2. FirstOf(t, {"("}, k) \in Nat
          BY <1>1, <5>1, FirstOfSees
        <5>3. OpenAt(t) \in Nat
          BY <5>1, <5>2 DEF OpenAt
        <5>4. QED
          BY <1>1, <3>1, <5>3
      <4>2. QED
        BY <1>1, <4>1, NoOpening
    <3>2. CASE OpenAt(t) <= Len(t) /\ GroupName(t) = <<>>
      BY <3>2 DEF IsGroup
    <3>3. CASE OpenAt(t) <= Len(t) /\ GroupName(t) # <<>>
      <4>1. PICK a : a = Behind(t, 0)
        OBVIOUS
      <4>2. Parser!FieldMissing(a)
        BY <1>3, <1>4, <1>6, <1>7, <3>3, <4>1
      <4>3. SkipBlanks(t, a) <= Len(t) => t[SkipBlanks(t, a)] = ")"
        BY <1>5, <4>2
      <4>4. QED
        BY <1>1, <1>6, <3>3, <4>1, <4>3, NothingIsNoField
    <3>4. QED
      BY <3>1, <3>2, <3>3
  <2>2. QED
    BY <1>7, <2>1, ReadFails DEF t
<1>8. CASE Parser!Fail({}, 0) /\ refused'
  BY <1>8, ReadFails
<1>9. CASE /\ Parser!NameFound
           /\ parsed_group' = [parsed_group EXCEPT !.name = GroupName(t)]
           /\ pos' = Parser!SkipBlanks(t, OpenAt(t) + 1) /\ pc' = "field"
           /\ UNCHANGED <<place, refused, outcome>>
  <2>1. parsed_group' = [name |-> GroupName(t), fields |-> <<>>]
    BY <1>2, <1>9
  <2>2. FieldsUpTo(t, 0) = <<>>
    BY FieldsGrow
  <2>3. ParsedTo(t, parsed_group', 0)
    <3>1. OpenAt(t) <= Len(t) /\ GroupName(t) # <<>>
      BY <1>3, <1>9
    <3>2. 0 \in Nat /\ 0 <= CountIn(t)
      BY <1>6, <3>1
    <3>3. parsed_group' = [name |-> GroupName(t), fields |-> FieldsUpTo(t, 0)]
      BY <2>1, <2>2
    <3>4. \A k \in 1 .. 0 : IsField(PartIn(t, k))
      OBVIOUS
    <3>5. QED
      BY <3>1, <3>2, <3>3, <3>4 DEF ParsedTo
  <2>4. pos' = SkipBlanks(t, Behind(t, 0))
    BY <1>3, <1>6, <1>9, ParserTexts
  <2>5. AtField(t, parsed_group', pos')
    BY <1>3, <1>6, <1>9, <2>3, <2>4 DEF AtField
  <2>6. place' = place /\ pc' = "field" /\ ~ refused' /\ outcome' = 0
    BY <1>2, <1>9
  <2>7. QED
    BY <2>5, <2>6 DEF ReadInv, t
<1>10. QED
  BY <1>4, <1>7, <1>8, <1>9 DEF Parser!ParseName, t

LEMMA FieldTexts ==
  /\ Parser!FieldWellFormed = WellFormed(place, pos)
  /\ WellFormed(place, pos) => place[Parser!name_end] = "="
  /\ Parser!value_end = ValueEnd(place, pos)
  /\ Parser!field_name = NameAt(place, pos) /\ Parser!field_value = ValueAt(place, pos)
<1>1. Parser!name_end = NameEnd(place, pos) /\ Parser!value_end = ValueEnd(place, pos)
  BY ParserTexts DEF Parser!name_end, Parser!value_end, NameEnd, ValueEnd
<1>2. Parser!field_name = NameAt(place, pos) /\ Parser!field_value = ValueAt(place, pos)
  BY <1>1, ParserTexts DEF Parser!field_name, Parser!field_value, NameAt, ValueAt
<1>3. Parser!FieldWellFormed = WellFormed(place, pos)
  BY <1>1, <1>2 DEF Parser!FieldWellFormed, WellFormed
<1>4. QED
  BY <1>1, <1>2, <1>3 DEF WellFormed

(* The field the parser is at, as a part of the line.                      *)
LEMMA FieldHere ==
  ASSUME NEW t \in Seq(STRING), NEW g, NEW p, NEW m \in Nat, m < CountIn(t),
         ParsedTo(t, g, m), p = SkipBlanks(t, Behind(t, m))
  PROVE  /\ ~ WellFormed(t, p) => ~ IsGroup(t)
         /\ WellFormed(t, p) =>
              /\ IsField(PartIn(t, m + 1)) /\ ValueEnd(t, p) \in Nat
              /\ [name |-> NameAt(t, p), value |-> ValueAt(t, p)] = FieldIn(t, m + 1)
              /\ t[ValueEnd(t, p)] = ")" => m + 1 = CountIn(t) /\ ValueEnd(t, p) = CloseAt(t)
              /\ t[ValueEnd(t, p)] # ")" => /\ t[ValueEnd(t, p)] = "%" /\ m + 1 < CountIn(t)
                                            /\ Behind(t, m + 1) = ValueEnd(t, p) + 1
              /\ ValueEnd(t, p) <= Len(t)
<1>1. OpenAt(t) <= Len(t) /\ Len(t) \in Nat
  BY LenProperties DEF ParsedTo
<1>2. PICK a : a = Behind(t, m)
  OBVIOUS
<1>3. PICK b \in Nat :
           /\ a \in Nat /\ a > 0 /\ PartIn(t, m + 1) = SubSeq(t, a, b)
           /\ PartFrom(t, a, b, SkipBlanks(t, a))
           /\ b + 1 <= Len(t) /\ t[b + 1] = "%" =>
                m + 1 < CountIn(t) /\ Behind(t, m + 1) = b + 2
           /\ b + 1 <= Len(t) /\ t[b + 1] = ")" => m + 1 = CountIn(t) /\ b + 1 = CloseAt(t)
           /\ b + 1 > Len(t) => CloseAt(t) > Len(t)
  BY <1>1, <1>2, PartBehind
<1>4. PartFrom(t, a, b, p) /\ p \in Nat /\ a > 0
  <2>1. SkipBlanks(t, a) \in Nat
    BY <1>3, SkipBlanksSees
  <2>2. QED
    BY <1>2, <1>3, <2>1
<1>5. /\ WellFormed(t, p) <=> IsField(SubSeq(t, a, b)) /\ b + 1 <= Len(t)
      /\ WellFormed(t, p) => /\ NameAt(t, p) = FieldName(SubSeq(t, a, b))
                             /\ ValueAt(t, p) = FieldValue(SubSeq(t, a, b))
                             /\ ValueEnd(t, p) = b + 1
  BY <1>3, <1>4, FieldAccepted
<1>6. m + 1 \in 1 .. CountIn(t) /\ CountIn(t) \in Nat
  BY <1>1, GroupIsItsParts
<1>7. IsGroup(t) => CloseAt(t) <= Len(t) /\ \A k \in 1 .. CountIn(t) : IsField(PartIn(t, k))
  BY <1>1, GroupIsItsParts
<1>8. CloseAt(t) \in Nat
  <2>1. CloseAt(t) \in OpenAt(t) + 1 .. Len(t) + 1 /\ OpenAt(t) \in 1 .. Len(t)
    BY <1>1, Parentheses
  <2>2. QED
    BY <1>1, <2>1
<1>9. ASSUME ~ WellFormed(t, p) PROVE ~ IsGroup(t)
  <2>1. CASE ~ IsField(PartIn(t, m + 1))
    BY <1>6, <1>7, <2>1
  <2>2. CASE ~ (b + 1 <= Len(t))
    BY <1>1, <1>3, <1>7, <1>8, <2>2
  <2>3. QED
    BY <1>3, <1>5, <1>9, <2>1, <2>2
<1>10. ASSUME WellFormed(t, p)
       PROVE  /\ IsField(PartIn(t, m + 1)) /\ ValueEnd(t, p) \in Nat
              /\ [name |-> NameAt(t, p), value |-> ValueAt(t, p)] = FieldIn(t, m + 1)
              /\ t[ValueEnd(t, p)] = ")" => m + 1 = CountIn(t) /\ ValueEnd(t, p) = CloseAt(t)
              /\ t[ValueEnd(t, p)] # ")" => /\ t[ValueEnd(t, p)] = "%" /\ m + 1 < CountIn(t)
                                            /\ Behind(t, m + 1) = ValueEnd(t, p) + 1
              /\ ValueEnd(t, p) <= Len(t)
  <2>1. /\ IsField(SubSeq(t, a, b)) /\ b + 1 <= Len(t) /\ ValueEnd(t, p) = b + 1
        /\ NameAt(t, p) = FieldName(SubSeq(t, a, b))
        /\ ValueAt(t, p) = FieldValue(SubSeq(t, a, b))
    BY <1>5, <1>10
  <2>2. t[b + 1] \in {"%", ")"}
    BY <2>1, <1>4 DEF PartFrom
  <2>3. [name |-> NameAt(t, p), value |-> ValueAt(t, p)] = FieldIn(t, m + 1)
    BY <1>3, <2>1 DEF FieldIn
  <2>4. t[b + 1] = ")" => m + 1 = CountIn(t) /\ b + 1 = CloseAt(t)
    BY <1>3, <2>1
  <2>5. t[b + 1] # ")" => /\ t[b + 1] = "%" /\ m + 1 < CountIn(t)
                          /\ Behind(t, m + 1) = (b + 1) + 1
    BY <1>3, <2>1, <2>2
  <2>6. PartIn(t, m + 1) = SubSeq(t, a, b)
    BY <1>3
  <2>7. IsField(PartIn(t, m + 1))
    BY <2>1, <2>6
  <2>8. b + 1 \in Nat
    OBVIOUS
  <2>9. QED
    BY <2>1, <2>3, <2>4, <2>5, <2>7, <2>8
<1>11. QED
  BY <1>9, <1>10

LEMMA FieldRead ==
  ASSUME ReadInv, pc = "field",
         \/ Parser!ParseFieldMalformed \/ Parser!GrowRefused
         \/ Parser!TextRefused \/ Parser!ParseField
  PROVE  ReadInv'
<1> DEFINE t == place
           g == parsed_group
           p == pos
<1>1. t \in Seq(STRING) /\ Len(t) \in Nat
  BY LinesAreTexts, LenProperties
<1>2. ~ refused /\ outcome = 0 /\ AtField(t, g, p)
  BY DEF ReadInv
<1>3. PICK m \in Nat : m < CountIn(t) /\ ParsedTo(t, g, m) /\ p = SkipBlanks(t, Behind(t, m))
  BY <1>2 DEF AtField
<1>4. /\ ~ WellFormed(t, p) => ~ IsGroup(t)
      /\ WellFormed(t, p) =>
           /\ IsField(PartIn(t, m + 1)) /\ ValueEnd(t, p) \in Nat
           /\ [name |-> NameAt(t, p), value |-> ValueAt(t, p)] = FieldIn(t, m + 1)
           /\ t[ValueEnd(t, p)] = ")" => m + 1 = CountIn(t) /\ ValueEnd(t, p) = CloseAt(t)
           /\ t[ValueEnd(t, p)] # ")" => /\ t[ValueEnd(t, p)] = "%" /\ m + 1 < CountIn(t)
                                         /\ Behind(t, m + 1) = ValueEnd(t, p) + 1
           /\ ValueEnd(t, p) <= Len(t)
  BY <1>1, <1>3, FieldHere
<1>5. OpenAt(t) <= Len(t) /\ CountIn(t) \in Nat
  <2>1. OpenAt(t) <= Len(t)
    BY <1>3 DEF ParsedTo
  <2>2. QED
    BY <1>1, <2>1, GroupIsItsParts
<1>6. CASE Parser!ParseFieldMalformed
  <2>1. ~ IsGroup(t)
    BY <1>4, <1>6, FieldTexts DEF Parser!ParseFieldMalformed
  <2>2. QED
    BY <1>6, <2>1, ReadFails DEF Parser!ParseFieldMalformed
<1>7. CASE Parser!GrowRefused \/ Parser!TextRefused
  BY <1>7, ReadFails DEF Parser!GrowRefused, Parser!TextRefused
<1>8. CASE Parser!ParseField
  <2> DEFINE v == ValueEnd(t, p)
             field == [name |-> Parser!field_name, value |-> Parser!field_value]
  <2>1. WellFormed(t, p) /\ refused' = refused
    BY <1>8, FieldTexts DEF Parser!ParseField
  <2>2. /\ IsField(PartIn(t, m + 1)) /\ v \in Nat /\ field = FieldIn(t, m + 1)
        /\ t[v] = ")" => m + 1 = CountIn(t) /\ v = CloseAt(t)
        /\ t[v] # ")" => t[v] = "%" /\ m + 1 < CountIn(t) /\ Behind(t, m + 1) = v + 1
        /\ v <= Len(t)
    BY <1>4, <2>1, FieldTexts
  <2>3. Parser!value_end = v
    BY FieldTexts
  <2>4. \A k : Parser!FieldMissing(k) <=> (SkipBlanks(t, k) <= Len(t) => t[SkipBlanks(t, k)] = ")")
    BY ParserTexts DEF Parser!FieldMissing
  <2> HIDE DEF v
  <2>5. CASE /\ t[v] = "%" /\ Parser!FieldMissing(v + 1)
             /\ \E blocks, count : Parser!Fail(blocks, count)
    <3>1. t[v] # ")"
      BY <2>5
    <3>2. m + 1 < CountIn(t) /\ Behind(t, m + 1) = v + 1
      BY <2>2, <3>1
    <3>3. PICK a \in Nat, h \in Nat : a = v + 1 /\ h = m + 1
      BY <2>2
    <3>4. SkipBlanks(t, a) <= Len(t) => t[SkipBlanks(t, a)] = ")"
      BY <2>4, <2>5, <3>3
    <3>5. h < CountIn(t) /\ a = Behind(t, h)
      BY <3>2, <3>3
    <3>6. ~ IsGroup(t)
      BY <1>1, <1>5, <3>4, <3>5, NothingIsNoField
    <3>7. QED
      BY <2>1, <2>5, <3>6, ReadFails
  <2>6. CASE /\ g' = [g EXCEPT !.fields = Append(@, field)]
             /\ IF t[v] = ")" THEN pc' = "end" /\ pos' = v + 1
                ELSE pc' = "field" /\ pos' = SkipBlanks(t, v + 1)
             /\ UNCHANGED <<place, outcome>>
    <3>1. PICK h \in Nat : h = m + 1
      OBVIOUS
    <3>2. Append(FieldsUpTo(t, m), FieldIn(t, m + 1)) = FieldsUpTo(t, m + 1)
      BY FieldsGrow
    <3>3. g = [name |-> GroupName(t), fields |-> FieldsUpTo(t, m)]
      BY <1>3 DEF ParsedTo
    <3>4. g' = [name |-> GroupName(t), fields |-> FieldsUpTo(t, h)]
      <4>1. g' = [g EXCEPT !.fields = Append(g.fields, FieldIn(t, h))]
        BY <2>2, <2>6, <3>1
      <4>2. g.fields = FieldsUpTo(t, m)
        BY <3>3
      <4>3. g' = [g EXCEPT !.fields = FieldsUpTo(t, h)]
        BY <3>1, <3>2, <4>1, <4>2
      <4> HIDE DEF g
      <4>4. QED
        BY <3>3, <4>3
    <3>5. \A k \in 1 .. h : IsField(PartIn(t, k))
      <4>1. \A k \in 1 .. m : IsField(PartIn(t, k))
        BY <1>3 DEF ParsedTo
      <4>2. \A k \in 1 .. h : k \in 1 .. m \/ k = m + 1
        BY <3>1
      <4>3. QED
        BY <2>2, <4>1, <4>2
    <3>6. h <= CountIn(t) /\ GroupName(t) # <<>>
      BY <1>3, <1>5, <3>1 DEF ParsedTo
    <3>7. ParsedTo(t, g', h)
      BY <1>5, <3>4, <3>5, <3>6 DEF ParsedTo
    <3>8. CASE t[v] = ")"
      <4>1. h = CountIn(t) /\ v = CloseAt(t) /\ pc' = "end" /\ pos' = v + 1
        BY <2>2, <2>6, <3>1, <3>8
      <4>2. AtEnd(t, g', pos')
        BY <2>2, <3>7, <4>1 DEF AtEnd
      <4>3. QED
        BY <1>2, <2>1, <2>6, <4>1, <4>2 DEF ReadInv
    <3>9. CASE t[v] # ")"
      <4>1. h < CountIn(t) /\ pc' = "field" /\ pos' = SkipBlanks(t, Behind(t, h))
        BY <2>2, <2>6, <3>1, <3>9
      <4>2. AtField(t, g', pos')
        BY <3>7, <4>1 DEF AtField
      <4>3. QED
        BY <1>2, <2>1, <2>6, <4>1, <4>2 DEF ReadInv
    <3>10. QED
      BY <3>8, <3>9
  <2>7. QED
    BY <1>8, <2>3, <2>5, <2>6, ParserTexts DEF Parser!ParseField
<1>9. QED
  BY <1>6, <1>7, <1>8

LEMMA EndRead ==
  ASSUME ReadInv, pc = "end", Parser!ParseEnd
  PROVE  ReadInv'
<1> DEFINE t == place
<1>1. t \in Seq(STRING) /\ Len(t) \in Nat
  BY LinesAreTexts, LenProperties
<1>2. ~ refused /\ outcome = 0 /\ AtEnd(t, parsed_group, pos)
  BY DEF ReadInv
<1>3. /\ OpenAt(t) <= Len(t) /\ GroupName(t) # <<>>
      /\ parsed_group = [name |-> GroupName(t), fields |-> FieldsUpTo(t, CountIn(t))]
      /\ \A k \in 1 .. CountIn(t) : IsField(PartIn(t, k))
      /\ CloseAt(t) <= Len(t) /\ pos = CloseAt(t) + 1
  BY <1>2 DEF AtEnd, ParsedTo
<1>4. CloseAt(t) \in 1 .. Len(t)
  <2>1. CloseAt(t) \in OpenAt(t) + 1 .. Len(t) + 1 /\ OpenAt(t) \in 1 .. Len(t)
    BY <1>1, <1>3, Parentheses
  <2>2. QED
    BY <1>1, <1>3, <2>1
<1>5. PICK a \in Nat : a = CloseAt(t) + 1 /\ a > 0 /\ a \in 1 .. Len(t) + 1
  BY <1>1, <1>4
<1>6. Parser!TrailingText <=> SkipBlanks(t, a) <= Len(t)
  BY <1>3, <1>5, ParserTexts DEF Parser!TrailingText
<1>7. SkipBlanks(t, a) <= Len(t) <=> ~ IsBlank(LineRest(t))
  <2>1. PICK s : s = SkipBlanks(t, a)
    OBVIOUS
  <2>2. /\ s \in Nat /\ s <= Len(t) + 1 /\ (s <= Len(t) => a <= s /\ t[s] # BLANK)
        /\ \A m \in a .. Len(t) : m < s => t[m] = BLANK
    BY <1>1, <1>5, <2>1, SkipBlanksSees
  <2>3. IsBlank(SubSeq(t, a, Len(t))) <=> \A k \in a .. Len(t) : t[k] = BLANK
    <3>1. Len(t) \in a - 1 .. Len(t)
      BY <1>1, <1>5
    <3>2. QED
      BY <1>1, <1>5, <3>1, BlankPiece
  <2>4. s <= Len(t) <=> ~ (\A k \in a .. Len(t) : t[k] = BLANK)
    BY <1>1, <1>5, <2>2
  <2>5. QED
    BY <1>5, <2>1, <2>3, <2>4 DEF LineRest
<1>8. /\ IsGroup(t) <=> IsBlank(LineRest(t))
      /\ GroupOf(t) = parsed_group
  <2>1. /\ IsGroup(t) <=> /\ CloseAt(t) <= Len(t) /\ GroupName(t) # <<>> /\ IsBlank(LineRest(t))
                          /\ \A k \in 1 .. CountIn(t) : IsField(PartIn(t, k))
        /\ GroupOf(t) = [name   |-> GroupName(t),
                         fields |-> [m \in 1 .. CountIn(t) |-> FieldIn(t, m)]]
    BY <1>1, <1>3, GroupIsItsParts
  <2>2. FieldsUpTo(t, CountIn(t)) = [m \in 1 .. CountIn(t) |-> FieldIn(t, m)]
    BY <1>1, <1>3, GroupIsItsParts, FieldsGrow
  <2>3. QED
    BY <1>3, <2>1, <2>2
<1>9. CASE Parser!TrailingText
  <2>1. ~ IsGroup(t)
    BY <1>6, <1>7, <1>8, <1>9
  <2>2. QED
    BY <1>9, <2>1, ReadFails DEF Parser!ParseEnd
<1>10. CASE ~ Parser!TrailingText
  <2>1. IsGroup(t)
    BY <1>6, <1>7, <1>8, <1>10
  <2>2. pc' = "done" /\ UNCHANGED <<place, parsed_group, outcome, refused>>
    BY <1>10 DEF Parser!ParseEnd
  <2>3. QED
    BY <1>2, <1>8, <2>1, <2>2 DEF ReadInv
<1>11. QED
  BY <1>9, <1>10

LEMMA ReadInit == Parser!Init => ReadInv
BY DEF Parser!Init, ReadInv

LEMMA ReadKept == ReadInv /\ [Parser!Next]_(Parser!vars) => ReadInv'
<1> SUFFICES ASSUME ReadInv, [Parser!Next]_(Parser!vars) PROVE ReadInv'
  OBVIOUS
<1>1. CASE Parser!ParseName
  BY <1>1, NameRead DEF Parser!ParseName
<1>2. CASE \/ Parser!ParseFieldMalformed \/ Parser!GrowRefused
           \/ Parser!TextRefused \/ Parser!ParseField
  BY <1>2, FieldRead DEF Parser!ParseFieldMalformed, Parser!GrowRefused,
     Parser!TextRefused, Parser!ParseField
<1>3. CASE Parser!ParseEnd
  BY <1>3, EndRead DEF Parser!ParseEnd
<1>4. CASE UNCHANGED Parser!vars
  BY <1>4 DEF ReadInv, Parser!vars
<1>5. QED
  BY <1>1, <1>2, <1>3, <1>4 DEF Parser!Next

(* Nor are those of the reader of an observed fingerprint others.          *)
LEMMA ObservedTexts ==
  /\ \A t : Observed!IsBlank(t) = IsBlank(t)
  /\ Observed!BLANK = BLANK
  /\ \A t, S, k : Observed!FirstOf(t, S, k) = FirstOf(t, S, k)
  /\ \A t, k : Observed!SkipBlanks(t, k) = SkipBlanks(t, k)
  /\ \A t : Observed!Trim(t) = Trim(t)
<1>1. Observed!BLANK = BLANK /\ \A S, e : Observed!LeastOf(S, e) = LeastOf(S, e)
  BY DEF Observed!BLANK, BLANK, Observed!LeastOf, LeastOf
<1>2. \A t, S, k : Observed!FirstOf(t, S, k) = FirstOf(t, S, k)
  BY <1>1 DEF Observed!FirstOf, FirstOf
<1>3. \A t, k : Observed!SkipBlanks(t, k) = SkipBlanks(t, k)
  BY <1>1 DEF Observed!SkipBlanks, SkipBlanks
<1>4. \A t : Observed!Trim(t) = Trim(t)
  BY <1>1, <1>3 DEF Observed!Trim, Trim
<1>5. \A t : Observed!Symbols(t) = Symbols(t)
  BY DEF Observed!Symbols, Symbols
<1>6. \A t : Observed!IsBlank(t) = IsBlank(t)
  BY <1>1, <1>5 DEF Observed!IsBlank, IsBlank
<1>7. QED
  BY <1>1, <1>2, <1>3, <1>4, <1>6

LEMMA ObservedGroups ==
  /\ \A S, n : Observed!Places(S, n) = Places(S, n)
  /\ \A S, e : Observed!LeastOf(S, e) = LeastOf(S, e)
  /\ \A t : Observed!OpenAt(t) = OpenAt(t) /\ Observed!GroupName(t) = GroupName(t)
  /\ \A t : Observed!IsGroup(t) = IsGroup(t)
  /\ \A t : Observed!GroupOf(t) = GroupOf(t)
<1>1. /\ Observed!BLANK = BLANK
      /\ \A t, S, k : Observed!FirstOf(t, S, k) = FirstOf(t, S, k)
      /\ \A t : Observed!Trim(t) = Trim(t)
  BY ObservedTexts
<1>2. \A t : Observed!OpenAt(t) = OpenAt(t)
  BY <1>1 DEF Observed!OpenAt, OpenAt
<1>3. \A t : Observed!CloseAt(t) = CloseAt(t)
  BY <1>1, <1>2 DEF Observed!CloseAt, CloseAt
<1>4. \A S, n : Observed!Places(S, n) = Places(S, n)
  BY DEF Observed!Places, Places, Observed!Selected, Selected
<1>5. \A t : Observed!Parts(t) = Parts(t)
  BY <1>4 DEF Observed!Parts, Parts
<1>6. \A t : Observed!Body(t) = Body(t)
  BY <1>2, <1>3, <1>5 DEF Observed!Body, Body
<1>7. \A t : Observed!FieldName(t) = FieldName(t) /\ Observed!FieldValue(t) = FieldValue(t)
  BY <1>1 DEF Observed!FieldName, FieldName, Observed!FieldValue, FieldValue
<1>8. \A t : Observed!GroupName(t) = GroupName(t)
  BY <1>1, <1>2 DEF Observed!GroupName, GroupName
<1>9. \A t : Observed!Symbols(t) = Symbols(t)
  BY DEF Observed!Symbols, Symbols
<1>10. \A t : Observed!IsBlank(t) = IsBlank(t)
  BY <1>1, <1>9 DEF Observed!IsBlank, IsBlank
<1>11. \A t : Observed!IsGroup(t) = IsGroup(t)
  BY <1>3, <1>6, <1>7, <1>8, <1>9, <1>10 DEF Observed!IsGroup, IsGroup
<1>12. \A t : Observed!GroupOf(t) = GroupOf(t)
  BY <1>6, <1>7, <1>8 DEF Observed!GroupOf, GroupOf
<1>13. \A S, e : Observed!LeastOf(S, e) = LeastOf(S, e)
  BY DEF Observed!LeastOf, LeastOf
<1>14. QED
  BY <1>2, <1>4, <1>8, <1>11, <1>12, <1>13
-----------------------------------------------------------------------------
(* Blanks before a line do not change what it means.                       *)

(* The text w is u without d blanks before it.                             *)
Indented(u, w, d) ==
  /\ d \in 0 .. Len(u) /\ \A k \in 1 .. d : u[k] = BLANK
  /\ w = SubSeq(u, d + 1, Len(u))

LEMMA IndentedText ==
  ASSUME NEW R, NEW u \in Seq(R), NEW w, NEW d \in Nat, Indented(u, w, d)
  PROVE  /\ w \in Seq(R) /\ Len(w) = Len(u) - d /\ Len(u) \in Nat /\ Len(w) \in Nat
         /\ \A i \in 1 .. Len(w) : w[i] = u[i + d]
         /\ \A i \in 1 .. Len(w) + 1, j \in Nat : j >= i - 1 /\ j <= Len(w) =>
              SubSeq(w, i, j) = SubSeq(u, i + d, j + d)
<1>1. /\ d \in 0 .. Len(u) /\ w = SubSeq(u, d + 1, Len(u)) /\ Len(u) \in Nat
  BY LenProperties DEF Indented
<1>2. d + 1 \in 1 .. Len(u) + 1 /\ Len(u) \in (d + 1) - 1 .. Len(u)
  BY <1>1
<1>3. /\ w \in Seq(R) /\ Len(w) = Len(u) - (d + 1) + 1
      /\ \A i \in 1 .. Len(u) - (d + 1) + 1 : w[i] = u[(d + 1) + i - 1]
  BY <1>1, <1>2, PieceOfText
<1>4. Len(w) = Len(u) - d /\ Len(w) \in Nat
  BY <1>1, <1>3
<1>5. \A i \in 1 .. Len(w) : w[i] = u[i + d]
  <2>1. \A i \in 1 .. Len(w) : (d + 1) + i - 1 = i + d
    BY <1>4
  <2>2. QED
    BY <1>3, <2>1
<1>6. ASSUME NEW i \in 1 .. Len(w) + 1, NEW j \in Nat, j >= i - 1, j <= Len(w)
      PROVE  SubSeq(w, i, j) = SubSeq(u, i + d, j + d)
  <2>1. i \in 1 .. (Len(u) - (d + 1) + 1) + 1 /\ j \in i - 1 .. Len(u) - (d + 1) + 1
    BY <1>3, <1>4, <1>6
  <2>2. SubSeq(SubSeq(u, d + 1, Len(u)), i, j) = SubSeq(u, (d + 1) + i - 1, (d + 1) + j - 1)
    BY <1>2, <2>1, PieceOfPiece
  <2>3. (d + 1) + i - 1 = i + d /\ (d + 1) + j - 1 = j + d
    BY <1>4
  <2>4. QED
    BY <1>1, <2>2, <2>3
<1>7. QED
  BY <1>1, <1>3, <1>4, <1>5, <1>6

LEMMA IndentedFirst ==
  ASSUME NEW R, NEW u \in Seq(R), NEW w, NEW d \in Nat, Indented(u, w, d), NEW S,
         NEW k \in Nat, k > 0
  PROVE  FirstOf(u, S, k + d) = FirstOf(w, S, k) + d /\ FirstOf(w, S, k) \in Nat
<1>1. /\ w \in Seq(R) /\ Len(w) = Len(u) - d /\ Len(u) \in Nat /\ Len(w) \in Nat
      /\ \A i \in 1 .. Len(w) : w[i] = u[i + d]
  BY IndentedText
<1>2. PICK f : f = FirstOf(w, S, k)
  OBVIOUS
<1>3. /\ f \in Nat /\ f <= Len(w) + 1 /\ (f <= Len(w) => k <= f /\ w[f] \in S)
      /\ \A m \in k .. Len(w) : m < f => w[m] \notin S
  BY <1>1, <1>2, FirstOfSees
<1>4. PICK g \in Nat, h \in Nat : g = f + d /\ h = k + d /\ h > 0
  BY <1>3
<1>5. g <= Len(u) + 1
  BY <1>1, <1>3, <1>4
<1>6. ASSUME g <= Len(u) PROVE h <= g /\ u[g] \in S
  <2>1. f <= Len(w) /\ k <= f
    BY <1>1, <1>3, <1>4, <1>6
  <2>2. f \in 1 .. Len(w)
    BY <1>3, <2>1
  <2>3. w[f] = u[g]
    BY <1>1, <1>4, <2>2
  <2>4. QED
    BY <1>3, <1>4, <2>1, <2>3
<1>7. ASSUME NEW m \in h .. Len(u), m < g PROVE u[m] \notin S
  <2>1. PICK j \in k .. Len(w) : j + d = m /\ j < f
    <3>1. m - d \in k .. Len(w) /\ (m - d) + d = m /\ m - d < f
      BY <1>1, <1>3, <1>4, <1>7
    <3>2. QED
      BY <3>1
  <2>2. w[j] \notin S /\ j \in 1 .. Len(w)
    BY <1>1, <1>3, <2>1
  <2>3. QED
    BY <1>1, <2>1, <2>2
<1>8. FirstOf(u, S, h) = g
  BY <1>4, <1>5, <1>6, <1>7, FirstOfIs
<1>9. QED
  BY <1>2, <1>3, <1>4, <1>8

LEMMA IndentedGroup ==
  ASSUME NEW R, NEW u \in Seq(R), NEW w, NEW d \in Nat, Indented(u, w, d)
  PROVE  /\ IsGroup(u) <=> IsGroup(w)
         /\ IsGroup(w) => GroupOf(u) = GroupOf(w)
<1>1. /\ w \in Seq(R) /\ Len(w) = Len(u) - d /\ Len(u) \in Nat /\ Len(w) \in Nat
      /\ \A i \in 1 .. Len(w) + 1, j \in Nat : j >= i - 1 /\ j <= Len(w) =>
           SubSeq(w, i, j) = SubSeq(u, i + d, j + d)
  BY IndentedText
<1>2. d <= Len(u) /\ \A k \in 1 .. d : u[k] = BLANK
  BY <1>1 DEF Indented
<1>3. PICK k \in Nat : k = 1 /\ k > 0
  OBVIOUS
<1>4. PICK x : x = FirstOf(w, {"("}, k)
  OBVIOUS
<1>5. x \in 1 .. Len(w) + 1 /\ OpenAt(w) = x
  <2>1. /\ FirstOf(w, {"("}, k) \in Nat /\ FirstOf(w, {"("}, k) <= Len(w) + 1
        /\ k <= Len(w) + 1 => k <= FirstOf(w, {"("}, k)
    BY <1>1, <1>3, FirstOfSees
  <2>2. QED
    BY <1>1, <1>3, <1>4, <2>1 DEF OpenAt
<1>6. OpenAt(u) = x + d
  <2>1. PICK g \in Nat, h \in Nat : g = x + d /\ h = k + d /\ h > 0
    BY <1>3, <1>5
  <2>2. FirstOf(u, {"("}, h) = g
    BY <1>3, <1>4, <2>1, IndentedFirst
  <2>3. /\ g <= Len(u) + 1 /\ (g <= Len(u) => h <= g /\ u[g] \in {"("})
        /\ \A m \in h .. Len(u) : m < g => u[m] \notin {"("}
    <3>1. /\ FirstOf(u, {"("}, h) <= Len(u) + 1
          /\ FirstOf(u, {"("}, h) <= Len(u) => h <= FirstOf(u, {"("}, h) /\ u[FirstOf(u, {"("}, h)] \in {"("}
          /\ \A m \in h .. Len(u) : m < FirstOf(u, {"("}, h) => u[m] \notin {"("}
      BY <2>1, FirstOfSees
    <3>2. QED
      BY <2>2, <3>1
  <2>4. \A m \in k .. Len(u) : m < g => u[m] \notin {"("}
    <3>1. ASSUME NEW m \in k .. Len(u), m < g PROVE u[m] # "("
      <4>1. m \in 1 .. d \/ m \in h .. Len(u)
        BY <1>1, <1>3, <2>1
      <4>2. CASE m \in 1 .. d
        BY <1>2, <4>2 DEF BLANK
      <4>3. CASE m \in h .. Len(u)
        BY <2>3, <3>1, <4>3
      <4>4. QED
        BY <4>1, <4>2, <4>3
    <3>2. QED
      BY <3>1
  <2>5. g <= Len(u) => k <= g /\ u[g] \in {"("}
    BY <1>3, <2>1, <2>3
  <2>6. FirstOf(u, {"("}, k) = g
    BY <1>3, <2>1, <2>3, <2>4, <2>5, FirstOfIs
  <2>7. QED
    BY <1>3, <2>1, <2>6 DEF OpenAt
<1>7. PICK y : y = FirstOf(w, {")"}, x + 1)
  OBVIOUS
<1>8. /\ y \in Nat /\ y <= Len(w) + 1 /\ (y <= Len(w) => x + 1 <= y)
      /\ CloseAt(w) = y /\ CloseAt(u) = y + d
  <2>1. PICK h \in Nat : h = x + 1 /\ h > 0
    BY <1>5
  <2>2. /\ FirstOf(w, {")"}, h) \in Nat /\ FirstOf(w, {")"}, h) <= Len(w) + 1
        /\ FirstOf(w, {")"}, h) <= Len(w) => h <= FirstOf(w, {")"}, h)
    BY <1>1, <2>1, FirstOfSees
  <2>3. FirstOf(u, {")"}, h + d) = FirstOf(w, {")"}, h) + d
    BY <2>1, IndentedFirst
  <2>4. (x + d) + 1 = h + d
    BY <1>5, <2>1
  <2>5. QED
    BY <1>5, <1>6, <1>7, <2>1, <2>2, <2>3, <2>4 DEF CloseAt
<1>9. GroupName(u) = GroupName(w)
  <2>1. PICK b \in Nat : b = x - 1
    BY <1>5
  <2>2. SubSeq(w, k, b) = SubSeq(u, k + d, b + d)
    <3>1. k \in 1 .. Len(w) + 1 /\ b >= k - 1 /\ b <= Len(w)
      BY <1>1, <1>3, <1>5, <2>1
    <3>2. QED
      BY <1>1, <3>1
  <2>3. Trim(SubSeq(u, k, b + d)) = Trim(SubSeq(u, k + d, b + d))
    <3>1. PICK e \in Nat, s \in Nat : e = b + d /\ s = k + d
      OBVIOUS
    <3>2. /\ k \in 1 .. Len(u) + 1 /\ e \in k - 1 .. Len(u) /\ s \in k .. e + 1
          /\ \A i \in k .. s - 1 : u[i] = BLANK
      BY <1>1, <1>2, <1>3, <1>5, <2>1, <3>1
    <3>3. Trim(SubSeq(u, k, e)) = Trim(SubSeq(u, s, e))
      BY <3>2, TrimSkips
    <3>4. QED
      BY <3>1, <3>3
  <2>4. (x + d) - 1 = b + d
    BY <1>5, <2>1
  <2>5. GroupName(u) = Trim(SubSeq(u, k, b + d)) /\ GroupName(w) = Trim(SubSeq(w, k, b))
    BY <1>3, <1>5, <1>6, <2>1, <2>4 DEF GroupName
  <2>6. QED
    BY <2>2, <2>3, <2>5
<1>10. y <= Len(w) <=> y + d <= Len(u)
  BY <1>1, <1>8
<1>11. ASSUME y <= Len(w)
       PROVE  /\ Body(u) = Body(w)
              /\ SubSeq(u, CloseAt(u) + 1, Len(u)) = SubSeq(w, CloseAt(w) + 1, Len(w))
  <2>1. SubSeq(w, x + 1, y - 1) = SubSeq(u, (x + d) + 1, (y + d) - 1)
    <3>1. PICK i \in 1 .. Len(w) + 1, j \in Nat : i = x + 1 /\ j = y - 1 /\ j >= i - 1 /\ j <= Len(w)
      <4>1. /\ x + 1 \in 1 .. Len(w) + 1 /\ y - 1 \in Nat /\ y - 1 >= (x + 1) - 1
            /\ y - 1 <= Len(w)
        BY <1>1, <1>5, <1>8, <1>11
      <4>2. QED
        BY <4>1
    <3>2. SubSeq(w, i, j) = SubSeq(u, i + d, j + d)
      BY <1>1, <3>1
    <3>3. i + d = (x + d) + 1 /\ j + d = (y + d) - 1
      BY <1>1, <1>5, <1>8, <3>1
    <3>4. QED
      BY <3>1, <3>2, <3>3
  <2>2. Body(u) = Body(w)
    BY <1>5, <1>6, <1>8, <2>1 DEF Body
  <2>3. SubSeq(w, y + 1, Len(w)) = SubSeq(u, (y + d) + 1, Len(u))
    <3>1. PICK i \in 1 .. Len(w) + 1, j \in Nat : i = y + 1 /\ j = Len(w) /\ j >= i - 1 /\ j <= Len(w)
      <4>1. y + 1 \in 1 .. Len(w) + 1 /\ Len(w) >= (y + 1) - 1
        BY <1>1, <1>8, <1>11
      <4>2. Len(w) \in Nat /\ Len(w) <= Len(w)
        BY <1>1
      <4>3. QED
        BY <4>1, <4>2
    <3>2. SubSeq(w, i, j) = SubSeq(u, i + d, j + d)
      BY <1>1, <3>1
    <3>3. i + d = (y + d) + 1 /\ j + d = Len(u)
      BY <1>1, <1>8, <3>1
    <3>4. QED
      BY <3>1, <3>2, <3>3
  <2>4. QED
    BY <1>8, <2>2, <2>3
<1>12. QED
  BY <1>8, <1>9, <1>10, <1>11 DEF IsGroup, GroupOf

-----------------------------------------------------------------------------
(* The lines of a text that are not blank, and the reader's walk over them.*)
EOL == Observed!NL

EndOf(x, k)    == FirstOf(x, {EOL}, k)
LineFrom(x, k) == SubSeq(x, k, EndOf(x, k) - 1)
Starts(x, k)   == k = 1 \/ x[k - 1] = EOL
ShownStarts(x) == {k \in 1 .. Len(x) + 1 : Starts(x, k) /\ ~ IsBlank(LineFrom(x, k))}
ShownMarks(x)  == AllMarks(Len(x) + 1, ShownStarts(x))
Past(x, p)     == Marks(Len(x) + 1, ShownStarts(x), p)
ShownAfter(x, k) == LeastOf({m \in k .. Len(x) : x[m] \notin {BLANK, EOL}}, Len(x) + 1)

LEMMA ShownAfterSees ==
  ASSUME NEW R, NEW x \in Seq(R), NEW k \in Nat, k > 0
  PROVE  /\ ShownAfter(x, k) \in Nat /\ ShownAfter(x, k) <= Len(x) + 1
         /\ ShownAfter(x, k) <= Len(x) => /\ k <= ShownAfter(x, k)
                                          /\ x[ShownAfter(x, k)] \notin {BLANK, EOL}
         /\ \A m \in k .. Len(x) : m < ShownAfter(x, k) => x[m] \in {BLANK, EOL}
<1> DEFINE W == {m \in 1 .. Len(x) : x[m] \notin {BLANK, EOL}}
<1>1. Len(x) \in Nat
  BY LenProperties
<1>2. {m \in k .. Len(x) : x[m] \notin {BLANK, EOL}} = {m \in k .. Len(x) : m \in W}
  BY <1>1
<1> HIDE DEF W
<1>3. FirstAmong(LeastOf({m \in k .. Len(x) : m \in W}, Len(x) + 1), Len(x), k, W)
  BY <1>1, LeastIsFirst
<1>4. FirstAmong(ShownAfter(x, k), Len(x), k, W)
  BY <1>2, <1>3 DEF ShownAfter
<1>5. QED
  BY <1>1, <1>4 DEF FirstAmong, W

LEMMA EndSees ==
  ASSUME NEW R, NEW x \in Seq(R), NEW k \in 1 .. Len(x) + 1
  PROVE  /\ EndOf(x, k) \in k .. Len(x) + 1
         /\ EndOf(x, k) <= Len(x) => x[EndOf(x, k)] = EOL
         /\ \A m \in k .. EndOf(x, k) - 1 : x[m] # EOL
<1>1. Len(x) \in Nat /\ k \in Nat /\ k > 0 /\ k <= Len(x) + 1
  BY LenProperties
<1>2. PICK e : e = EndOf(x, k)
  OBVIOUS
<1>3. /\ e \in Nat /\ e <= Len(x) + 1 /\ (e <= Len(x) => x[e] \in {EOL})
      /\ k <= Len(x) + 1 => k <= e
      /\ \A m \in k .. Len(x) : m < e => x[m] \notin {EOL}
  <2>1. /\ FirstOf(x, {EOL}, k) \in Nat /\ FirstOf(x, {EOL}, k) <= Len(x) + 1
        /\ FirstOf(x, {EOL}, k) <= Len(x) => k <= FirstOf(x, {EOL}, k) /\ x[FirstOf(x, {EOL}, k)] \in {EOL}
        /\ k <= Len(x) + 1 => k <= FirstOf(x, {EOL}, k)
        /\ \A m \in k .. Len(x) : m < FirstOf(x, {EOL}, k) => x[m] \notin {EOL}
    BY <1>1, FirstOfSees
  <2>2. QED
    BY <1>2, <2>1 DEF EndOf
<1>4. \A m \in k .. e - 1 : x[m] # EOL
  BY <1>1, <1>3
<1>5. QED
  BY <1>1, <1>2, <1>3, <1>4

LEMMA EndIs ==
  ASSUME NEW R, NEW x \in Seq(R), NEW k \in 1 .. Len(x) + 1, NEW e \in k .. Len(x) + 1,
         e <= Len(x) => x[e] = EOL, \A m \in k .. e - 1 : x[m] # EOL
  PROVE  EndOf(x, k) = e
<1>1. Len(x) \in Nat /\ k \in Nat /\ k > 0 /\ e \in Nat /\ e <= Len(x) + 1 /\ k <= e
  BY LenProperties
<1>2. e <= Len(x) => k <= e /\ x[e] \in {EOL}
  BY <1>1
<1>3. \A m \in k .. Len(x) : m < e => x[m] \notin {EOL}
  BY <1>1
<1>4. QED
  BY <1>1, <1>2, <1>3, FirstOfIs DEF EndOf

LEMMA BlankLine ==
  ASSUME NEW R, NEW x \in Seq(R), NEW k \in 1 .. Len(x) + 1,
         \A m \in k .. EndOf(x, k) - 1 : x[m] \in {BLANK, EOL}
  PROVE  k \notin ShownStarts(x)
<1>1. Len(x) \in Nat /\ EndOf(x, k) \in k .. Len(x) + 1
  BY EndSees, LenProperties
<1>2. \A m \in k .. EndOf(x, k) - 1 : x[m] # EOL
  BY EndSees
<1>3. \A m \in k .. EndOf(x, k) - 1 : x[m] = BLANK
  BY <1>2
<1>4. IsBlank(LineFrom(x, k))
  <2>1. EndOf(x, k) - 1 \in k - 1 .. Len(x)
    BY <1>1
  <2>2. QED
    BY <1>3, <2>1, BlankPiece DEF LineFrom
<1>5. QED
  BY <1>4 DEF ShownStarts

LEMMA ShownInText ==
  ASSUME NEW R, NEW x \in Seq(R)
  PROVE  Len(x) \in Nat /\ Len(x) + 1 \in Nat /\ ShownStarts(x) \in SUBSET (1 .. Len(x) + 1)
BY LenProperties DEF ShownStarts

(* Nothing visible is left: neither is a line.                             *)
LEMMA NoLineMet ==
  ASSUME NEW R, NEW x \in Seq(R), NEW p \in 0 .. Len(x) + 1, ShownAfter(x, p + 1) > Len(x)
  PROVE  Past(x, p) = ShownMarks(x)
<1> DEFINE M == Len(x) + 1
           S == ShownStarts(x)
<1>1. Len(x) \in Nat /\ M \in Nat /\ S \in SUBSET (1 .. M) /\ p \in Nat /\ p <= M
  BY ShownInText
<1>2. \A m \in p + 1 .. Len(x) : x[m] \in {BLANK, EOL}
  <2>1. PICK k \in Nat : k = p + 1 /\ k > 0
    BY <1>1
  <2>2. /\ ShownAfter(x, k) \in Nat
        /\ \A m \in k .. Len(x) : m < ShownAfter(x, k) => x[m] \in {BLANK, EOL}
    BY <2>1, ShownAfterSees
  <2>3. QED
    BY <1>1, <2>1, <2>2
<1>3. PICK d \in Nat : M = p + d
  <2>1. M - p \in Nat /\ M = p + (M - p)
    BY <1>1
  <2>2. QED
    BY <2>1
<1>4. \A j \in p + 1 .. p + d : j \notin S
  <2>1. ASSUME NEW j \in p + 1 .. p + d PROVE j \notin S
    <3>1. j \in 1 .. Len(x) + 1
      BY <1>1, <1>3
    <3>2. EndOf(x, j) \in j .. Len(x) + 1
      BY <3>1, EndSees
    <3>3. \A m \in j .. EndOf(x, j) - 1 : m \in p + 1 .. Len(x)
      BY <1>1, <3>1, <3>2
    <3>4. QED
      BY <1>2, <3>1, <3>3, BlankLine
  <2>2. QED
    BY <2>1
<1> HIDE DEF M, S
<1>5. Marks(M, S, p + d) = Marks(M, S, p)
  BY <1>1, <1>4, NoMarks
<1>6. QED
  BY <1>3, <1>5 DEF Past, ShownMarks, AllMarks, M, S

LEMMA NoStart ==
  ASSUME NEW R, NEW x \in Seq(R), NEW k \in Nat, NEW d \in Nat,
         \A i \in k + 1 .. k + d : i \notin ShownStarts(x)
  PROVE  Past(x, k + d) = Past(x, k)
<1> DEFINE M == Len(x) + 1
           S == ShownStarts(x)
<1>1. M \in Nat /\ S \in SUBSET (1 .. M) /\ \A j \in k + 1 .. k + d : j \notin S
  BY ShownInText
<1>2. \A j : Past(x, j) = Marks(M, S, j)
  BY DEF Past
<1> HIDE DEF M, S
<1>3. Marks(M, S, k + d) = Marks(M, S, k)
  BY <1>1, NoMarks
<1>4. QED
  BY <1>2, <1>3

(* What the reader takes for the next line is the next line that is not    *)
(* blank, without the blanks before it.                                    *)
NextLineIs(x, p, h, v, e, b) ==
  /\ e \in v + 1 .. Len(x) + 1 /\ (e <= Len(x) => x[e] = EOL)
  /\ h < Len(ShownMarks(x)) /\ Len(ShownMarks(x)) \in Nat
  /\ b = ShownMarks(x)[h + 1]
  /\ \E d \in Nat : Indented(LineFrom(x, b), SubSeq(x, v, e - 1), d)
  /\ LineFrom(x, b) = SubSeq(x, b, e - 1) /\ b \in p + 1 .. v
  /\ Len(Past(x, e)) = h + 1

LEMMA LineMet ==
  ASSUME NEW R, NEW x \in Seq(R), NEW p \in 0 .. Len(x), p = 0 \/ x[p] = EOL,
         NEW h \in Nat, Len(Past(x, p)) = h,
         NEW v, v = ShownAfter(x, p + 1), v <= Len(x)
  PROVE  \E b \in Nat : NextLineIs(x, p, h, v, EndOf(x, v), b)
<1> DEFINE M == Len(x) + 1
           S == ShownStarts(x)
<1>1. Len(x) \in Nat /\ M \in Nat /\ S \in SUBSET (1 .. M) /\ p \in Nat /\ p <= Len(x)
  BY ShownInText
<1>2. /\ v \in Nat /\ v >= p + 1 /\ x[v] \notin {BLANK, EOL}
      /\ \A m \in p + 1 .. v - 1 : x[m] \in {BLANK, EOL}
  <2>1. PICK k \in Nat : k = p + 1 /\ k > 0
    BY <1>1
  <2>2. v = ShownAfter(x, k)
    BY <2>1
  <2>3. /\ ShownAfter(x, k) \in Nat /\ ShownAfter(x, k) <= Len(x) + 1
        /\ ShownAfter(x, k) <= Len(x) => /\ k <= ShownAfter(x, k)
                                         /\ x[ShownAfter(x, k)] \notin {BLANK, EOL}
        /\ \A m \in k .. Len(x) : m < ShownAfter(x, k) => x[m] \in {BLANK, EOL}
    BY <2>1, ShownAfterSees
  <2>4. v \in Nat /\ k <= v /\ x[v] \notin {BLANK, EOL}
    BY <2>2, <2>3
  <2>5. \A m \in k .. v - 1 : m \in k .. Len(x) /\ m < v
    BY <1>1, <2>1, <2>4
  <2>6. \A m \in k .. v - 1 : x[m] \in {BLANK, EOL}
    BY <2>2, <2>3, <2>5
  <2>7. QED
    BY <2>1, <2>4, <2>6
<1> DEFINE B == {k \in p + 1 .. v : k = p + 1 \/ x[k - 1] = EOL}
<1>3. PICK b \in B : \A k \in B : k <= b
  <2>1. p + 1 \in B /\ B # {} /\ B \subseteq 0 .. v
    BY <1>1, <1>2
  <2>2. QED
    BY <1>2, <2>1, LargestMember
<1>4. b \in p + 1 .. v /\ b \in Nat /\ b \in 1 .. Len(x) + 1 /\ b <= v
  BY <1>1, <1>2
<1>5. Starts(x, b)
  BY <1>1, <1>3, <1>4 DEF Starts
<1>6. \A m \in b .. v - 1 : x[m] = BLANK
  <2>1. ASSUME NEW m \in b .. v - 1 PROVE x[m] = BLANK
    <3>1. m \in p + 1 .. v - 1 /\ m + 1 \in p + 1 .. v /\ m + 1 > b /\ (m + 1) - 1 = m
      BY <1>1, <1>2, <1>4
    <3>2. m + 1 \notin B
      BY <1>3, <1>4, <3>1
    <3>3. x[m] # EOL
      BY <3>1, <3>2
    <3>4. QED
      BY <1>2, <3>1, <3>3
  <2>2. QED
    BY <2>1
<1>7. v \in 1 .. Len(x) + 1 /\ v <= Len(x)
  BY <1>1, <1>2
<1>8. PICK e : e = EndOf(x, v)
  OBVIOUS
<1>9. /\ e \in v .. Len(x) + 1 /\ (e <= Len(x) => x[e] = EOL)
      /\ \A m \in v .. e - 1 : x[m] # EOL
  BY <1>7, <1>8, EndSees
<1>10. e \in v + 1 .. Len(x) + 1
  <2>1. e # v
    BY <1>2, <1>7, <1>9
  <2>2. QED
    BY <1>1, <1>2, <1>9, <2>1
<1>11. \A m \in b .. v - 1 : x[m] # EOL
  <2>1. ASSUME NEW m \in b .. v - 1 PROVE x[m] # EOL
    <3>1. m \in p + 1 .. v - 1 /\ m + 1 \in p + 1 .. v /\ m + 1 > b /\ (m + 1) - 1 = m
      BY <1>1, <1>2, <1>4
    <3>2. m + 1 \notin B
      BY <1>3, <1>4, <3>1
    <3>3. QED
      BY <3>1, <3>2
  <2>2. QED
    BY <2>1
<1>12. EndOf(x, b) = e
  <2>1. \A m \in b .. e - 1 : x[m] # EOL
    <3>1. \A m \in b .. e - 1 : m \in b .. v - 1 \/ m \in v .. e - 1
      BY <1>2, <1>4, <1>10
    <3>2. QED
      BY <1>9, <1>11, <3>1
  <2>2. e \in b .. Len(x) + 1
    BY <1>1, <1>2, <1>4, <1>10
  <2>3. QED
    BY <1>4, <1>9, <2>1, <2>2, EndIs
<1> HIDE DEF B
<1>13. LineFrom(x, b) = SubSeq(x, b, e - 1)
  BY <1>12 DEF LineFrom
<1>14. PICK j \in Nat, d \in Nat : j = e - 1 /\ v = b + d /\ j >= v /\ j <= Len(x)
  <2>1. e - 1 \in Nat /\ v - b \in Nat /\ v = b + (v - b) /\ e - 1 >= v /\ e - 1 <= Len(x)
    BY <1>1, <1>2, <1>4, <1>10
  <2>2. QED
    BY <2>1
<1>15. Indented(LineFrom(x, b), SubSeq(x, v, e - 1), d)
  <2> DEFINE u == SubSeq(x, b, j)
  <2>1. b \in 1 .. Len(x) + 1 /\ j \in b - 1 .. Len(x)
    BY <1>1, <1>4, <1>14
  <2>2. Len(u) = j - b + 1 /\ \A i \in 1 .. j - b + 1 : u[i] = x[b + i - 1]
    BY <2>1, PieceOfText
  <2>3. SubSeq(SubSeq(x, b, j), d + 1, j - b + 1) = SubSeq(x, b + (d + 1) - 1, b + (j - b + 1) - 1)
    <3>1. d + 1 \in 1 .. (j - b + 1) + 1 /\ j - b + 1 \in (d + 1) - 1 .. j - b + 1
      BY <1>1, <1>4, <1>14
    <3>2. QED
      BY <2>1, <3>1, PieceOfPiece
  <2>4. b + (d + 1) - 1 = v /\ b + (j - b + 1) - 1 = j
    BY <1>4, <1>14
  <2> HIDE DEF u
  <2>5. SubSeq(u, d + 1, Len(u)) = SubSeq(x, v, j)
    BY <2>2, <2>3, <2>4 DEF u
  <2>6. d \in 0 .. Len(u)
    BY <1>1, <1>4, <1>14, <2>2
  <2>7. \A i \in 1 .. d : u[i] = BLANK
    <3>1. ASSUME NEW i \in 1 .. d PROVE u[i] = BLANK
      <4>1. i \in 1 .. j - b + 1 /\ b + i - 1 \in b .. v - 1
        BY <1>4, <1>14
      <4>2. QED
        BY <1>6, <2>2, <4>1
    <3>2. QED
      BY <3>1
  <2>8. Indented(u, SubSeq(x, v, j), d)
    BY <2>5, <2>6, <2>7 DEF Indented
  <2>9. QED
    BY <1>13, <1>14, <2>8 DEF u
<1>16. b \in S
  <2>1. v \in b .. j
    BY <1>2, <1>4, <1>14
  <2>2. j \in b - 1 .. Len(x)
    BY <1>1, <1>4, <1>14
  <2>3. ~ IsBlank(SubSeq(x, b, j))
    <3>1. IsBlank(SubSeq(x, b, j)) <=> \A k \in b .. j : x[k] = BLANK
      BY <1>4, <2>2, BlankPiece
    <3>2. QED
      BY <1>2, <2>1, <3>1
  <2>4. QED
    BY <1>4, <1>5, <1>13, <1>14, <2>3 DEF ShownStarts
<1>17. PICK q \in Nat, f \in Nat : b = q + 1 /\ q = p + f
  <2>1. b - 1 \in Nat /\ b = (b - 1) + 1 /\ b - 1 - p \in Nat /\ b - 1 = p + (b - 1 - p)
    BY <1>1, <1>4
  <2>2. QED
    BY <2>1
<1>18. \A k \in p + 1 .. p + f : k \notin S
  <2>1. ASSUME NEW k \in p + 1 .. p + f PROVE k \notin S
    <3>1. k \in 1 .. Len(x) + 1 /\ k <= b - 1 /\ b - 1 >= p + 1 /\ b - 1 \in k .. Len(x)
      BY <1>1, <1>4, <1>17
    <3>2. x[b - 1] = EOL
      BY <1>1, <1>3, <1>4, <3>1 DEF B
    <3>3. PICK g : g = EndOf(x, k)
      OBVIOUS
    <3>4. g \in k .. Len(x) + 1 /\ \A m \in k .. g - 1 : x[m] # EOL
      BY <3>1, <3>3, EndSees
    <3>5. ~ (b - 1 \in k .. g - 1)
      BY <3>2, <3>4
    <3>6. g <= b - 1
      BY <1>1, <1>4, <3>1, <3>4, <3>5
    <3>7. \A m \in k .. g - 1 : m \in p + 1 .. v - 1
      BY <1>1, <1>2, <1>4, <3>1, <3>4, <3>6
    <3>8. \A m \in k .. EndOf(x, k) - 1 : x[m] \in {BLANK, EOL}
      BY <1>2, <3>3, <3>7
    <3>9. QED
      BY <3>1, <3>8, BlankLine
  <2>2. QED
    BY <2>1
<1>19. PICK z \in Nat : e = b + z
  <2>1. e - b \in Nat /\ e = b + (e - b)
    BY <1>1, <1>2, <1>4, <1>10
  <2>2. QED
    BY <2>1
<1>20. \A k \in b + 1 .. b + z : k \notin S
  <2>1. ASSUME NEW k \in b + 1 .. b + z PROVE k \notin S
    <3>1. k - 1 \in b .. e - 1 /\ k # 1
      BY <1>1, <1>4, <1>19
    <3>2. x[k - 1] # EOL
      <4>1. k - 1 \in b .. v - 1 \/ k - 1 \in v .. e - 1
        BY <1>2, <1>4, <1>10, <3>1
      <4>2. QED
        BY <1>9, <1>11, <4>1
    <3>3. QED
      BY <3>1, <3>2 DEF ShownStarts, Starts
  <2>2. QED
    BY <2>1
<1> HIDE DEF M, S
<1>21. ASSUME NEW k \in Nat, NEW g \in Nat, \A i \in k + 1 .. k + g : i \notin S
       PROVE  Marks(M, S, k + g) = Marks(M, S, k)
  BY <1>21, NoStart DEF Past, M, S
<1>22. Len(Marks(M, S, p)) = h
  BY DEF Past, M, S
<1>23. Len(Marks(M, S, q)) = h /\ q + 1 \in S
  <2>1. Marks(M, S, p + f) = Marks(M, S, p)
    BY <1>1, <1>18, <1>21
  <2>2. QED
    BY <1>16, <1>17, <1>22, <2>1
<1>24. /\ Len(Marks(M, S, q + 1)) = h + 1
       /\ h < Len(AllMarks(M, S)) /\ AllMarks(M, S)[h + 1] = q + 1
       /\ Len(AllMarks(M, S)) \in Nat
  BY <1>1, <1>23, MarkMet
<1>25. Marks(M, S, b + z) = Marks(M, S, b)
  BY <1>4, <1>20, <1>21
<1>26. Len(Marks(M, S, e)) = h + 1
  BY <1>17, <1>19, <1>24, <1>25
<1>27. /\ h < Len(ShownMarks(x)) /\ Len(ShownMarks(x)) \in Nat
       /\ b = ShownMarks(x)[h + 1] /\ Len(Past(x, e)) = h + 1
  BY <1>17, <1>24, <1>26 DEF ShownMarks, Past, M, S
<1>28. \E dd \in Nat : Indented(LineFrom(x, b), SubSeq(x, v, e - 1), dd)
  BY <1>15
<1>29. NextLineIs(x, p, h, v, e, b)
  BY <1>4, <1>9, <1>10, <1>13, <1>27, <1>28 DEF NextLineIs
<1>30. QED
  BY <1>4, <1>8, <1>29

ShownLine(x, n)  == LineFrom(x, ShownMarks(x)[n])
GroupsUpTo(x, h) == Firsts([n \in Nat |-> GroupOf(ShownLine(x, n))], h)

(* The reader is behind the first h lines and has stored their groups.     *)
WalkedTo(x, k, gs, h) ==
  /\ k \in 1 .. Len(x) + 2 /\ (k - 1 = 0 \/ k - 1 = Len(x) + 1 \/ x[k - 1] = EOL)
  /\ h \in Nat /\ Len(Past(x, k - 1)) = h
  /\ gs = GroupsUpTo(x, h) /\ \A n \in 1 .. h : IsGroup(ShownLine(x, n))

HasParsed(x, k, h, g) ==
  ShownAfter(x, k) <= Len(x) /\ IsGroup(ShownLine(x, h + 1)) /\ g = {GroupOf(ShownLine(x, h + 1))}

WalkInv ==
  /\ observed_text \in Texts /\ outcome \in {Observed!RUNNING, 0, -1}
  /\ outcome = Observed!RUNNING =>
       /\ ~ refused
       /\ \E h \in Nat : /\ WalkedTo(observed_text, place, groups, h)
                         /\ parsed = {} \/ HasParsed(observed_text, place, h, parsed)
  /\ refused => outcome = -1
  /\ outcome = 0 =>
       /\ groups = GroupsUpTo(observed_text, Len(ShownMarks(observed_text)))
       /\ \A n \in 1 .. Len(ShownMarks(observed_text)) : IsGroup(ShownLine(observed_text, n))
  /\ outcome = -1 /\ ~ refused =>
       \E n \in 1 .. Len(ShownMarks(observed_text)) : ~ IsGroup(ShownLine(observed_text, n))

LEMMA LinesOfReader ==
  ASSUME NEW R, observed_text \in Seq(R)
  PROVE  Observed!ShownLines = [n \in 1 .. Len(ShownMarks(observed_text)) |-> ShownLine(observed_text, n)]
<1> DEFINE x == observed_text
           S == ShownStarts(x)
           begin == {k \in 1 .. Len(x) + 1 : k > 1 => x[k - 1] = EOL}
<1>1. Len(x) \in Nat /\ Len(x) + 1 \in Nat /\ S \in SUBSET (1 .. Len(x) + 1)
  BY ShownInText
<1>2. \A k : Observed!LineAt(k) = LineFrom(x, k)
  BY ObservedTexts DEF Observed!LineAt, LineFrom, EndOf, EOL
<1>3. {k \in begin : ~ Observed!IsBlank(Observed!LineAt(k))} = S
  <2>1. \A k : Observed!IsBlank(Observed!LineAt(k)) = IsBlank(LineFrom(x, k))
    BY <1>2, ObservedTexts
  <2>2. \A k \in 1 .. Len(x) + 1 : (k > 1 => x[k - 1] = EOL) <=> Starts(x, k)
    BY <1>1 DEF Starts
  <2>3. QED
    BY <2>1, <2>2 DEF ShownStarts
<1>4. Observed!Places(S, Len(x) + 1) = ShownMarks(x)
  BY <1>1, ObservedGroups, PlacesAreMarks DEF ShownMarks
<1>5. DOMAIN ShownMarks(x) = 1 .. Len(ShownMarks(x))
  <2>1. ShownMarks(x) \in Seq(Nat)
    BY <1>1, MarksSteps DEF ShownMarks, AllMarks
  <2>2. QED
    BY <2>1, LenProperties
<1> HIDE DEF S
<1>6. Observed!ShownLines = LET shown_at == ShownMarks(x)
                            IN  [n \in DOMAIN shown_at |-> Observed!LineAt(shown_at[n])]
  <2>1. Observed!Places({k \in begin : ~ Observed!IsBlank(Observed!LineAt(k))}, Len(x) + 1)
          = ShownMarks(x)
    BY <1>3, <1>4
  <2>2. Observed!ShownLines =
          LET shown_at == Observed!Places({k \in begin : ~ Observed!IsBlank(Observed!LineAt(k))}, Len(x) + 1)
          IN  [n \in DOMAIN shown_at |-> Observed!LineAt(shown_at[n])]
    BY DEF Observed!ShownLines, EOL
  <2>3. QED
    BY <2>1, <2>2
<1>7. QED
  BY <1>2, <1>5, <1>6 DEF ShownLine

LEMMA WalkMeans == WalkInv => Observed!ReadsEveryLine
<1> SUFFICES ASSUME WalkInv PROVE Observed!ReadsEveryLine
  OBVIOUS
<1> DEFINE x == observed_text
           c == Len(ShownMarks(x))
<1>1. x \in Seq(STRING)
  BY LineAssumption DEF WalkInv
<1>2. Observed!ShownLines = [n \in 1 .. c |-> ShownLine(x, n)]
  BY <1>1, LinesOfReader
<1>3. /\ outcome \in {Observed!RUNNING, 0, -1} /\ (refused => outcome = -1)
      /\ outcome = 0 => /\ groups = GroupsUpTo(x, c)
                        /\ \A n \in 1 .. c : IsGroup(ShownLine(x, n))
      /\ outcome = -1 /\ ~ refused => \E n \in 1 .. c : ~ IsGroup(ShownLine(x, n))
  BY DEF WalkInv
<1>4. c \in Nat
  BY <1>1, ShownInText, MarksSteps DEF ShownMarks, AllMarks
<1>5. GroupsUpTo(x, c) = [n \in 1 .. c |-> GroupOf(ShownLine(x, n))]
  <2> HIDE DEF c
  <2>1. QED
    BY <1>4 DEF GroupsUpTo, Firsts
<1> HIDE DEF c
<1>6. /\ DOMAIN Observed!ShownLines = 1 .. c
      /\ \A n \in 1 .. c : Observed!ShownLines[n] = ShownLine(x, n)
  BY <1>2
<1>7. [n \in DOMAIN Observed!ShownLines |-> Observed!GroupOf(Observed!ShownLines[n])]
        = [n \in 1 .. c |-> GroupOf(ShownLine(x, n))]
  BY <1>6, ObservedGroups
<1>8. (\A n \in DOMAIN Observed!ShownLines : Observed!IsGroup(Observed!ShownLines[n]))
        <=> \A n \in 1 .. c : IsGroup(ShownLine(x, n))
  BY <1>6, ObservedGroups
<1>9. outcome # Observed!RUNNING => outcome = 0 \/ outcome = -1
  BY <1>3
<1>10. QED
  BY <1>3, <1>5, <1>7, <1>8, <1>9 DEF Observed!ReadsEveryLine

LEMMA WalkInit == Observed!Init => WalkInv
<1> SUFFICES ASSUME Observed!Init PROVE WalkInv
  OBVIOUS
<1> DEFINE x == observed_text
<1>1. /\ x \in Texts /\ x \in Seq(STRING) /\ place = 1 /\ groups = <<>> /\ parsed = {}
      /\ ~ refused /\ outcome = Observed!RUNNING /\ outcome # 0 /\ outcome # -1
  BY LineAssumption DEF Observed!Init, Observed!RUNNING
<1> HIDE DEF x
<1>2. Len(x) \in Nat /\ Len(x) + 1 \in Nat /\ ShownStarts(x) \in SUBSET (1 .. Len(x) + 1)
  BY <1>1, ShownInText
<1>3. Past(x, 0) = <<>> /\ Len(Past(x, 0)) = 0
  BY <1>2, MarksSteps DEF Past
<1>4. GroupsUpTo(x, 0) = <<>>
  BY FirstsGrow DEF GroupsUpTo
<1>5. WalkedTo(x, place, groups, 0)
  <2>1. 1 - 1 = 0 /\ 1 \in 1 .. Len(x) + 2 /\ 0 \in Nat
    BY <1>2
  <2>2. \A n \in 1 .. 0 : IsGroup(ShownLine(x, n))
    OBVIOUS
  <2>3. QED
    BY <1>1, <1>3, <1>4, <2>1, <2>2 DEF WalkedTo
<1>6. QED
  BY <1>1, <1>5 DEF WalkInv, x

(* The line the reader is at is the next of the lines that are not blank.  *)
LEMMA LineHere ==
  ASSUME NEW R, NEW x \in Seq(R), NEW k, NEW gs, NEW h \in Nat, WalkedTo(x, k, gs, h),
         NEW v, v = ShownAfter(x, k), v <= Len(x), NEW e, e = EndOf(x, v)
  PROVE  /\ h + 1 \in 1 .. Len(ShownMarks(x))
         /\ IsGroup(SubSeq(x, v, e - 1)) <=> IsGroup(ShownLine(x, h + 1))
         /\ IsGroup(SubSeq(x, v, e - 1)) =>
              GroupOf(SubSeq(x, v, e - 1)) = GroupOf(ShownLine(x, h + 1))
         /\ e \in Nat /\ e + 1 \in 1 .. Len(x) + 2 /\ (e = Len(x) + 1 \/ x[e] = EOL)
         /\ Len(Past(x, e)) = h + 1
<1>1. Len(x) \in Nat
  BY LenProperties
<1>2. PICK p \in Nat : p = k - 1 /\ k = p + 1 /\ p <= Len(x) + 1
  <2>1. k - 1 \in Nat /\ k = (k - 1) + 1 /\ k - 1 <= Len(x) + 1
    BY <1>1 DEF WalkedTo
  <2>2. QED
    BY <2>1
<1>3. (p = 0 \/ p = Len(x) + 1 \/ x[p] = EOL) /\ Len(Past(x, p)) = h
  BY <1>2 DEF WalkedTo
<1>4. v = ShownAfter(x, p + 1)
  BY <1>2
<1>5. v \in Nat /\ p + 1 <= v
  <2>1. k \in Nat /\ k > 0
    BY <1>2
  <2>2. ShownAfter(x, k) \in Nat /\ (ShownAfter(x, k) <= Len(x) => k <= ShownAfter(x, k))
    BY <2>1, ShownAfterSees
  <2>3. QED
    BY <1>2, <2>2
<1>6. p \in 0 .. Len(x) /\ (p = 0 \/ x[p] = EOL)
  BY <1>1, <1>3, <1>5
<1>7. PICK b \in Nat : NextLineIs(x, p, h, v, EndOf(x, v), b)
  BY <1>3, <1>4, <1>6, LineMet
<1>8. /\ e \in v + 1 .. Len(x) + 1 /\ (e <= Len(x) => x[e] = EOL)
      /\ h < Len(ShownMarks(x)) /\ Len(ShownMarks(x)) \in Nat
      /\ b = ShownMarks(x)[h + 1]
      /\ \E d \in Nat : Indented(LineFrom(x, b), SubSeq(x, v, e - 1), d)
      /\ LineFrom(x, b) = SubSeq(x, b, e - 1) /\ b \in p + 1 .. v
      /\ Len(Past(x, e)) = h + 1
  BY <1>7 DEF NextLineIs
<1>9. ShownLine(x, h + 1) = LineFrom(x, b)
  BY <1>8 DEF ShownLine
<1>10. LineFrom(x, b) \in Seq(R)
  <2>1. b \in 1 .. Len(x) + 1 /\ e - 1 \in b - 1 .. Len(x)
    BY <1>1, <1>5, <1>8
  <2>2. SubSeq(x, b, e - 1) \in Seq(R)
    BY <2>1, PieceOfText
  <2>3. QED
    BY <1>8, <2>2
<1>11. PICK d \in Nat : Indented(LineFrom(x, b), SubSeq(x, v, e - 1), d)
  BY <1>8
<1>12. /\ IsGroup(LineFrom(x, b)) <=> IsGroup(SubSeq(x, v, e - 1))
       /\ IsGroup(SubSeq(x, v, e - 1)) =>
            GroupOf(LineFrom(x, b)) = GroupOf(SubSeq(x, v, e - 1))
  BY <1>10, <1>11, IndentedGroup
<1>13. e \in Nat /\ e + 1 \in 1 .. Len(x) + 2 /\ (e = Len(x) + 1 \/ x[e] = EOL)
  <2>1. e \in v + 1 .. Len(x) + 1 /\ (e <= Len(x) => x[e] = EOL)
    BY <1>8
  <2>2. e \in Nat /\ e + 1 \in 1 .. Len(x) + 2 /\ (e = Len(x) + 1 \/ e <= Len(x))
    BY <1>1, <1>5, <2>1
  <2>3. QED
    BY <2>1, <2>2
<1>14. h + 1 \in 1 .. Len(ShownMarks(x))
  BY <1>8
<1>15. QED
  BY <1>8, <1>9, <1>12, <1>13, <1>14

LEMMA WalkFails ==
  ASSUME WalkInv, NEW blocks, Observed!Fail(blocks), outcome = Observed!RUNNING,
         \/ refused'
         \/ /\ refused' = refused
            /\ \E n \in 1 .. Len(ShownMarks(observed_text)) : ~ IsGroup(ShownLine(observed_text, n))
  PROVE  WalkInv'
BY DEF WalkInv, Observed!Fail, Observed!RUNNING

LEMMA WalkKept == WalkInv /\ [Observed!Next]_(Observed!vars) => WalkInv'
<1> SUFFICES ASSUME WalkInv, [Observed!Next]_(Observed!vars) PROVE WalkInv'
  OBVIOUS
<1> DEFINE x == observed_text
           c == Len(ShownMarks(x))
           v == ShownAfter(x, place)
           e == EndOf(x, v)
<1>1. x \in Texts /\ x \in Seq(STRING) /\ Len(x) \in Nat
  BY LineAssumption, LenProperties DEF WalkInv
<1>2. /\ Observed!next_visible = v
      /\ Observed!line_end = e /\ Observed!line_copy = SubSeq(x, v, e - 1)
  <2>1. Observed!next_visible = v
    BY ObservedTexts, ObservedGroups DEF Observed!next_visible, ShownAfter, EOL
  <2>2. QED
    BY <2>1, ObservedTexts DEF Observed!line_end, Observed!line_copy, EndOf, EOL
<1> HIDE DEF x, c, v, e
<1>3. ASSUME outcome = Observed!RUNNING
      PROVE  \E h \in Nat : /\ WalkedTo(x, place, groups, h)
                            /\ parsed = {} \/ HasParsed(x, place, h, parsed)
  BY <1>3 DEF WalkInv, x
<1>4. ASSUME NEW h \in Nat, WalkedTo(x, place, groups, h), v <= Len(x)
      PROVE  /\ h + 1 \in 1 .. c
             /\ IsGroup(SubSeq(x, v, e - 1)) <=> IsGroup(ShownLine(x, h + 1))
             /\ IsGroup(SubSeq(x, v, e - 1)) =>
                  GroupOf(SubSeq(x, v, e - 1)) = GroupOf(ShownLine(x, h + 1))
             /\ e \in Nat /\ e + 1 \in 1 .. Len(x) + 2 /\ (e = Len(x) + 1 \/ x[e] = EOL)
             /\ Len(Past(x, e)) = h + 1
  BY <1>1, <1>4, LineHere DEF c, v, e
<1>5. CASE Observed!ReadRefused
  BY <1>5, WalkFails DEF Observed!ReadRefused, Observed!Reading
<1>6. CASE Observed!ParseMalformed
  <2>1. /\ outcome = Observed!RUNNING /\ v <= Len(x) /\ ~ IsGroup(SubSeq(x, v, e - 1))
        /\ Observed!Fail(held) /\ refused' = refused
    BY <1>2, <1>6, ObservedGroups DEF Observed!ParseMalformed, Observed!Reading, x
  <2>2. PICK h \in Nat : WalkedTo(x, place, groups, h)
    BY <1>3, <2>1
  <2>3. h + 1 \in 1 .. c /\ ~ IsGroup(ShownLine(x, h + 1))
    BY <1>4, <2>1, <2>2
  <2>4. QED
    BY <2>1, <2>3, WalkFails DEF x, c
<1>7. CASE Observed!ParseLine
  <2>1. /\ outcome = Observed!RUNNING /\ v <= Len(x) /\ IsGroup(SubSeq(x, v, e - 1))
        /\ parsed' = {GroupOf(SubSeq(x, v, e - 1))}
        /\ UNCHANGED <<observed_text, place, groups, refused, outcome>>
    BY <1>2, <1>7, ObservedGroups DEF Observed!ParseLine, Observed!Reading, x
  <2>2. PICK h \in Nat : WalkedTo(x, place, groups, h)
    BY <1>3, <2>1
  <2>3. HasParsed(x, place, h, parsed')
    BY <1>4, <2>1, <2>2 DEF HasParsed, v
  <2>4. WalkedTo(x, place, groups, h) /\ x' = x /\ place' = place /\ groups' = groups
    BY <2>1, <2>2 DEF x
  <2>5. \E j \in Nat : /\ WalkedTo(observed_text', place', groups', j)
                       /\ parsed' = {} \/ HasParsed(observed_text', place', j, parsed')
    BY <2>3, <2>4 DEF x
  <2>6. ~ refused' /\ outcome' = Observed!RUNNING /\ observed_text' \in Texts
    BY <1>1, <2>1 DEF WalkInv, x
  <2>7. QED
    BY <2>5, <2>6 DEF WalkInv, Observed!RUNNING
<1>8. CASE Observed!GrowRefused
  BY <1>8, WalkFails DEF Observed!GrowRefused
<1>9. CASE Observed!StoreGroup
  <2>1. /\ outcome = Observed!RUNNING /\ \E g \in parsed : groups' = Append(groups, g)
        /\ place' = e + 1 /\ parsed' = {}
        /\ UNCHANGED <<observed_text, refused, outcome>>
    BY <1>2, <1>9 DEF Observed!StoreGroup, Observed!next_line
  <2>2. PICK h \in Nat : WalkedTo(x, place, groups, h) /\ HasParsed(x, place, h, parsed)
    BY <1>3, <2>1
  <2>3. /\ v <= Len(x) /\ IsGroup(ShownLine(x, h + 1))
        /\ groups' = Append(groups, GroupOf(ShownLine(x, h + 1)))
    BY <2>1, <2>2 DEF HasParsed, v
  <2>4. /\ e \in Nat /\ e + 1 \in 1 .. Len(x) + 2 /\ (e = Len(x) + 1 \/ x[e] = EOL)
        /\ Len(Past(x, e)) = h + 1
    BY <1>4, <2>2, <2>3
  <2>5. PICK j \in Nat : j = h + 1
    OBVIOUS
  <2>6. groups = GroupsUpTo(x, h) /\ \A n \in 1 .. h : IsGroup(ShownLine(x, n))
    BY <2>2 DEF WalkedTo
  <2>7. groups' = GroupsUpTo(x, j)
    <3> DEFINE f == [n \in Nat |-> GroupOf(ShownLine(x, n))]
    <3>1. f[h + 1] = GroupOf(ShownLine(x, h + 1))
      OBVIOUS
    <3>2. \A n : GroupsUpTo(x, n) = Firsts(f, n)
      BY DEF GroupsUpTo
    <3> HIDE DEF f
    <3>3. Append(Firsts(f, h), f[h + 1]) = Firsts(f, h + 1)
      BY FirstsGrow
    <3>4. QED
      BY <2>3, <2>5, <2>6, <3>1, <3>2, <3>3
  <2>8. \A n \in 1 .. j : IsGroup(ShownLine(x, n))
    <3>1. \A n \in 1 .. j : n \in 1 .. h \/ n = h + 1
      BY <2>5
    <3>2. QED
      BY <2>3, <2>6, <3>1
  <2>9. WalkedTo(x, e + 1, groups', j)
    <3>1. (e + 1) - 1 = e
      BY <1>1, <2>4
    <3>2. QED
      BY <2>4, <2>5, <2>7, <2>8, <3>1 DEF WalkedTo
  <2>10. \E i \in Nat : WalkedTo(observed_text', place', groups', i)
    BY <2>1, <2>9 DEF x
  <2>11. ~ refused' /\ outcome' = Observed!RUNNING /\ observed_text' \in Texts
    BY <1>1, <2>1 DEF WalkInv, x
  <2>12. QED
    BY <2>1, <2>10, <2>11 DEF WalkInv, Observed!RUNNING
<1>10. CASE Observed!ReadEnd
  <2>1. /\ outcome = Observed!RUNNING /\ parsed = {} /\ v > Len(x) /\ outcome' = 0
        /\ UNCHANGED <<observed_text, groups, refused>>
    BY <1>2, <1>10 DEF Observed!ReadEnd, x
  <2>2. PICK h \in Nat : WalkedTo(x, place, groups, h)
    BY <1>3, <2>1
  <2>3. PICK p \in 0 .. Len(x) + 1 : p = place - 1 /\ p + 1 = place
    <3>1. place - 1 \in 0 .. Len(x) + 1 /\ (place - 1) + 1 = place
      BY <1>1, <2>2 DEF WalkedTo
    <3>2. QED
      BY <3>1
  <2>4. ShownAfter(x, p + 1) > Len(x)
    BY <2>1, <2>3 DEF v
  <2>5. Past(x, p) = ShownMarks(x)
    BY <1>1, <2>4, NoLineMet
  <2>6. c = h
    BY <2>2, <2>3, <2>5 DEF WalkedTo, c
  <2>7. groups' = GroupsUpTo(x, c) /\ \A n \in 1 .. c : IsGroup(ShownLine(x, n))
    BY <2>1, <2>2, <2>6 DEF WalkedTo
  <2>8. ~ refused' /\ observed_text' \in Texts
    BY <1>1, <2>1 DEF WalkInv, x
  <2>9. QED
    BY <2>1, <2>7, <2>8 DEF WalkInv, Observed!RUNNING, x, c
<1>11. CASE UNCHANGED Observed!vars
  BY <1>11 DEF WalkInv, Observed!vars
<1>12. QED
  BY <1>5, <1>6, <1>7, <1>8, <1>9, <1>10, <1>11 DEF Observed!Next

-----------------------------------------------------------------------------
(* All of them in the behaviours of the run.                               *)

PartInv == /\ part = "group" => GroupInv /\ ReadInv
           /\ part = "observed" => ObservedInv /\ WalkInv
           /\ part = "database" => DatabaseInv

LEMMA PartInvariant == SpecPart => []PartInv
<1> DEFINE all == <<part, vars, group_vars, observed_vars, database_vars,
                    pos, groups, held, refused, outcome>>
<1>1. InitPart => PartInv
  BY GroupInit, ReadInit, ObservedInit, WalkInit, DatabaseInit DEF InitPart, PartInv
<1>2. PartInv /\ [NextPart]_all => PartInv'
  <2> SUFFICES ASSUME PartInv, [NextPart]_all PROVE PartInv'
    OBVIOUS
  <2>1. UNCHANGED part
    BY DEF NextPart
  <2>2. part = "group" => [Parser!Next]_(Parser!vars)
    BY DEF NextPart, group_vars, Parser!vars
  <2>3. part = "observed" => [Observed!Next]_(Observed!vars)
    BY DEF NextPart, group_vars, observed_vars, Observed!vars
  <2>4. part = "database" => [Database!Next]_(Database!vars)
    BY DEF NextPart, database_vars, Database!vars
  <2>5. QED
    BY <2>1, <2>2, <2>3, <2>4, GroupKept, ReadKept, ObservedKept, WalkKept, DatabaseKept
    DEF PartInv
<1>3. QED
  BY <1>1, <1>2, PTL DEF SpecPart

(* Whichever allocation is refused and wherever a line stops being a       *)
(* group, a failure leaves no block behind and a success exactly those of  *)
(* the groups handed out.                                                  *)
THEOREM EveryBlockAccounted == SpecPart => []BlocksAccounted
<1>1. PartInv => BlocksAccounted
  BY DEF PartInv, GroupInv, ObservedInv, BlocksAccounted
<1>2. QED
  BY <1>1, PartInvariant, PTL

(* Every reference that is handed to the search is well-formed and the next*)
(* one of the file, although the reader meets the header after it before it*)
(* knows that the reference is over; reading stops at the end of the file, *)
(* at a malformed reference or with a failure: for files of any length.    *)
THEOREM ReferencesInOrder == SpecPart => []ReadsReferencesInOrder
<1>1. PartInv => ReadsReferencesInOrder
  BY DatabaseReadInOrder DEF PartInv, ReadsReferencesInOrder
<1>2. QED
  BY <1>1, PartInvariant, PTL

(* While memory lasts, a line is accepted exactly when it is a group, a    *)
(* text exactly when every line of it that is not blank is one, and what   *)
(* they say is what is stored: for texts of any length, with any symbols   *)
(* between the separators and blanks wherever there are some.              *)
THEOREM WhatIsWrittenIsRead == SpecPart => []ReadsWhatIsWritten
<1>1. PartInv => ReadsWhatIsWritten
  BY ReadMeans, WalkMeans DEF PartInv, ReadsWhatIsWritten
<1>2. QED
  BY <1>1, PartInvariant, PTL
=============================================================================
