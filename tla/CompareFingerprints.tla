------------------------- MODULE CompareFingerprints -------------------------
(***************************************************************************)
(* compare_fingerprints (src/src/matcher.c): each field that an observed   *)
(* group and the reference group of its name have in common earns its      *)
(* points if the observed value satisfies the reference's expression.      *)
(* Each step is one turn of the inner loop, or one of the outer.           *)
(*                                                                         *)
(* A fingerprint is a sequence of groups [name, fields], a group's fields  *)
(* a sequence of [name, value].  What match_expression says of the value   *)
(* of a reference field, 1, 0 or -1, is MatchExpression's business; here a *)
(* reference field has that answer for value.                              *)
(***************************************************************************)
EXTENDS Integers, Sequences, FiniteSets

CONSTANTS
  Observed,       \* observed fingerprints
  References,     \* reference fingerprints
  Weights         \* tables of points: sequences of [group, field, points]

VARIABLES
  observed, reference, weights,    \* the arguments
  i, j,                            \* indices of the two loops, from 1
  res,                             \* [compared, matched, possible]
  result                           \* 0 or -1, or RUNNING

vars == <<observed, reference, weights, i, j, res, result>>

RUNNING == -2

(* The first of the places, or 0 if there is none.                         *)
First(places) == IF places = {} THEN 0
                 ELSE CHOOSE k \in places : \A m \in places : k <= m

find_group(fingerprint, name) ==
  First({k \in DOMAIN fingerprint : fingerprint[k].name = name})

find_field(group, name) ==
  First({k \in DOMAIN group.fields : group.fields[k].name = name})

find_match_weight(group, field) ==
  First({k \in DOMAIN weights : weights[k].group = group /\ weights[k].field = field})

(* What the readers hand out: every group is named once, and every field   *)
(* of a group; a table has one number of points for a field.               *)
OnceEach(s) == \A k, m \in DOMAIN s : s[k].name = s[m].name => k = m

IsFingerprint(f) ==
  /\ f \in Seq([name : STRING, fields : Seq([name : STRING, value : -1 .. 1])])
  /\ OnceEach(f) /\ \A g \in DOMAIN f : OnceEach(f[g].fields)

IsTable(w) ==
  /\ w \in Seq([group : STRING, field : STRING, points : Nat])
  /\ \A k, m \in DOMAIN w :
       w[k].group = w[m].group /\ w[k].field = w[m].field => w[k].points = w[m].points

Init == /\ observed \in Observed /\ reference \in References /\ weights \in Weights
        /\ i = 1 /\ j = 1 /\ res = [compared |-> 0, matched |-> 0, possible |-> 0]
        /\ result = RUNNING

Running   == result = RUNNING /\ i <= Len(observed)
ObsGroup  == observed[i]
RefIndex  == find_group(reference, ObsGroup.name)
RefGroup  == reference[RefIndex]

(* No group of this name, or all its fields have been seen.                *)
NextGroup ==
  /\ Running /\ IF RefIndex = 0 THEN TRUE ELSE j > Len(RefGroup.fields)
  /\ i' = i + 1 /\ j' = 1
  /\ UNCHANGED <<observed, reference, weights, res, result>>

InGroup  == Running /\ RefIndex # 0 /\ j <= Len(RefGroup.fields)
RefField == RefGroup.fields[j]
Shared   == find_field(ObsGroup, RefField.name) # 0
Weight   == find_match_weight(ObsGroup.name, RefField.name)
Points   == weights[Weight].points

NotShared ==
  /\ InGroup /\ ~Shared
  /\ j' = j + 1
  /\ UNCHANGED <<observed, reference, weights, i, res, result>>

NoWeight ==
  /\ InGroup /\ Shared /\ Weight = 0
  /\ result' = -1
  /\ UNCHANGED <<observed, reference, weights, i, j, res>>

(* A field without points is not even looked at.                           *)
NoPoints ==
  /\ InGroup /\ Shared /\ Weight # 0 /\ Points = 0
  /\ j' = j + 1
  /\ UNCHANGED <<observed, reference, weights, i, res, result>>

Worth == InGroup /\ Shared /\ Weight # 0 /\ Points # 0

InvalidExpression ==
  /\ Worth /\ RefField.value = -1
  /\ result' = -1
  /\ UNCHANGED <<observed, reference, weights, i, j, res>>

(* Mutant: only the points that are earned count as possible.              *)
scored_possible_if_matched(points, answer) ==
  [compared |-> res.compared + 1,
   matched  |-> res.matched + answer * points,
   possible |-> res.possible + answer * points]

scored(points, answer) ==
  [compared |-> res.compared + 1,
   matched  |-> res.matched + answer * points,
   possible |-> res.possible + points]

CompareField ==
  /\ Worth /\ RefField.value # -1
  /\ res' = scored(Points, RefField.value)
  /\ j' = j + 1
  /\ UNCHANGED <<observed, reference, weights, i, result>>

Finish ==
  /\ result = RUNNING /\ i > Len(observed)
  /\ result' = 0
  /\ UNCHANGED <<observed, reference, weights, i, j, res>>

Next == NextGroup \/ NotShared \/ NoWeight \/ NoPoints \/ InvalidExpression
          \/ CompareField \/ Finish

Spec == Init /\ [][Next]_vars

-----------------------------------------------------------------------------
(* The same comparison over sets of (group, field) pairs, without order.   *)
Pairs(fingerprint) ==
  UNION {{<<fingerprint[g].name, fingerprint[g].fields[f].name>> :
            f \in DOMAIN fingerprint[g].fields} : g \in DOMAIN fingerprint}

Common == Pairs(observed) \cap Pairs(reference)

PointsOf(p) ==
  {weights[k].points : k \in {m \in DOMAIN weights : <<weights[m].group, weights[m].field>> = p}}

Worths(p) == CHOOSE x \in PointsOf(p) : TRUE

Answer(p) == CHOOSE a \in -1 .. 1 :
               \E g \in DOMAIN reference : \E f \in DOMAIN reference[g].fields :
                 /\ <<reference[g].name, reference[g].fields[f].name>> = p
                 /\ reference[g].fields[f].value = a

(* The points of a set of pairs, taken out one by one in any order.        *)
Sum(S) ==
  LET sum[T \in SUBSET S] == IF T = {} THEN 0
                             ELSE LET p == CHOOSE p \in T : TRUE
                                  IN  Worths(p) + sum[T \ {p}]
  IN  sum[S]

WorthPoints == {p \in Common : PointsOf(p) # {0}}
Failing     == {p \in WorthPoints : PointsOf(p) = {} \/ Answer(p) = -1}
Matching    == {p \in WorthPoints : Answer(p) = 1}

(* The score is the share of the points of the common fields, wherever the *)
(* groups and fields stand: each counts once, those without points never;  *)
(* and the comparison fails exactly when a common field has no weight, or  *)
(* one with points has an invalid expression.                              *)
ScoresCommonFields ==
  /\ result = -1 => Failing # {}
  /\ result = 0  => /\ Failing = {}
                    /\ res.compared = Cardinality(WorthPoints)
                    /\ res.possible = Sum(WorthPoints)
                    /\ res.matched = Sum(Matching)
=============================================================================
