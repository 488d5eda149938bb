----------------------------- MODULE GroupParser -----------------------------
(***************************************************************************)
(* parse_fingerprint_group (src/src/database.c), the parser of every line  *)
(* of the database and of the observed fingerprint: one step for the group *)
(* name, one for each field, one for what follows the ")".  Every block it *)
(* asks for may be refused, and every failure frees what it holds with     *)
(* free_fingerprint_group.  Text is a sequence of symbols (GroupText).     *)
(***************************************************************************)
EXTENDS GroupText

CONSTANTS Lines        \* texts the parser is given

VARIABLES
  line,      \* the text
  pos,       \* where the scan is, from 1
  pc,        \* "name", "field", "end" or "done"
  group,     \* what has been parsed, [name, fields]
  held,      \* heap blocks allocated and not freed
  refused,   \* an allocation has failed (history)
  result     \* 0 or -1 when done

vars == <<line, pos, pc, group, held, refused, result>>

NAME  == <<"name">>           \* blocks: the group's name, its field array,
ARRAY == <<"array">>          \* the name and the value of field k
Of(k) == {<<"field name", k>>, <<"value", k>>}

NoGroup == [name |-> <<>>, fields |-> <<>>]

Init == /\ line \in Lines /\ pos = 1 /\ pc = "name" /\ group = NoGroup
        /\ held = {} /\ refused = FALSE /\ result = 0

(* What free_fingerprint_group frees of a group with count fields.         *)
free_fingerprint_group(count) ==
  {NAME, ARRAY} \cup UNION {Of(k) : k \in 1 .. count}

(* Failure with the given blocks in hand and count fields in the group.    *)
Fail(blocks, count) ==
  /\ pc' = "done" /\ result' = -1
  /\ held' = blocks \ free_fingerprint_group(count)
  /\ UNCHANGED <<line, pos, group>>

FieldCount == Len(group.fields)

(* After a separator: the end of the text or a ")" means a field missing.  *)
FieldMissing(k) == LET n == SkipBlanks(line, k)
                   IN  n <= Len(line) => line[n] = ")"

NameFound == OpenAt(line) <= Len(line) /\ GroupName(line) # <<>>

ParseName ==
  /\ pc = "name"
  /\ \/ /\ NameFound => FieldMissing(OpenAt(line) + 1)
        /\ Fail(IF NameFound THEN {NAME} ELSE {}, 0) /\ UNCHANGED refused
     \/ NameFound /\ Fail({}, 0) /\ refused' = TRUE
     \/ /\ NameFound /\ ~FieldMissing(OpenAt(line) + 1)
        /\ group' = [group EXCEPT !.name = GroupName(line)]
        /\ held' = {NAME}
        /\ pos' = SkipBlanks(line, OpenAt(line) + 1) /\ pc' = "field"
        /\ UNCHANGED <<line, refused, result>>

(* Mutant: an equals sign ends a value.                                    *)
value_end_at_equals == FirstOf(line, {"=", "%", ")"}, FirstOf(line, {"="}, pos) + 1)

name_end  == FirstOf(line, {"=", "%", ")"}, pos)
value_end == FirstOf(line, {"%", ")"}, FirstOf(line, {"="}, pos) + 1)

field_name  == Trim(SubSeq(line, pos, name_end - 1))
field_value == Trim(SubSeq(line, name_end + 1, value_end - 1))

FieldWellFormed ==
  /\ name_end <= Len(line) /\ line[name_end] = "="
  /\ field_name # <<>> /\ value_end <= Len(line)

ParseFieldMalformed ==
  /\ pc = "field" /\ ~FieldWellFormed
  /\ Fail(held, FieldCount) /\ UNCHANGED refused

GrowRefused ==
  /\ pc = "field" /\ FieldWellFormed
  /\ Fail(held, FieldCount) /\ refused' = TRUE

(* Mutant: the field counts once both its texts are there.                 *)
counted_before_use_late == FieldCount

(* The field counts before its two blocks are asked for, so that whichever *)
(* of them there is gets freed.                                            *)
counted_before_use == FieldCount + 1

TextRefused ==
  /\ pc = "field" /\ FieldWellFormed
  /\ \E got \in SUBSET Of(FieldCount + 1) :
       /\ got # Of(FieldCount + 1)
       /\ Fail(held \cup {ARRAY} \cup got, counted_before_use)
  /\ refused' = TRUE

(* The field is stored; behind a "%" another one must follow.              *)
ParseField ==
  /\ pc = "field" /\ FieldWellFormed
  /\ LET blocks == held \cup {ARRAY} \cup Of(FieldCount + 1)
     IN  IF line[value_end] = "%" /\ FieldMissing(value_end + 1)
         THEN Fail(blocks, FieldCount + 1)
         ELSE /\ group' = [group EXCEPT !.fields =
                             Append(@, [name |-> field_name, value |-> field_value])]
              /\ held' = blocks
              /\ IF line[value_end] = ")"
                 THEN pc' = "end" /\ pos' = value_end + 1
                 ELSE pc' = "field" /\ pos' = SkipBlanks(line, value_end + 1)
              /\ UNCHANGED <<line, result>>
  /\ UNCHANGED refused

(* Mutant: what follows the closing parenthesis is not looked at.          *)
TrailingText_ignored == FALSE

TrailingText == SkipBlanks(line, pos) <= Len(line)

ParseEnd ==
  /\ pc = "end"
  /\ IF TrailingText THEN Fail(held, FieldCount)
     ELSE pc' = "done" /\ UNCHANGED <<line, pos, group, held, result>>
  /\ UNCHANGED refused

Next == ParseName \/ ParseFieldMalformed \/ GrowRefused \/ TextRefused
          \/ ParseField \/ ParseEnd

Spec == Init /\ [][Next]_vars

-----------------------------------------------------------------------------
(* When memory lasts, the parser accepts exactly the lines that are groups *)
(* and stores what they say; an allocation that fails is always reported.  *)
ParsesGroups ==
  pc = "done" =>
    IF refused THEN result = -1
    ELSE /\ (result = 0) <=> IsGroup(line)
         /\ result = 0 => group = GroupOf(line)

(* A failure leaves no block behind, whichever allocation or symbol caused *)
(* it; a success leaves exactly the blocks of the group it hands out.      *)
BlocksAccounted ==
  pc = "done" =>
    held = IF result = -1 THEN {}
           ELSE {NAME, ARRAY} \cup UNION {Of(k) : k \in 1 .. FieldCount}
=============================================================================
