--------------------------- MODULE ObservedReader ---------------------------
(***************************************************************************)
(* parse_observed_fingerprint (src/src/database.c): the text of the        *)
(* observed fingerprint, a line per group, becomes an array of groups.     *)
(* Each line is copied, given to parse_fingerprint_group (GroupParser; the *)
(* promise that module checks stands for it here) and the copy is freed.   *)
(* Every allocation may fail.                                              *)
(***************************************************************************)
EXTENDS GroupText

CONSTANTS Texts          \* sequences of symbols, with line ends

VARIABLES
  text,
  line,        \* position in the text, from 1
  groups,      \* groups stored so far
  parsed,      \* a singleton with the group just parsed, or {}
  held,        \* heap blocks: "copy", "array" and the blocks of group k
  refused,     \* an allocation has failed (history)
  result       \* 0 or -1, or RUNNING

vars == <<text, line, groups, parsed, held, refused, result>>

RUNNING == -2
NL      == "\n"
COPY    == <<"copy">>
ARRAY   == <<"array">>
Group(k) == <<"group", k>>

Init == /\ text \in Texts /\ line = 1 /\ groups = <<>> /\ parsed = {}
        /\ held = {} /\ refused = FALSE /\ result = RUNNING

(* isspace: line ends are white space too, so empty lines are skipped.     *)
next_visible == LeastOf({k \in line .. Len(text) : text[k] \notin {BLANK, NL}},
                        Len(text) + 1)
line_end     == FirstOf(text, {NL}, next_visible)
line_copy    == SubSeq(text, next_visible, line_end - 1)

Reading == result = RUNNING /\ parsed = {} /\ next_visible <= Len(text)

free_match_fingerprint == {ARRAY} \cup {Group(k) : k \in DOMAIN groups}

(* Failure with some blocks in hand besides those of the fingerprint.      *)
Fail(blocks) ==
  /\ result' = -1
  /\ held' = blocks \ free_match_fingerprint
  /\ UNCHANGED <<text, line, groups>> /\ parsed' = {}

ParseMalformed ==
  /\ Reading /\ ~IsGroup(line_copy)
  /\ Fail(held) /\ UNCHANGED refused

(* No memory for the copy, or for the group parser, which has then freed   *)
(* what it held.                                                           *)
ReadRefused ==
  /\ Reading
  /\ Fail(held) /\ refused' = TRUE

(* Mutant: the copy is freed only when the line is malformed.              *)
after_parse_copy_kept == {COPY}

after_parse == {}

ParseLine ==
  /\ Reading /\ IsGroup(line_copy)
  /\ parsed' = {GroupOf(line_copy)}
  /\ held' = held \cup after_parse \cup {Group(Len(groups) + 1)}
  /\ UNCHANGED <<text, line, groups, refused, result>>

GrowRefused ==
  /\ result = RUNNING /\ parsed # {}
  /\ Fail(held \ {Group(Len(groups) + 1)}) /\ refused' = TRUE

(* Mutant: the line end is taken to be two characters.                     *)
next_line_after_two == line_end + 2

next_line == line_end + 1

StoreGroup ==
  /\ result = RUNNING
  /\ \E g \in parsed : groups' = Append(groups, g)
  /\ held' = held \cup {ARRAY}
  /\ line' = next_line /\ parsed' = {}
  /\ UNCHANGED <<text, refused, result>>

ReadEnd ==
  /\ result = RUNNING /\ parsed = {} /\ next_visible > Len(text)
  /\ result' = 0
  /\ UNCHANGED <<text, line, groups, parsed, held, refused>>

Next == \/ ReadRefused \/ ParseMalformed \/ ParseLine
        \/ GrowRefused \/ StoreGroup \/ ReadEnd

Spec == Init /\ [][Next]_vars

-----------------------------------------------------------------------------
(* The lines of the text that are not blank, in order.                     *)
LineAt(k) == SubSeq(text, k, FirstOf(text, {NL}, k) - 1)

ShownLines ==
  LET begin == {k \in 1 .. Len(text) + 1 : k > 1 => text[k - 1] = NL}
      shown == Places({k \in begin : ~IsBlank(LineAt(k))}, Len(text) + 1)
  IN  [n \in DOMAIN shown |-> LineAt(shown[n])]

(* While memory lasts the text is accepted exactly when every line that is *)
(* not blank is a group, and the groups are those of the lines, in order;  *)
(* an allocation that fails is always reported.                            *)
ReadsEveryLine ==
  result # RUNNING =>
    IF refused THEN result = -1
    ELSE /\ (result = 0) <=> (\A n \in DOMAIN ShownLines : IsGroup(ShownLines[n]))
         /\ result = 0 => groups = [n \in DOMAIN ShownLines |-> GroupOf(ShownLines[n])]

(* A failure leaves no block behind, in whichever line it happens; success *)
(* leaves those of the groups it hands out.                                *)
NothingElseHeld ==
  /\ result = -1 => held = {}
  /\ result = 0  => held = IF groups = <<>> THEN {} ELSE free_match_fingerprint
=============================================================================
