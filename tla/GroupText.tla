------------------------------ MODULE GroupText ------------------------------
(***************************************************************************)
(* What a line such as  SEQ(SP=F8%GCD=1%TI=Z)  means: a group with named   *)
(* values.  This is the promise of parse_fingerprint_group                 *)
(* (src/src/database.c), stated without its scan from left to right.       *)
(* Text is a sequence of symbols: the separators below, a blank for every  *)
(* white space, and anything else standing for itself.                     *)
(***************************************************************************)
EXTENDS Selection

BLANK == " "
Separators == {"(", ")", "=", "%", BLANK}

Symbols(text) == {text[k] : k \in DOMAIN text}

IsBlank(text) == Symbols(text) \subseteq {BLANK}

LeastOf(S, otherwise) ==
  IF S = {} THEN otherwise ELSE CHOOSE m \in S : \A x \in S : m <= x

(* First position at or after k with a symbol of S, or one past the end.   *)
FirstOf(text, S, k) == LeastOf({m \in k .. Len(text) : text[m] \in S}, Len(text) + 1)

(* First position at or after k that is not blank (SKIP_WHITESPACE).       *)
SkipBlanks(text, k) ==
  LeastOf({m \in k .. Len(text) : text[m] # BLANK}, Len(text) + 1)

Trim(text) ==
  LET visible == {k \in DOMAIN text : text[k] # BLANK}
      last    == CHOOSE k \in visible : \A x \in visible : x <= k
  IN  IF visible = {} THEN <<>> ELSE SubSeq(text, SkipBlanks(text, 1), last)

(* The parts of a text between its "%" signs, in order.                    *)
Parts(text) ==
  LET signs  == Places({k \in DOMAIN text : text[k] = "%"}, Len(text))
      cut(n) == IF n = 0 THEN 0 ELSE IF n <= Len(signs) THEN signs[n] ELSE Len(text) + 1
  IN  [n \in 1 .. Len(signs) + 1 |-> SubSeq(text, cut(n - 1) + 1, cut(n) - 1)]

OpenAt(line)  == FirstOf(line, {"("}, 1)
CloseAt(line) == FirstOf(line, {")"}, OpenAt(line) + 1)
Body(line)    == Parts(SubSeq(line, OpenAt(line) + 1, CloseAt(line) - 1))

FieldName(part)  == Trim(SubSeq(part, 1, FirstOf(part, {"="}, 1) - 1))
FieldValue(part) == Trim(SubSeq(part, FirstOf(part, {"="}, 1) + 1, Len(part)))

GroupName(line) == Trim(SubSeq(line, 1, OpenAt(line) - 1))

(* A name, "(", parts that each have a name and "=", ")", nothing more.    *)
IsGroup(line) ==
  /\ CloseAt(line) <= Len(line)
  /\ GroupName(line) # <<>>
  /\ IsBlank(SubSeq(line, CloseAt(line) + 1, Len(line)))
  /\ LET parts == Body(line)
     IN  \A k \in DOMAIN parts : "=" \in Symbols(parts[k]) /\ FieldName(parts[k]) # <<>>

GroupOf(line) ==
  LET parts == Body(line)
  IN  [name   |-> GroupName(line),
       fields |-> [k \in DOMAIN parts |->
                     [name |-> FieldName(parts[k]), value |-> FieldValue(parts[k])]]]
=============================================================================
