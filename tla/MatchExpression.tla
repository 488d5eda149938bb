--------------------------- MODULE MatchExpression ---------------------------
(***************************************************************************)
(* match_expression (src/src/matcher.c): does an observed value satisfy an *)
(* expression of the database?  Expressions are alternatives separated by  *)
(* "|": a literal, a range a-b, a bound <a or >a, and, for TCP options     *)
(* only, a literal with such expressions in brackets.  Text is a sequence  *)
(* of one-character strings.  Each step is one turn of the loop of         *)
(* match_expression_slice over the outer expression; the calls it makes    *)
(* are operators.  Results are 1 (match), 0 (mismatch) and -1 (invalid).   *)
(***************************************************************************)
EXTENDS Integers, Sequences

CONSTANTS
  Questions,      \* records with observed, expression, tcp_options
  UINT32          \* number of values of a uint32_t

ASSUME UintAssumption == UINT32 \in Nat /\ UINT32 > 15

VARIABLES
  question,          \* the arguments of the call
  i, start,          \* indices into the expression, from 0
  inside_brackets,
  matched,
  result             \* what the call returns, or RUNNING

vars == <<question, i, start, inside_brackets, matched, result>>

RUNNING    == -2
Digits     == <<"0", "1", "2", "3", "4", "5", "6", "7", "8", "9",
                "A", "B", "C", "D", "E", "F">>
Lower      == <<"a", "b", "c", "d", "e", "f">>
HexChars   == {Digits[d] : d \in 1 .. 16} \cup {Lower[d] : d \in 1 .. 6}
hex_digit  == [c \in HexChars |-> CHOOSE d \in 0 .. 15 :
                 Digits[d + 1] = c \/ (d > 9 /\ Lower[d - 9] = c)]

Chars(text)  == {text[k] : k \in DOMAIN text}
Truth(b)     == IF b THEN 1 ELSE 0

(* Mutant: no overflow check; values wrap.                                 *)
parse_hex_slice_wraps(text) ==
  LET value[k \in 0 .. Len(text)] ==
        IF k = 0 THEN 0 ELSE (value[k - 1] * 16 + hex_digit[text[k]]) % UINT32
  IN  IF text = <<>> \/ ~Chars(text) \subseteq HexChars THEN -1 ELSE value[Len(text)]

(* -1 stands for invalid input or overflow; no value is negative.          *)
parse_hex_slice(text) ==
  LET value[k \in 0 .. Len(text)] ==
        IF k = 0 THEN 0
        ELSE IF \/ text[k] \notin HexChars
                \/ value[k - 1] = -1
                \/ value[k - 1] > (UINT32 - 1 - hex_digit[text[k]]) \div 16
        THEN -1
        ELSE value[k - 1] * 16 + hex_digit[text[k]]
  IN  IF text = <<>> THEN -1 ELSE value[Len(text)]

(* First position at or after k whose character is c, or the end.          *)
least(places, end) == IF places = {} THEN end
                      ELSE CHOOSE m \in places : \A x \in places : m <= x

first(text, c, k) == least({m \in k .. Len(text) : text[m] = c}, Len(text) + 1)

-----------------------------------------------------------------------------
(* match_helper without brackets.                                          *)

MatchBound(observed, expression) ==
  LET limit == parse_hex_slice(Tail(expression))
      value == parse_hex_slice(observed)
  IN  IF limit = -1 THEN -1
      ELSE Truth(value # -1 /\ IF expression[1] = "<" THEN value < limit
                                                      ELSE value > limit)

MatchRange(observed, expression) ==
  LET dash  == first(expression, "-", 1)
      lower == parse_hex_slice(SubSeq(expression, 1, dash - 1))
      upper == parse_hex_slice(SubSeq(expression, dash + 1, Len(expression)))
      value == parse_hex_slice(observed)
  IN  IF lower = -1 \/ upper = -1 \/ lower > upper THEN -1
      ELSE Truth(value # -1 /\ lower <= value /\ value <= upper)

(* Numbers are compared by value, except among TCP options.                *)
MatchLiteral(observed, expression, tcp_options) ==
  LET value    == parse_hex_slice(observed)
      expected == parse_hex_slice(expression)
  IN  IF ~tcp_options /\ value # -1 /\ expected # -1 THEN Truth(value = expected)
      ELSE Truth(observed = expression)

match_plain(observed, expression, tcp_options) ==
  IF expression = <<>> THEN Truth(observed = <<>>)
  ELSE IF expression[1] \in {"<", ">"} THEN MatchBound(observed, expression)
  ELSE IF "-" \in Chars(expression) THEN MatchRange(observed, expression)
  ELSE IF Chars(expression) \cap {"~", "<", ">"} # {} THEN -1
  ELSE MatchLiteral(observed, expression, tcp_options)

(* The recursive call of match_expression_slice, for what stands between   *)
(* brackets; it has no brackets itself.                                    *)
Alternatives(expression) ==
  {SubSeq(expression, k, first(expression, "|", k) - 1) :
     k \in {1} \cup {m + 1 : m \in {b \in DOMAIN expression : expression[b] = "|"}}}

match_inside(observed, expression) ==
  LET results == {match_plain(observed, a, FALSE) : a \in Alternatives(expression)}
  IN  IF -1 \in results THEN -1 ELSE Truth(1 \in results)

(* How many hexadecimal digits follow the first o characters.              *)
hex_run(observed, o) ==
  least({m \in o + 1 .. Len(observed) : observed[m] \notin HexChars}, Len(observed) + 1) - 1 - o

(* match_helper for a TCP option list with brackets walks both texts; w is *)
(* how far it is in each.  The literal up to the next bracket, or the end, *)
(* must stand in the observed text; then come the digits for the bracket.  *)
next_bracket(observed, expression, w) ==
  LET open    == first(expression, "[", w.at + 1)
      end     == first(expression, "]", open)
      literal == SubSeq(expression, w.at + 1, open - 1)
      used    == w.used + Len(literal)
      run     == hex_run(observed, used)
      inside  == match_inside(SubSeq(observed, used + 1, used + run),
                              SubSeq(expression, open + 1, end - 1))
  IN  IF w.result # RUNNING THEN w
      ELSE IF used > Len(observed) \/ SubSeq(observed, w.used + 1, used) # literal
      THEN [w EXCEPT !.result = 0]
      ELSE IF open > Len(expression)
      THEN [w EXCEPT !.result = Truth(used = Len(observed))]
      ELSE IF end > Len(expression) \/ end = open + 1
      THEN [w EXCEPT !.result = -1]
      ELSE IF run = 0 THEN [w EXCEPT !.result = 0]
      ELSE [used |-> used + run, at |-> end, result |-> IF inside = 1 THEN RUNNING ELSE inside]

match_brackets(observed, expression) ==
  LET walk[k \in 0 .. Len(expression)] ==
        IF k = 0 THEN [used |-> 0, at |-> 0, result |-> RUNNING]
        ELSE next_bracket(observed, expression, walk[k - 1])
  IN  walk[Len(expression)].result

match_helper(observed, expression, tcp_options) ==
  IF tcp_options /\ "[" \in Chars(expression)
  THEN match_brackets(observed, expression)
  ELSE match_plain(observed, expression, tcp_options)

-----------------------------------------------------------------------------
(* match_expression_slice.                                                 *)

Init == /\ question \in Questions
        /\ i = 0 /\ start = 0 /\ inside_brackets = FALSE /\ matched = FALSE
        /\ result = RUNNING

Running  == result = RUNNING
AtEnd    == i = Len(question.expression)
Char     == question.expression[i + 1]

OpenBracket ==
  /\ Running /\ ~AtEnd /\ Char = "["
  /\ IF ~question.tcp_options \/ inside_brackets
     THEN result' = -1 /\ UNCHANGED <<i, inside_brackets>>
     ELSE inside_brackets' = TRUE /\ i' = i + 1 /\ UNCHANGED result
  /\ UNCHANGED <<question, start, matched>>

CloseBracket ==
  /\ Running /\ ~AtEnd /\ Char = "]"
  /\ IF ~inside_brackets
     THEN result' = -1 /\ UNCHANGED <<i, inside_brackets>>
     ELSE inside_brackets' = FALSE /\ i' = i + 1 /\ UNCHANGED result
  /\ UNCHANGED <<question, start, matched>>

Skip ==
  /\ Running /\ ~AtEnd
  /\ Char \notin {"[", "]"} /\ (Char = "|" => inside_brackets)
  /\ i' = i + 1
  /\ UNCHANGED <<question, start, inside_brackets, matched, result>>

matched_after(r) == matched \/ r = 1

(* Mutant: the first alternative that matches ends the search.             *)
result_after_first_match(m) == IF AtEnd \/ m THEN Truth(m) ELSE RUNNING

result_after(m) == IF AtEnd THEN Truth(m) ELSE RUNNING

(* The end of an alternative: at a "|" outside brackets, or of the text.   *)
Alternative ==
  /\ Running /\ IF AtEnd THEN TRUE ELSE Char = "|" /\ ~inside_brackets
  /\ LET r == match_helper(question.observed,
                           SubSeq(question.expression, start + 1, i),
                           question.tcp_options)
     IN  IF inside_brackets \/ r = -1
         THEN result' = -1 /\ UNCHANGED <<i, start, matched>>
         ELSE /\ matched' = matched_after(r)
              /\ result' = result_after(matched')
              /\ i' = i + 1 /\ start' = i + 1
  /\ UNCHANGED <<question, inside_brackets>>

Next == OpenBracket \/ CloseBracket \/ Skip \/ Alternative

Spec == Init /\ [][Next]_vars
=============================================================================
