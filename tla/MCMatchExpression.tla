-------------------------- MODULE MCMatchExpression --------------------------
(***************************************************************************)
(* Values and expressions for MatchExpression, and what an expression      *)
(* means: a set of texts, built from its parts without looking at the way  *)
(* match_expression walks.  A question has a fourth field, meant: the      *)
(* alternatives its expression was written from, none if it is one that no *)
(* alternatives make.  UINT32 has few values, so that numbers of three     *)
(* digits overflow.                                                        *)
(***************************************************************************)
EXTENDS MatchExpression

(* Meaning of a text as a number, without a limit; -1 if it is not one.    *)
ValueOf(text) ==
  LET v[k \in 0 .. Len(text)] == IF k = 0 THEN 0 ELSE v[k - 1] * 16 + hex_digit[text[k]]
  IN  IF text # <<>> /\ Chars(text) \subseteq HexChars THEN v[Len(text)] ELSE -1

Fits(v) == v \in 0 .. UINT32 - 1

(* Texts one behind the other, and with "|" between them.                  *)
Together(texts) ==
  LET upto[n \in 0 .. Len(texts)] == IF n = 0 THEN <<>> ELSE upto[n - 1] \o texts[n]
  IN  upto[Len(texts)]

Joined(texts) ==
  Together([k \in 1 .. Len(texts) |->
              IF k < Len(texts) THEN texts[k] \o <<"|">> ELSE texts[k]])

-----------------------------------------------------------------------------
(* A plain alternative: what kind it is, how the database writes it,       *)
(* whether it is valid, and whether it denotes a text.                     *)
Signs == {"[", "]", "|", "<", ">", "-"}
Text  == Seq(STRING \ Signs)

Plain == [kind : {"literal", "below", "above"}, text : Text] \cup
         [kind : {"span"}, text : Text, upper : Text]

WrittenPlain(a) == CASE a.kind = "literal" -> a.text
                     [] a.kind = "below"   -> <<"<">> \o a.text
                     [] a.kind = "above"   -> <<">">> \o a.text
                     [] OTHER              -> a.text \o <<"-">> \o a.upper

ValidPlain(a) ==
  CASE a.kind = "literal" -> "~" \notin Chars(a.text)
    [] a.kind \in {"below", "above"} -> Fits(ValueOf(a.text))
    [] OTHER -> /\ Fits(ValueOf(a.text)) /\ Fits(ValueOf(a.upper))
                /\ ValueOf(a.text) <= ValueOf(a.upper)

DenotesPlain(a, text, tcp_options) ==
  LET v == ValueOf(text)
  IN  CASE a.kind = "literal" ->
             \/ text = a.text
             \/ ~tcp_options /\ Fits(v) /\ v = ValueOf(a.text)
        [] a.kind = "below" -> Fits(v) /\ v < ValueOf(a.text)
        [] a.kind = "above" -> Fits(v) /\ v > ValueOf(a.text)
        [] OTHER -> Fits(v) /\ ValueOf(a.text) <= v /\ v <= ValueOf(a.upper)

(* What stands in one bracket: plain alternatives.                         *)
WrittenInside(as)  == Joined([k \in DOMAIN as |-> WrittenPlain(as[k])])
ValidInside(as)    == WrittenInside(as) # <<>> /\ \A k \in DOMAIN as : ValidPlain(as[k])
DenotesInside(as, text) == \E k \in DOMAIN as : DenotesPlain(as[k], text, FALSE)

(* An option list with brackets.  What follows a bracket is no digit: the  *)
(* options have the letters L, M, N, S, T and W.                           *)
OptionLists ==
  {a \in [kind : {"options"}, brackets : Seq([before : Text, inside : Seq(Plain)]), after : Text] :
     /\ a.brackets # <<>>
     /\ \A k \in DOMAIN a.brackets : a.brackets[k].inside # <<>>
     /\ \A k \in 2 .. Len(a.brackets) :
          a.brackets[k].before # <<>> /\ a.brackets[k].before[1] \notin HexChars
     /\ a.after # <<>> => a.after[1] \notin HexChars}

(* The list with something in the place of each bracket: the alternatives  *)
(* as they are written, or digits that they denote.                        *)
Filled(a, fill) ==
  Together([k \in 1 .. Len(a.brackets) + 1 |->
              IF k <= Len(a.brackets) THEN a.brackets[k].before \o fill[k] ELSE a.after])

WrittenList(a) ==
  Filled(a, [k \in DOMAIN a.brackets |->
               <<"[">> \o WrittenInside(a.brackets[k].inside) \o <<"]">>])

ValidList(a) == \A k \in DOMAIN a.brackets : ValidInside(a.brackets[k].inside)

Parts(text) == {SubSeq(text, m, n) : m \in 1 .. Len(text), n \in 1 .. Len(text)}

DenotesList(a, text) ==
  \E digits \in [DOMAIN a.brackets -> {t \in Parts(text) : ValueOf(t) # -1}] :
    /\ text = Filled(a, digits)
    /\ \A k \in DOMAIN a.brackets : DenotesInside(a.brackets[k].inside, digits[k])

(* Either of them.                                                         *)
Written(a) == IF a.kind = "options" THEN WrittenList(a) ELSE WrittenPlain(a)
Valid(a)   == IF a.kind = "options" THEN ValidList(a) ELSE ValidPlain(a)
Denotes(a, text, tcp_options) ==
  IF a.kind = "options" THEN DenotesList(a, text) ELSE DenotesPlain(a, text, tcp_options)

-----------------------------------------------------------------------------
(* Each bracket has its partner, with no bracket between them.             *)
Brackets == {"[", "]"}

Paired(e) ==
  \A m \in DOMAIN e :
    /\ e[m] = "[" => \E x \in m + 1 .. Len(e) :
                       e[x] = "]" /\ \A y \in m + 1 .. x - 1 : e[y] \notin Brackets
    /\ e[m] = "]" => \E x \in 1 .. m - 1 :
                       e[x] = "[" /\ \A y \in x + 1 .. m - 1 : e[y] \notin Brackets

IsQuestion(q) ==
  /\ q.observed \in Seq(STRING) /\ q.tcp_options \in BOOLEAN
  /\ \/ /\ q.meant \in Seq(IF q.tcp_options THEN Plain \cup OptionLists ELSE Plain)
        /\ q.meant # <<>>
        /\ q.expression = Joined([k \in DOMAIN q.meant |-> Written(q.meant[k])])
     \/ /\ q.meant = <<>> /\ q.expression \in Seq(STRING)
        /\ \/ ~Paired(q.expression)
           \/ ~q.tcp_options /\ Chars(q.expression) \cap Brackets # {}

ASSUME QuestionAssumption == \A q \in Questions : IsQuestion(q)

-----------------------------------------------------------------------------
Lit(t)     == [kind |-> "literal", text |-> t]
Less(t)    == [kind |-> "below", text |-> t]
More(t)    == [kind |-> "above", text |-> t]
Span(t, u) == [kind |-> "span", text |-> t, upper |-> u]
Options(brackets, after) == [kind |-> "options", brackets |-> brackets, after |-> after]
Bracket(before, as)      == [before |-> before, inside |-> as]

Numbers == {<<"0">>, <<"9">>, <<"A">>, <<"1", "0">>, <<"0", "A">>, <<"F", "F">>,
            <<"0", "0", "F">>, <<"1", "0", "0">>}
Words   == {<<>>, <<"S">>, <<"A", "S">>, <<"~">>, <<"S", "~">>}

Single == {Lit(t) : t \in Numbers \cup Words} \cup
          {Less(t) : t \in Numbers \cup {<<>>}} \cup {More(t) : t \in Numbers} \cup
          {Span(t, u) : t \in Numbers, u \in Numbers \cup {<<>>}}
Few    == {Lit(<<"A">>), Lit(<<"S">>), Lit(<<>>), Less(<<"1", "0">>), More(<<"9">>),
           Span(<<"9">>, <<"F", "F">>), Span(<<"A">>, <<"9">>),
           Less(<<"1", "0", "0">>), Lit(<<"S", "~">>)}

Observations == Numbers \cup {<<>>, <<"a">>, <<"S">>, <<"A", "S">>, <<"8">>, <<"B">>, <<"F">>}

Ask(as, text, tcp) ==
  [observed |-> text, expression |-> Joined([k \in DOMAIN as |-> Written(as[k])]),
   tcp_options |-> tcp, meant |-> as]

(* Option lists with one bracket and with two.                             *)
OptionTexts == {<<"M">> \o t \o <<"S">> : t \in Observations} \cup
               {<<"N", "S">>, <<"M", "A", "S", "S">>, <<"M", "A">>, <<"S">>}
TwoTexts    == {<<"M">> \o t \o <<"W">> \o u : t \in Numbers, u \in {<<>>, <<"5">>, <<"A">>, <<"A", "S">>}}

OneBracket(as)      == Options(<<Bracket(<<"M">>, as)>>, <<"S">>)
TwoBrackets(as, bs) == Options(<<Bracket(<<"M">>, as), Bracket(<<"W">>, bs)>>, <<>>)

(* Brackets that do not pair, or stand where none may.                     *)
Unmeant(text, e, tcp) ==
  [observed |-> text, expression |-> e, tcp_options |-> tcp, meant |-> <<>>]

Unpaired ==
  {Unmeant(t, e, tcp) :
     t \in {<<"A">>, <<"M", "A">>},
     e \in {<<"M", "[", "A">>, <<"A", "]">>, <<"A", "|", "]">>,
            <<"M", "[", "A", "[", "A", "]", "]">>, <<"A", "|", "M", "[", "A", "|">>},
     tcp \in BOOLEAN} \cup
  {Unmeant(t, <<"M", "[", "A", "]">>, FALSE) : t \in {<<"A">>, <<"M", "A">>}}

MCQuestions ==
  {Ask(<<a>>, t, tcp) : a \in Single, t \in Observations, tcp \in BOOLEAN} \cup
  {Ask(<<a, b>>, t, tcp) : a \in Few, b \in Few, t \in Observations, tcp \in BOOLEAN} \cup
  {Ask(<<a, b, c>>, t, FALSE) : a \in Few, b \in Few, c \in Few,
                                t \in {<<"A">>, <<"S">>, <<>>, <<"1", "0", "0">>}} \cup
  {Ask(<<OneBracket(<<a>>)>>, t, TRUE) : a \in Single, t \in OptionTexts} \cup
  {Ask(<<OneBracket(<<a, b>>)>>, t, TRUE) : a \in Few, b \in Few, t \in OptionTexts} \cup
  {Ask(IF last THEN <<Lit(o), OneBracket(<<a>>)>> ELSE <<OneBracket(<<a>>), Lit(o)>>, t, TRUE) :
     a \in Few, o \in {<<"N", "S">>, <<>>}, t \in OptionTexts, last \in BOOLEAN} \cup
  {Ask(<<TwoBrackets(<<a>>, bs)>>, t, TRUE) :
     a \in Few, bs \in {<<Lit(<<"5">>), Lit(<<"A">>)>>, <<Less(<<>>)>>}, t \in TwoTexts} \cup
  Unpaired

-----------------------------------------------------------------------------
(* A question whose parts are all in order, and one with a part out of     *)
(* order that is not in a bracket.                                         *)
IsSound(q)   == q.meant # <<>> /\ \A k \in DOMAIN q.meant : Valid(q.meant[k])
IsRefused(q) == \/ q.meant = <<>>
                \/ \E k \in DOMAIN q.meant : q.meant[k].kind # "options" /\ ~Valid(q.meant[k])

(* An expression means what its parts say. A valid one is never refused and*)
(* matches exactly the values it denotes: alternatives in any order, bounds*)
(* inclusive for ranges and exclusive for < and >, numbers by value        *)
(* whatever their leading zeros, a number too large for 32 bits never in a *)
(* range, brackets for the numbers that stand in their place.  One with an *)
(* invalid part outside brackets is an error for every observed value, also*)
(* when another alternative matches before or after it; so is one whose    *)
(* brackets do not pair.                                                   *)
MatchesWhatIsDenoted ==
  ~Running =>
    /\ IsSound(question) =>
         result = Truth(\E k \in DOMAIN question.meant :
                          Denotes(question.meant[k], question.observed, question.tcp_options))
    /\ IsRefused(question) => result = -1

(* "If any expression is invalid, it returns -1" (src/src/matcher.c:231).  *)
InvalidIsError == ~Running /\ ~IsSound(question) => result = -1
=============================================================================
