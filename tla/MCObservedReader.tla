-------------------------- MODULE MCObservedReader --------------------------
(* Up to four lines, the last with or without an end: groups, groups with  *)
(* blanks around them, empty and blank lines, lines that are no groups.    *)
EXTENDS ObservedReader

Pieces == {<<>>, <<BLANK>>,
           <<"T", "(", "R", "=", "Y", ")">>,
           <<BLANK, "W", "(", "O", "=", ")", BLANK>>,
           <<"S">>, <<"T", "(", "R", ")">>}

MCTexts == LET two == {a \o <<NL>> \o b : a \in Pieces, b \in Pieces}
           IN  Pieces \cup two \cup {a \o <<NL>> \o b : a \in two, b \in Pieces}
                 \cup {a \o <<NL>> \o b : a \in two, b \in two}
=============================================================================
