--------------------------- MODULE MCDatabaseReader ---------------------------
(* Databases of up to two references, with every kind of line in every     *)
(* place, with and without a section of weights.                           *)
EXTENDS DatabaseReader

L(kind, name, decimal) == [kind |-> kind, name |-> name, decimal |-> decimal]

Blank   == L("blank", "", FALSE)
Points  == L("points", "", FALSE)
Weights == {<<L("group", "SEQ", TRUE)>>, <<L("group", "SEQ", TRUE), Blank, L("group", "T1", TRUE)>>,
            <<L("group", "SEQ", TRUE), L("group", "SEQ", TRUE)>>,
            <<L("group", "SEQ", FALSE)>>, <<L("bare", "", FALSE)>>, <<>>}

Heads   == {<<L("text", "", FALSE), Blank, Points>>, <<Points>>, <<Blank>>}

Inside == {Blank, L("class", "", FALSE), L("group", "SEQ", FALSE), L("group", "T1", FALSE),
           L("text", "", FALSE), L("bare", "", FALSE), L("header", "C", FALSE)}

References == {<<>>} \cup {<<L("header", "A", FALSE)>> \o t : t \in BoundedSeq(Inside, 4)}

Rest == {<<>>, <<L("header", "B", FALSE), L("group", "SEQ", FALSE)>>,
         <<L("header", "B", FALSE), L("class", "", FALSE), L("group", "T1", FALSE),
           L("group", "SEQ", FALSE), L("group", "T1", FALSE)>>}

MCFiles ==
  {h \o w \o <<L("header", "A", FALSE), L("group", "SEQ", FALSE)>> : h \in Heads, w \in Weights} \cup
  {<<Points, L("group", "SEQ", TRUE)>> \o r \o l : r \in References, l \in Rest}
=============================================================================
