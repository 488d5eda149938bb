------------------------ MODULE MCCompareFingerprints ------------------------
(* Fingerprints of at most two groups of at most two fields, in any order, *)
(* and tables with points, without points and with missing fields.         *)
EXTENDS CompareFingerprints

F(name, value)  == [name |-> name, value |-> value]
G(name, fields) == [name |-> name, fields |-> fields]

Orders == {<<"R">>, <<"O">>, <<"R", "O">>, <<"O", "R">>}
ObservedGroups(name) == {G(name, [k \in DOMAIN o |-> F(o[k], 0)]) : o \in Orders}

ReferenceGroups(name) ==
  {G(name, <<F(n, v)>>) : n \in {"R", "O"}, v \in -1 .. 1} \cup
  {G(name, <<F(o[1], v), F(o[2], w)>>) : o \in {<<"R", "O">>, <<"O", "W">>, <<"W", "R">>},
                                         v \in -1 .. 1, w \in -1 .. 1}

Groups(Of(_)) == {<<a>> : a \in Of("T1")} \cup {<<a, b>> : a \in Of("T1"), b \in Of("OPS")}
                   \cup {<<b, a>> : a \in Of("T1"), b \in Of("OPS")}

MCObserved   == {<<>>} \cup Groups(ObservedGroups)
MCReferences == Groups(LAMBDA n : {G(n, <<F("R", 1)>>), G(n, <<F("O", 0), F("R", 1)>>)})
                  \cup Groups(LAMBDA n : {G(n, <<F("R", v), F("O", 1)>>) : v \in {-1, 0}})
                  \cup {<<g>> : g \in ReferenceGroups("T1")}
                  \cup {<<G("OPS", <<F("R", 1)>>), g>> : g \in ReferenceGroups("T1")}

W(group, field, points) == [group |-> group, field |-> field, points |-> points]
MCWeights == {<<W("T1", "R", 100), W("T1", "O", p), W("OPS", "R", q), W("OPS", "O", 20)>> :
                p \in {0, 10}, q \in {0, 3}}
             \cup {<<W("T1", "R", 100), W("T1", "O", 7)>>, <<W("OPS", "O", 20), W("T1", "O", 5)>>}
=============================================================================
