---------------------------- MODULE MCGroupParser ----------------------------
(* Every text of at most five symbols behind a letter or a blank, and      *)
(* longer ones with two fields.                                            *)
EXTENDS GroupParser

Alphabet == Separators \cup {"a"}

Short == UNION {[1 .. n -> Alphabet] : n \in 0 .. 5}

TwoFields == {<<"a", "(", "a", "=">> \o v \o s \o w \o e :
                v \in {<<>>, <<"a">>, <<" ", "a", " ">>, <<"=">>, <<"(">>},
                s \in {<<"%">>, <<"%", " ">>, <<" ">>, <<")", "%">>},
                w \in {<<>>, <<"a", "=">>, <<"a", " ", "=", "a">>, <<"=", "a">>, <<"a">>},
                e \in {<<")">>, <<>>, <<")", " ">>, <<")", "a">>, <<"%", ")">>}}

MCLines == {<<"a">> \o t : t \in Short} \cup {<<" ">> \o t : t \in Short} \cup
           {<<"(">> \o <<"a", "=", ")">>} \cup TwoFields
=============================================================================
