----------------------------- MODULE TopMatches -----------------------------
(***************************************************************************)
(* What a database search promises: the max_matches best operating-system  *)
(* names among all the candidates considered.  A name counts with its best *)
(* score; the better score comes first, and of two equal scores the one    *)
(* that was reached first.  Nothing is ever forgotten here: the report is  *)
(* computed from the whole history, with no bounded array.                 *)
(***************************************************************************)
EXTENDS Integers, Sequences, FiniteSets

CONSTANTS
  OsNames,      \* names of the reference fingerprints
  Scores,       \* scores a comparison can yield
  max_matches   \* length of the report

VARIABLES
  seen,         \* every candidate considered, in order
  report        \* the names reported, with their scores

vars == <<seen, report>>

Candidate == [name : OsNames, score : Scores]

(* Candidate i of the history s beats candidate j.                         *)
Beats(s, i, j) == s[i].score > s[j].score \/ (s[i].score = s[j].score /\ i < j)

(* For each name, the candidate that first reached its best score.         *)
Leaders(s) == {i \in DOMAIN s : \A j \in DOMAIN s :
                 s[j].name = s[i].name => j = i \/ Beats(s, i, j)}

Rank(s, i) == 1 + Cardinality({j \in Leaders(s) : Beats(s, j, i)})

(* r lists the best leaders of s, as many as there is room for.            *)
IsReport(r, s) ==
  /\ r \in Seq(Candidate)
  /\ \/ Len(r) = max_matches /\ Cardinality(Leaders(s)) >= max_matches
     \/ Len(r) < max_matches /\ Cardinality(Leaders(s)) = Len(r)
  /\ \A i \in Leaders(s) : Rank(s, i) \in DOMAIN r => r[Rank(s, i)] = s[i]

Init == seen = <<>> /\ report = <<>>

Consider == /\ \E c \in Candidate : seen' = Append(seen, c)
            /\ IsReport(report', seen')

(* The search fails, or its caller has used the report.                    *)
Discard == report' = <<>> /\ UNCHANGED seen

Next == Consider \/ Discard

Spec == Init /\ [][Next]_vars
=============================================================================
