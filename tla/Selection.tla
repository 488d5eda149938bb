------------------------------ MODULE Selection ------------------------------
(***************************************************************************)
(* The elements of a sequence at chosen places, in their order: what a     *)
(* loop collects that looks at one element after the other.                *)
(***************************************************************************)
EXTENDS Integers, Sequences

Selected(s, chosen) ==
  LET upto[k \in Nat] == IF k = 0 THEN <<>>
                         ELSE IF k \in chosen THEN Append(upto[k - 1], s[k])
                         ELSE upto[k - 1]
  IN  upto[Len(s)]

(* The chosen places themselves.                                           *)
Places(chosen, last) == Selected([k \in 1 .. last |-> k], chosen)
=============================================================================
