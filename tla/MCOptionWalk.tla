---------------------------- MODULE MCOptionWalk ----------------------------
(***************************************************************************)
(* Option fields for OptionWalk: up to three of the pieces below, well     *)
(* formed and not, in every order, padded in front or behind with NOPs or  *)
(* end-of-list bytes to a length a data offset can express; and the        *)
(* longest fields of one kind.                                             *)
(***************************************************************************)
EXTENDS OptionWalk

Pieces == {
  <<>>, <<0>>, <<1>>, <<4, 2>>,
  <<2, 4, 5, 180>>, <<3, 3, 255>>, <<8, 10, 1, 2, 3, 4, 0, 0, 0, 0>>,
  <<5, 10, 1, 1, 1, 1, 1, 1, 1, 1>>,      \* a kind the program does not know
  <<30, 2>>,
  <<2, 3, 0>>, <<3, 4, 0, 0>>, <<8, 9>>,  \* a known kind of a wrong length
  <<5, 1>>, <<254, 0>>,                   \* a length that covers nothing
  <<3>>, <<5, 3>>, <<2, 4, 5>>}           \* cut off, when they come last

Padding(len, p) == [n \in 1 .. (-len) % 4 |-> p]

Padded(b) == {b \o Padding(Len(b), p) : p \in {0, 1}} \cup
             {Padding(Len(b), 1) \o b}

Repeated(piece, times) ==
  [n \in 1 .. Len(piece) * times |-> piece[((n - 1) % Len(piece)) + 1]]

Longest == {Repeated(<<2, 4, 255, 255>>, 10), Repeated(<<1>>, 40),
            Repeated(<<8, 10, 1, 2, 3, 4, 0, 0, 0, 0>>, 4),
            Repeated(<<3, 3, 255>>, 13) \o <<1>>}

MCBuffers == Longest \cup
             UNION {Padded(a \o b \o c) : a \in Pieces, b \in Pieces, c \in Pieces}
=============================================================================
