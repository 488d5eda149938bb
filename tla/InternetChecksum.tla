-------------------------- MODULE InternetChecksum --------------------------
(***************************************************************************)
(* What calculate_checksum (src/src/packet.c) promises, without its loops: *)
(* the ones' complement of the ones' complement sum of the words of a      *)
(* message.  Checksum shows that the function keeps the promise, UdpEcho   *)
(* relies on it.  A byte has BYTE values, 256 in the program, and a word   *)
(* two bytes.                                                              *)
(***************************************************************************)
EXTENDS Integers, Sequences

CONSTANTS BYTE

WORD == BYTE * BYTE

(* The sum of the words of a message, an odd last byte padded with zero;   *)
(* by halves, which keeps the recursion of TLC short.                      *)
Total(m) ==
  LET byte(k) == IF k % 2 = 1 THEN m[k] * BYTE ELSE m[k]
      sum[r \in (1 .. Len(m) + 1) \X (0 .. Len(m))] ==
        LET middle == (r[1] + r[2]) \div 2
        IN  IF r[1] > r[2] THEN 0 ELSE IF r[1] = r[2] THEN byte(r[1])
            ELSE sum[<<r[1], middle>>] + sum[<<middle + 1, r[2]>>]
  IN  sum[<<1, Len(m)>>]

(* Congruent to minus the sum modulo WORD - 1; of the two zeros of ones'   *)
(* complement, all ones is the checksum of a message of zeros only.        *)
InternetChecksum(m) ==
  IF Total(m) = 0 THEN WORD - 1 ELSE (-Total(m)) % (WORD - 1)
=============================================================================
