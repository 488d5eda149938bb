------------------------------ MODULE Checksum ------------------------------
(***************************************************************************)
(* The life of a checksum: calculate_checksum (src/src/packet.c) over a    *)
(* message whose checksum word is zero, the result stored in that word in  *)
(* network order, and the same function run over what comes back, perhaps  *)
(* with one byte changed on the way, as the RIPCK test of the U1           *)
(* fingerprint (src/src/fingerprint.c) does with the quoted header.  Each  *)
(* step is one turn of a loop of calculate_checksum.                       *)
(*                                                                         *)
(* A byte has BYTE values, 256 in the program, and a word two bytes.       *)
(***************************************************************************)
EXTENDS InternetChecksum

CONSTANTS Messages       \* messages, headers and payload together

VARIABLES
  message,     \* the bytes, checksum word included
  field,       \* where the checksum word begins, from 1, at an odd place
  is_udp,      \* the message is a UDP segment
  pass,        \* "send", "receive" or "done"
  at, sum,     \* the next byte, from 1, and the accumulator
  sent,        \* the message as it was sent (history)
  result       \* what the last call returned

vars == <<message, field, is_udp, pass, at, sum, sent, result>>

len == Len(message) - at + 1       \* bytes left

Init ==
  /\ \E m \in Messages : \E k \in {n \in 1 .. Len(m) - 1 : n % 2 = 1} :
       /\ message = [m EXCEPT ![k] = 0, ![k + 1] = 0]
       /\ field = k
  /\ is_udp \in BOOLEAN
  /\ pass = "send" /\ at = 1 /\ sum = 0 /\ sent = <<>> /\ result = 0

folded(s) == (s % WORD) + (s \div WORD)

AddWord ==
  /\ pass # "done" /\ len >= 2
  /\ sum' = folded(sum + message[at] * BYTE + message[at + 1])
  /\ at' = at + 2
  /\ UNCHANGED <<message, field, is_udp, pass, sent, result>>

(* Mutants: the last byte of an odd message is the low one; it is left out.*)
leftover_is_low(b)  == b
leftover_ignored(b) == 0

leftover(b) == b * BYTE

AddLeftover ==
  /\ pass # "done" /\ len = 1
  /\ sum' = sum + leftover(message[at])
  /\ at' = at + 1
  /\ UNCHANGED <<message, field, is_udp, pass, sent, result>>

Fold ==
  /\ pass # "done" /\ len = 0 /\ sum >= WORD
  /\ sum' = folded(sum)
  /\ UNCHANGED <<message, field, is_udp, pass, at, sent, result>>

Summed     == len = 0 /\ sum < WORD
complement == WORD - 1 - sum

(* A UDP checksum of 0 would mean that there is none.                      *)
carried == IF is_udp /\ complement = 0 THEN WORD - 1 ELSE complement

(* Mutant: stored without htons, on a machine of the other byte order.     *)
in_network_order_no_htons(w) == <<w % BYTE, w \div BYTE>>

in_network_order(w) == <<w \div BYTE, w % BYTE>>

Store ==
  /\ pass = "send" /\ Summed
  /\ result' = complement
  /\ message' = [message EXCEPT ![field]     = in_network_order(carried)[1],
                                ![field + 1] = in_network_order(carried)[2]]
  /\ sent' = message'
  /\ pass' = "receive" /\ at' = 1 /\ sum' = 0
  /\ UNCHANGED <<field, is_udp>>

(* On the way a byte may change, or the host may quote it wrongly.         *)
Damage ==
  /\ pass = "receive" /\ at = 1 /\ message = sent
  /\ \E k \in DOMAIN message : \E b \in 0 .. BYTE - 1 :
       /\ b # message[k]
       /\ message' = [message EXCEPT ![k] = b]
  /\ UNCHANGED <<field, is_udp, pass, at, sum, sent, result>>

Verify ==
  /\ pass = "receive" /\ Summed
  /\ result' = complement /\ pass' = "done"
  /\ UNCHANGED <<message, field, is_udp, at, sum, sent>>

Next == AddWord \/ AddLeftover \/ Fold \/ Store \/ Damage \/ Verify

Spec == Init /\ [][Next]_vars

-----------------------------------------------------------------------------
(* A message that carries its own checksum, for UDP the substitute for     *)
(* zero, verifies when it comes back, and does not when any one byte has   *)
(* changed, an odd last byte and the checksum itself included: an honest   *)
(* quote is 'G', a damaged one 'I'.                                        *)
VerifiesIfIntact == pass = "done" => ((result = 0) <=> (message = sent))

(* The function is the ones' complement sum of the Internet checksum, all  *)
(* ones rather than zero only for a message of zeros, in whatever order    *)
(* carries were folded in (src/tests/test_checksum.c).                     *)
IsOnesComplement == pass = "done" => result = InternetChecksum(message)
=============================================================================
