------------------------------ MODULE MCUdpEcho ------------------------------
(* Probes for UdpEcho: an ordinary one, one whose UDP checksum comes out   *)
(* as zero and one whose header checksum is zero after one router.         *)
EXTENDS UdpEcho

Ordinary == [source_port |-> 1013, dest_port |-> 81,
             saddr |-> <<10, 0, 0, 2>>, daddr |-> <<10, 0, 0, 9>>]

(* What is missing to a sum of all ones becomes the port, or a part of the *)
(* address.                                                                *)
ZeroUdp ==
  LET s == [Ordinary EXCEPT !.source_port = 0]
  IN  [s EXCEPT !.source_port = checksum(s)]

ZeroHeader ==
  LET s == [Ordinary EXCEPT !.saddr = <<10, 0, 0, 0>>]
      w == calculate_checksum(Write(ip_header(s), 9, <<ip_ttl - 1>>))
  IN  [s EXCEPT !.saddr = <<10, 0>> \o bytes_of(w)]

MCSpecs == {Ordinary, ZeroUdp, ZeroHeader}
=============================================================================
