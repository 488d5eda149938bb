------------------------------- MODULE UdpEcho -------------------------------
(***************************************************************************)
(* The way of the U1 probe: construct_UDP_packet (src/src/packet.c) builds *)
(* the datagram and tells its checksum, prepare_u1_probe (src/src/scan.c)  *)
(* keeps that with the probe, routers count the time to live down, the     *)
(* host quotes what it got, perhaps not quite as it was, and               *)
(* calculate_u1_fingerprint (src/src/fingerprint.c) compares the quote     *)
(* with the probe, byte by byte.                                           *)
(*                                                                         *)
(* Here the packet is built and the quote in shape; Scan has the failures  *)
(* of the constructor, Probes and Fingerprint the quotes that are refused  *)
(* and what DF, T and TG make of an accepted one.                          *)
(***************************************************************************)
EXTENDS Integers, Sequences

CONSTANTS
  Specs,           \* [source_port, dest_port, saddr, daddr] of the probe
  QuoteLengths,    \* bytes of the datagram a host may quote
  MaxHops          \* routers on the way, at most

VARIABLES
  stage,           \* "construct", "kernel", "wire", "received" or "done"
  probe,           \* probe_sent.udp: the specification and udp_checksum
  datagram,        \* the bytes on the wire
  hops_taken,      \* routers passed (history)
  changed,         \* what the host changed before it quoted (history)
  quote,           \* payload of the port unreachable that comes back
  reply,           \* its other fields, [ip_tot_length, unused]
  tests            \* the U1 line

vars == <<stage, probe, datagram, hops_taken, changed, quote, reply, tests>>

Sum == INSTANCE InternetChecksum WITH BYTE <- 256
calculate_checksum(m) == Sum!InternetChecksum(m)

IPPROTO_UDP == 17
ip_id       == 4162                     \* 0x1042
ip_ttl      == 64
payload     == [k \in 1 .. 300 |-> 67]  \* 'C'

udp_len   == 8 + Len(payload)
total_len == 20 + udp_len

(* htons, and what reads it back.                                          *)
bytes_of(w)    == <<w \div 256, w % 256>>
read_u16(m, k) == m[k] * 256 + m[k + 1]

(* The bytes from position k on are replaced.                              *)
Write(m, k, new) ==
  [n \in DOMAIN m |-> IF n \in k .. k + Len(new) - 1 THEN new[n - k + 1] ELSE m[n]]

NOTHING == <<>>

Init ==
  /\ \E s \in Specs : probe = [spec |-> s, udp_checksum |-> 0]
  /\ stage = "construct" /\ datagram = NOTHING /\ hops_taken = 0
  /\ changed = {} /\ quote = NOTHING /\ reply = NOTHING /\ tests = NOTHING

-----------------------------------------------------------------------------
ip_header(s) ==
  <<69, 0>> \o bytes_of(total_len) \o bytes_of(ip_id) \o <<0, 0>>
    \o <<ip_ttl, IPPROTO_UDP>> \o <<0, 0>> \o s.saddr \o s.daddr

udp_segment(s, check) ==
  bytes_of(s.source_port) \o bytes_of(s.dest_port) \o bytes_of(udp_len)
    \o bytes_of(check) \o payload

pseudo_header(s) == s.saddr \o s.daddr \o <<0, IPPROTO_UDP>> \o bytes_of(udp_len)

checksum(s) == calculate_checksum(pseudo_header(s) \o udp_segment(s, 0))

(* A checksum of 0 would tell the host that there is none.                 *)
udp_check(s) == IF checksum(s) = 0 THEN 65535 ELSE checksum(s)

(* Mutant: the probe keeps the checksum as it was calculated.              *)
kept_checksum_as_calculated(s) == checksum(s)

kept_checksum(s) == udp_check(s)

ConstructUDPPacket ==
  /\ stage = "construct"
  /\ datagram' = ip_header(probe.spec) \o udp_segment(probe.spec, udp_check(probe.spec))
  /\ probe' = [probe EXCEPT !.udp_checksum = kept_checksum(probe.spec)]
  /\ stage' = "kernel"
  /\ UNCHANGED <<hops_taken, changed, quote, reply, tests>>

(* The header with its checksum in place.                                  *)
Sealed(m) == Write(m, 11, bytes_of(calculate_checksum(
                              SubSeq(Write(m, 11, <<0, 0>>), 1, 20))))

(* A raw socket with IP_HDRINCL: the kernel fills the header checksum in.  *)
KernelSends ==
  /\ stage = "kernel"
  /\ datagram' = Sealed(datagram) /\ stage' = "wire"
  /\ UNCHANGED <<probe, hops_taken, changed, quote, reply, tests>>

(* A router counts down and seals the header again.                        *)
Hop ==
  /\ stage = "wire" /\ hops_taken < MaxHops
  /\ datagram' = Sealed(Write(datagram, 9, <<datagram[9] - 1>>))
  /\ hops_taken' = hops_taken + 1
  /\ UNCHANGED <<stage, probe, changed, quote, reply, tests>>

(* What hosts are known to do to a datagram before they quote it: the      *)
(* header taken off its length, the identifier or a checksum cleared, the  *)
(* time to live counted down without a new checksum, data overwritten.     *)
Changes == {"length", "id", "ttl", "ip_checksum", "udp_checksum", "data"}

Changed(k, byte, len) ==
  CASE k \in {3, 4}   /\ "length" \in changed'       -> bytes_of(total_len - 20)[k - 2]
    [] k \in {5, 6}   /\ "id" \in changed'           -> 0
    [] k = 9          /\ "ttl" \in changed'          -> byte - 1
    [] k \in {11, 12} /\ "ip_checksum" \in changed'  -> 0
    [] k \in {27, 28} /\ "udp_checksum" \in changed' -> 0
    [] k = len        /\ "data" \in changed'         -> 0
    [] OTHER                                         -> byte

HostQuotes ==
  /\ stage = "wire"
  /\ \E len \in QuoteLengths :
       /\ changed' \in SUBSET Changes
       /\ "data" \in changed' => len > 28
       /\ quote' = [k \in 1 .. len |-> Changed(k, datagram[k], len)]
       /\ \E unused \in {0, len} :
            reply' = [ip_tot_length |-> 28 + len, unused |-> unused]
  /\ stage' = "received"
  /\ UNCHANGED <<probe, datagram, hops_taken, tests>>

-----------------------------------------------------------------------------
(* calculate_u1_fingerprint.                                               *)

quoted_ihl == 4 * (quote[1] % 16)

Returned(value, expected) == [is_good |-> value = expected, value |-> value]

RIPCK_test == IF read_u16(quote, 11) = 0 THEN "Z"
              ELSE IF calculate_checksum(SubSeq(quote, 1, quoted_ihl)) = 0
              THEN "G" ELSE "I"

(* However much of the data is quoted, none included.                      *)
RUD_test == \A k \in quoted_ihl + 9 .. Len(quote) : quote[k] = 67

CalculateU1 ==
  /\ stage = "received"
  /\ tests' = [hops  |-> ip_ttl - quote[9],
               IPL   |-> reply.ip_tot_length,
               UN    |-> reply.unused,
               RIPL  |-> Returned(read_u16(quote, 3), 328),
               RID   |-> Returned(read_u16(quote, 5), ip_id),
               RIPCK |-> RIPCK_test,
               RUCK  |-> Returned(read_u16(quote, quoted_ihl + 7), probe.udp_checksum),
               RUD   |-> RUD_test]
  /\ stage' = "done"
  /\ UNCHANGED <<probe, datagram, hops_taken, changed, quote, reply>>

Next == ConstructUDPPacket \/ KernelSends \/ Hop \/ HostQuotes \/ CalculateU1

Spec == Init /\ [][Next]_vars

-----------------------------------------------------------------------------
(* What is sent verifies at the host, or it would never answer; and the    *)
(* tests of U1 blame the host for exactly what the host changed: not for   *)
(* the routers that rewrite the header on the way, nor for a checksum that *)
(* came out as zero, nor for data it did not quote.  The one exception is  *)
(* a header whose right checksum is zero: it counts as cleared ('Z').      *)
Verifies(s) ==
  calculate_checksum(pseudo_header(s) \o SubSeq(datagram, 21, Len(datagram))) = 0

BlamesTheHostOnly ==
  /\ stage = "wire" => Verifies(probe.spec) /\ calculate_checksum(SubSeq(datagram, 1, 20)) = 0
  /\ stage = "done" =>
       /\ tests.RIPL.is_good <=> "length" \notin changed
       /\ tests.RID.is_good  <=> "id" \notin changed
       /\ tests.RUCK.is_good <=> "udp_checksum" \notin changed
       /\ tests.RUD          <=> "data" \notin changed
       /\ tests.hops = hops_taken + IF "ttl" \in changed THEN 1 ELSE 0
       /\ tests.RIPCK = IF "ip_checksum" \in changed \/ read_u16(datagram, 11) = 0
                        THEN "Z"
                        ELSE IF changed \cap {"length", "id", "ttl"} = {}
                        THEN "G" ELSE "I"
=============================================================================
