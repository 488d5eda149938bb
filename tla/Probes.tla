------------------------------- MODULE Probes -------------------------------
(***************************************************************************)
(* The sixteen probes of a scan, what each one asks the network for, and   *)
(* how a reply is attributed to the probe it answers.                      *)
(*                                                                         *)
(*   src/headers/structures.h   probe indices                              *)
(*   src/src/probes.c           probe specifications                       *)
(*   src/src/packet.c           the headers put on the wire                *)
(*   src/src/network.c          the capture filter of network_init         *)
(*   src/src/probe_matcher.c    response_matches_probe and its helper      *)
(*                                                                         *)
(* A scan configuration cfg is a record [first, open, closed, ident]: the  *)
(* first source port, the two target ports and the random identifier       *)
(* ICMP_echo_probe_spec draws.  All four are 16-bit fields of the code.    *)
(* Packet bodies, sequence numbers, windows and option bytes are left out: *)
(* no statement about attribution looks at them.                           *)
(***************************************************************************)
EXTENDS Integers

CONSTANTS
  TARGET_IP,   \* address the probes are sent to
  SOURCE_IP    \* address they are sent from

UINT16 == 65536      \* number of values of a uint16_t

Config == [first  : 0 .. UINT16 - 1,
           open   : 1 .. UINT16 - 1,
           closed : 1 .. UINT16 - 1,
           ident  : 0 .. UINT16 - 1]

-----------------------------------------------------------------------------
(* The probe table.                                                        *)

SEQ1 == 0
SEQ6 == 5
ECN  == 6
IE1  == 7
IE2  == 8
T2   == 9
T4   == 11
T5   == 12
T6   == 13
T7   == 14
U1   == 15

Probe     == SEQ1 .. U1
SeqProbe  == SEQ1 .. SEQ6
IcmpProbe == {IE1, IE2}
TProbe    == T2 .. T7
TcpProbe  == SeqProbe \cup {ECN} \cup TProbe

probe_type(p) == IF p \in TcpProbe THEN "TCP"
                 ELSE IF p \in IcmpProbe THEN "ICMP" ELSE "UDP"

(* Mutant: ECN reuses the port of SEQ6.                                    *)
port_offset_ecn_reuses_seq6(p) ==
  IF p \in SeqProbe THEN p
  ELSE IF p = ECN THEN 5
  ELSE IF p \in TProbe THEN 7 + (p - T2)
  ELSE 13

(* Distance of a probe's source port from first_source_port: the six       *)
(* sequence probes, then ECN, then T2-T7, then U1.                         *)
port_offset(p) == IF p \in SeqProbe THEN p
                  ELSE IF p = ECN THEN 6
                  ELSE IF p \in TProbe THEN 7 + (p - T2)
                  ELSE 13

source_port(cfg, p) == (cfg.first + port_offset(p)) % UINT16

(* T5, T6, T7 and U1 go to the closed port, every other port probe to the  *)
(* open one.                                                               *)
dest_port(cfg, p) == IF p \in T5 .. U1 THEN cfg.closed ELSE cfg.open

icmp_identifier(cfg, p) == (cfg.ident + (p - IE1)) % UINT16
icmp_sequence(p)        == 295 + (p - IE1)

(* The Don't-Fragment request of each specification.                       *)
ip_DF(p) == p \in {T2, T4, T6, IE1}

-----------------------------------------------------------------------------
(* The header fields of the packets put on the wire.  construct_TCP_packet *)
(* and construct_UDP_packet store 0 in frag_off, construct_ICMP_packet     *)
(* stores the DF bit the specification asks for.                           *)

construct_TCP_packet(cfg, p) ==
  [type |-> "TCP", src |-> SOURCE_IP, dst |-> TARGET_IP, df |-> FALSE,
   src_port |-> source_port(cfg, p), dst_port |-> dest_port(cfg, p)]

construct_ICMP_packet(cfg, p) ==
  [type |-> "ICMP", src |-> SOURCE_IP, dst |-> TARGET_IP, df |-> ip_DF(p),
   id |-> icmp_identifier(cfg, p), seq |-> icmp_sequence(p)]

construct_UDP_packet(cfg, p) ==
  [type |-> "UDP", src |-> SOURCE_IP, dst |-> TARGET_IP, df |-> FALSE,
   src_port |-> source_port(cfg, p), dst_port |-> dest_port(cfg, p)]

packet(cfg, p) == CASE probe_type(p) = "TCP"  -> construct_TCP_packet(cfg, p)
                    [] probe_type(p) = "ICMP" -> construct_ICMP_packet(cfg, p)
                    [] OTHER                  -> construct_UDP_packet(cfg, p)

-----------------------------------------------------------------------------
(* Replies, as parse_packet hands them on.  The payload of an ICMP error   *)
(* quotes the datagram it is about: [len, version, ihl, proto, frag, src,  *)
(* dst, src_port, dst_port], with len the bytes quoted, ihl in bytes and   *)
(* frag the fragment offset.                                               *)

ICMP_ECHOREPLY    == 0
ICMP_DEST_UNREACH == 3
ICMP_PORT_UNREACH == 3

(* Mutant: a quote that ends with the UDP header is refused.               *)
matches_quoted_udp_wants_payload(cfg, q) ==
  /\ q.len >= 20 /\ q.version = 4 /\ q.proto = "UDP"
  /\ q.ihl >= 20 /\ q.ihl <= q.len /\ q.len - q.ihl > 8
  /\ q.frag = 0
  /\ q.src = SOURCE_IP /\ q.dst = TARGET_IP
  /\ q.src_port = source_port(cfg, U1)
  /\ q.dst_port = dest_port(cfg, U1)

matches_quoted_udp(cfg, q) ==
  /\ q.len >= 20 /\ q.version = 4 /\ q.proto = "UDP"
  /\ q.ihl >= 20 /\ q.ihl <= q.len /\ q.len - q.ihl >= 8
  /\ q.frag = 0
  /\ q.src = SOURCE_IP /\ q.dst = TARGET_IP
  /\ q.src_port = source_port(cfg, U1)
  /\ q.dst_port = dest_port(cfg, U1)

response_matches_probe(cfg, p, r) ==
  /\ r.src = TARGET_IP /\ r.dst = SOURCE_IP
  /\ \/ /\ probe_type(p) = "TCP"
        /\ r.proto = "TCP"
        /\ r.dst_port = source_port(cfg, p)
        /\ r.src_port = dest_port(cfg, p)
     \/ /\ probe_type(p) = "ICMP"
        /\ r.proto = "ICMP"
        /\ r.type = ICMP_ECHOREPLY
        /\ r.id = icmp_identifier(cfg, p)
        /\ r.seq = icmp_sequence(p)
     \/ /\ probe_type(p) = "UDP"
        /\ r.proto = "ICMP"
        /\ r.type = ICMP_DEST_UNREACH /\ r.code = ICMP_PORT_UNREACH
        /\ matches_quoted_udp(cfg, r.quoted)

(* The capture filter: open_scan_network computes the last TCP source port *)
(* in 16 bits, network_init refuses an empty range and otherwise compiles  *)
(* the filter expression.                                                  *)

(* Mutant: the ECN probe's port is forgotten when the range is sized.      *)
last_tcp_source_port_without_ecn(cfg) == (cfg.first + 11) % UINT16

last_tcp_source_port(cfg) == (cfg.first + 12) % UINT16

network_init_accepts(cfg) == cfg.first <= last_tcp_source_port(cfg)

captures(cfg, r) ==
  /\ r.src = TARGET_IP /\ r.dst = SOURCE_IP
  /\ \/ /\ r.proto = "TCP"
        /\ r.dst_port \in cfg.first .. last_tcp_source_port(cfg)
     \/ /\ r.proto = "ICMP"
        /\ \/ r.type = ICMP_ECHOREPLY
           \/ r.type = ICMP_DEST_UNREACH /\ r.code = ICMP_PORT_UNREACH

(* What an answering host sends back for each kind of probe packet: ports  *)
(* exchanged, identifier and sequence echoed, the datagram quoted (IP      *)
(* header, UDP header and as much payload as it likes).  The host is not   *)
(* part of this program.                                                   *)
quote_of(k) ==
  [len |-> 28, version |-> 4, ihl |-> 20, proto |-> k.type, frag |-> 0,
   src |-> k.src, dst |-> k.dst, src_port |-> k.src_port,
   dst_port |-> k.dst_port]

reply_to(k) ==
  CASE k.type = "TCP" ->
         [proto |-> "TCP", src |-> k.dst, dst |-> k.src,
          src_port |-> k.dst_port, dst_port |-> k.src_port]
    [] k.type = "ICMP" ->
         [proto |-> "ICMP", src |-> k.dst, dst |-> k.src,
          type |-> ICMP_ECHOREPLY, code |-> 0, id |-> k.id, seq |-> k.seq]
    [] OTHER ->
         [proto |-> "ICMP", src |-> k.dst, dst |-> k.src,
          type |-> ICMP_DEST_UNREACH, code |-> ICMP_PORT_UNREACH,
          quoted |-> quote_of(k)]

-----------------------------------------------------------------------------
(* Statements about the table, proved in ScanProofs.                       *)

(* Two different probes never claim the same reply: which free slot        *)
(* match_probe_responses reaches first cannot change the result            *)
(* (src/src/probe_matcher.c:121-137).                                      *)
AtMostOneProbe(cfg, r) ==
  \A p, q \in Probe :
    response_matches_probe(cfg, p, r) /\ response_matches_probe(cfg, q, r)
      => p = q

(* No reply the matcher would accept is dropped by the capture filter of   *)
(* network_init (src/src/network.c:168-177).                               *)
FilterKeepsReplies(cfg, r) ==
  \A p \in Probe : response_matches_probe(cfg, p, r) => captures(cfg, r)

(* The answer of a well-behaved host to the packet that was really sent is *)
(* attributed to the probe the packet was built from.                      *)
ReplyReachesItsProbe(cfg) ==
  \A p \in Probe : response_matches_probe(cfg, p, reply_to(packet(cfg, p)))

(* The packet carries the Don't-Fragment bit its specification asks for    *)
(* ("Constructs a raw TCP packet based on the provided TCP probe           *)
(* specifications", src/src/packet.c:18).                                  *)
PacketHonoursDF(cfg) == \A p \in Probe : packet(cfg, p).df = ip_DF(p)
=============================================================================
