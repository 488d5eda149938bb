------------------------------ MODULE MCProbes ------------------------------
(***************************************************************************)
(* Model-checking harness for Probes: one scan configuration, then one     *)
(* reply, drawn from the values around every boundary of the table: first  *)
(* source ports up to and past the 16-bit wrap, an identifier that wraps,  *)
(* target ports that are also source ports, replies one port, identifier   *)
(* or sequence number off, and quotes one byte short of every limit.       *)
(***************************************************************************)
EXTENDS Probes

CONSTANTS
  FirstPorts,   \* first source ports tried
  Identifiers,  \* random ICMP identifiers tried
  OTHER_IP      \* a host that is not the target

(* Both are 16-bit fields of the code.                                     *)
ASSUME PortAssumption == FirstPorts \subseteq 0 .. UINT16 - 1
ASSUME IdentifierAssumption == Identifiers \subseteq 0 .. UINT16 - 1

VARIABLES
  scan_config,  \* the configuration of the scan
  arrived       \* a set: empty, or the one reply that has arrived

reply_vars == <<scan_config, arrived>>

(* <<open, closed>>: ordinary ports, and two that are also source ports.   *)
TargetPorts == {<<80, 81>>, <<1003, 1012>>}

ScanConfigs == {[first |-> f, open |-> t[1], closed |-> t[2], ident |-> i] :
                  f \in FirstPorts, t \in TargetPorts, i \in Identifiers}

Near(n) == {n % UINT16, (n + 1) % UINT16, (n + UINT16 - 1) % UINT16}

TcpReplies(c) ==
  [proto : {"TCP"}, src : {TARGET_IP, OTHER_IP}, dst : {SOURCE_IP},
   src_port : {c.open, c.closed, 7},
   dst_port : UNION {Near(source_port(c, p)) : p \in Probe}]

EchoReplies(c) ==
  [proto : {"ICMP"}, src : {TARGET_IP, OTHER_IP}, dst : {SOURCE_IP},
   type : {ICMP_ECHOREPLY, 8}, code : {0},
   id : Near(c.ident) \cup Near(c.ident + 1), seq : 294 .. 297]

Quotes(c) ==
  [len : {0, 19, 27, 28}, version : {4}, ihl : {20, 24}, frag : {0, 1},
   proto : {"UDP", "TCP"}, src : {SOURCE_IP}, dst : {TARGET_IP, OTHER_IP},
   src_port : Near(source_port(c, U1)), dst_port : {c.open, c.closed}]

Unreachables(c) ==
  [proto : {"ICMP"}, src : {TARGET_IP}, dst : {SOURCE_IP},
   type : {ICMP_DEST_UNREACH}, code : {2, 3}, quoted : Quotes(c)]

Replies(c) == TcpReplies(c) \cup EchoReplies(c) \cup Unreachables(c)

InitReply == scan_config \in ScanConfigs /\ arrived = {}

Receive == /\ arrived = {}
           /\ \E r \in Replies(scan_config) : arrived' = {r}
           /\ UNCHANGED scan_config

NextReply == Receive

SpecReply == InitReply /\ [][NextReply]_reply_vars

-----------------------------------------------------------------------------
(* No reply answers two probes: match_probe_responses gives every reply to *)
(* the first free slot that matches, so a second candidate would make the  *)
(* result depend on the order of the table.                                *)
OneProbePerReply == \A r \in arrived : AtMostOneProbe(scan_config, r)

(* With a port range network_init accepts, the filter it installs keeps    *)
(* every reply the matcher would have accepted.                            *)
FilterKeepsAllReplies ==
  network_init_accepts(scan_config)
    => \A r \in arrived : FilterKeepsReplies(scan_config, r)

(* The headers that construct_*_packet writes, answered by a well-behaved  *)
(* host, come back to the probe they were built for.                       *)
RepliesReachTheirProbes == ReplyReachesItsProbe(scan_config)

(* Every packet carries the Don't-Fragment bit its specification asks for, *)
(* as the comment on construct_TCP_packet promises.                        *)
DontFragmentHonoured == PacketHonoursDF(scan_config)
=============================================================================
