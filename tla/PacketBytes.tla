----------------------------- MODULE PacketBytes -----------------------------
(***************************************************************************)
(* parse_packet with parse_tcp_response and parse_icmp_response            *)
(* (src/src/packet.c): one captured frame, whose length fields may say     *)
(* anything, is either ignored or yields options and payload, copied to    *)
(* blocks of their own.  Each step is one layer, or one copy.              *)
(*                                                                         *)
(* A frame is known by its length fields; they hold whatever was captured  *)
(* there.  Offsets count from the first byte of the frame.  The walk over  *)
(* the TCP options is module OptionWalk; here they are well formed or not. *)
(***************************************************************************)
EXTENDS Integers, FiniteSets

ETHERNET_HEADER_SIZE == 14
IP_HEADER_SIZE       == 20
TCP_HEADER_SIZE      == 20
ICMP_HEADER_SIZE     == 8

CONSTANTS Frames

UINT16 == 65536      \* number of values of a uint16_t

(* What is captured, at most 65535 bytes of a frame (pcap_open_live):      *)
(* whether its link is Ethernet, whether EtherType and version say IPv4,   *)
(* header and total length of the datagram, whether it is a fragment; the  *)
(* TCP data offset, and whether the options are well formed; the type of   *)
(* an ICMP message, and the version and header length of what it quotes.   *)
(* Header lengths and offsets count words of four bytes.                   *)
Frame == [caplen : 0 .. UINT16 - 1, ethernet : BOOLEAN, ipv4 : BOOLEAN,
          ihl : 0 .. 15, total : 0 .. UINT16 - 1, fragment : BOOLEAN,
          protocol : {"tcp", "icmp", "other"}, offset : 0 .. 15, options : BOOLEAN,
          type : {"echo", "unreachable", "other"},
          quoted : [ipv4 : BOOLEAN, ihl : 0 .. 15]]

VARIABLES
  frame,
  pc,          \* layer, copy or "done"
  reach,       \* end of the bytes read so far (history)
  copied,      \* what has been copied: block -> [from, len]
  status       \* 1 parsed, 0 ignored, -1 failed

vars == <<frame, pc, reach, copied, status>>

Nothing == [b \in {} |-> [from |-> 0, len |-> 0]]

Init == /\ frame \in Frames /\ pc = "ethernet" /\ reach = 0
        /\ copied = Nothing /\ status = 0

Upto(n) == IF n > reach THEN n ELSE reach

(* free_parsed_info goes by the protocol, set before its parser is called. *)
Stop(s) == /\ pc' = "done" /\ status' = s
           /\ copied' = IF s = 1 THEN copied ELSE Nothing
           /\ UNCHANGED frame

Go(where) == pc' = where /\ UNCHANGED <<frame, copied, status>>

(* size_t arithmetic: a difference below zero is a huge number.            *)
HUGE == UINT16
Minus(a, b) == IF a >= b THEN a - b ELSE HUGE

ip              == ETHERNET_HEADER_SIZE
ip_len          == Minus(frame.caplen, ETHERNET_HEADER_SIZE)
ip_header_len   == 4 * frame.ihl
protocol_header == ip + ip_header_len

(* Mutant: the rest of the frame, its padding included.                    *)
protocol_len_of_frame == Minus(ip_len, ip_header_len)

protocol_len    == Minus(frame.total, ip_header_len)

ParseEthernet ==
  /\ pc = "ethernet"
  /\ IF ~frame.ethernet \/ frame.caplen < ETHERNET_HEADER_SIZE
     THEN Stop(0) /\ UNCHANGED reach
     ELSE /\ reach' = Upto(ETHERNET_HEADER_SIZE)
          /\ IF frame.ipv4 THEN Go("ip") ELSE Stop(0)

(* Mutant: the datagram is not compared with what was captured.            *)
ip_in_shape_untruncated == /\ ip_header_len >= IP_HEADER_SIZE
                           /\ ip_header_len <= ip_len
                           /\ frame.total >= ip_header_len

ip_in_shape == /\ ip_header_len >= IP_HEADER_SIZE
               /\ ip_header_len <= ip_len
               /\ frame.total >= ip_header_len
               /\ frame.total <= ip_len

ParseIp ==
  /\ pc = "ip"
  /\ IF ip_len < IP_HEADER_SIZE
     THEN Stop(0) /\ UNCHANGED reach
     ELSE /\ reach' = Upto(ip + IP_HEADER_SIZE)
          /\ IF ip_in_shape /\ ~frame.fragment /\ frame.protocol # "other"
             THEN Go(frame.protocol) ELSE Stop(0)

header_len  == 4 * frame.offset
options_len == Minus(header_len, TCP_HEADER_SIZE)

ParseTcp ==
  /\ pc = "tcp"
  /\ IF protocol_len < TCP_HEADER_SIZE
     THEN Stop(0) /\ UNCHANGED reach
     ELSE /\ reach' = Upto(protocol_header + TCP_HEADER_SIZE)
          /\ IF header_len < TCP_HEADER_SIZE \/ header_len > protocol_len
             THEN Stop(0) ELSE Go("options")

(* The walk stays inside the field (OptionWalk, ReadsInsideField).         *)
ParseOptions ==
  /\ pc = "options"
  /\ reach' = Upto(protocol_header + header_len)
  /\ IF frame.options THEN Go("copy options") ELSE Stop(0)

message_header == IF frame.protocol = "tcp" THEN header_len ELSE ICMP_HEADER_SIZE

payload     == protocol_header + message_header
payload_len == Minus(protocol_len, message_header)

ParseIcmp ==
  /\ pc = "icmp"
  /\ IF protocol_len < ICMP_HEADER_SIZE
     THEN Stop(0) /\ UNCHANGED reach
     ELSE /\ reach' = Upto(protocol_header + ICMP_HEADER_SIZE)
          /\ CASE frame.type = "echo"        -> Go("copy payload")
               [] frame.type = "unreachable" -> Go("quote")
               [] OTHER                      -> Stop(0)

quoted_ihl == 4 * frame.quoted.ihl

(* Mutant: one header length suffices for the quoted header.               *)
quote_in_shape_fixed == frame.quoted.ipv4 /\ quoted_ihl >= IP_HEADER_SIZE

quote_in_shape == /\ frame.quoted.ipv4 /\ quoted_ihl >= IP_HEADER_SIZE
                  /\ quoted_ihl <= payload_len

ParseQuote ==
  /\ pc = "quote"
  /\ IF payload_len < IP_HEADER_SIZE
     THEN Stop(0) /\ UNCHANGED reach
     ELSE /\ reach' = Upto(payload + 12)
          /\ IF quote_in_shape THEN Go("copy payload") ELSE Stop(0)

(* copy_bytes allocates nothing for no bytes; otherwise it may fail.       *)
Copied(block, from, len) ==
  IF len = 0 THEN copied
  ELSE [b \in {block} \cup DOMAIN copied |->
          IF b = block THEN [from |-> from, len |-> len] ELSE copied[b]]

CopyFails ==
  /\ \/ pc = "copy options" /\ options_len > 0
     \/ pc = "copy payload" /\ payload_len > 0
  /\ Stop(-1) /\ UNCHANGED reach

CopyOptions ==
  /\ pc = "copy options"
  /\ copied' = Copied("options", protocol_header + TCP_HEADER_SIZE, options_len)
  /\ reach' = Upto(protocol_header + TCP_HEADER_SIZE + options_len)
  /\ pc' = "copy payload" /\ UNCHANGED <<frame, status>>

CopyPayload ==
  /\ pc = "copy payload"
  /\ copied' = Copied("payload", payload, payload_len)
  /\ reach' = Upto(payload + payload_len)
  /\ pc' = "done" /\ status' = 1 /\ UNCHANGED frame

Next == \/ ParseEthernet \/ ParseIp \/ ParseTcp \/ ParseOptions
        \/ ParseIcmp \/ ParseQuote
        \/ CopyFails \/ CopyOptions \/ CopyPayload

Spec == Init /\ [][Next]_vars

-----------------------------------------------------------------------------
(* Whatever the length fields claim, no byte behind the captured ones is   *)
(* read, tested or copied.                                                 *)
ReadsInsideCapture == reach <= frame.caplen

(* The copies hold what lies behind the headers up to the end of the       *)
(* datagram: all of it, and none of the padding a short frame ends with. In*)
(* an accepted error message that is at least a whole IP header, of the    *)
(* length it states: the readers of the quote (matches_quoted_udp, the     *)
(* checksum of RIPCK) start from that.                                     *)
Extent(block) == IF block \in DOMAIN copied THEN copied[block].len ELSE 0

DeliversTheDatagram ==
  status = 1 =>
    LET fixed == IF frame.protocol = "tcp" THEN TCP_HEADER_SIZE ELSE ICMP_HEADER_SIZE
    IN  /\ ip_header_len + fixed + Extent("options") + Extent("payload") = frame.total
        /\ \A b \in DOMAIN copied :
             copied[b].from + copied[b].len
               = ip + frame.total - IF b = "options" THEN Extent("payload") ELSE 0
        /\ frame.protocol = "icmp" /\ frame.type = "unreachable"
             => frame.quoted.ihl >= 5 /\ Extent("payload") >= 4 * frame.quoted.ihl
=============================================================================
