--------------------------- MODULE PacketsProofs ---------------------------
(***************************************************************************)
(* What surrounds the scan, for every set of frames, messages, arguments   *)
(* and answers of the system: the parser of captured frames stays inside   *)
(* what was captured and copies exactly the datagram; the start of main    *)
(* leaves nothing open; a checksum is the ones' complement sum and shows a *)
(* damaged byte; the two loops over TCP options agree.                     *)
(***************************************************************************)
EXTENDS MCPackets, NaturalRecursion, SequenceTheorems

(* The layers a frame has passed when the parser is at a place.            *)
InIp    == {"tcp", "icmp", "options", "quote", "copy options", "copy payload"}
TcpOnly == {"tcp", "options", "copy options"}

Captured == frame.caplen >= 14

IpPassed == Captured /\ frame.caplen - 14 >= 20 /\ Bytes!ip_in_shape

TcpPassed == /\ frame.protocol = "tcp" /\ IpPassed
             /\ Bytes!header_len >= 20 /\ Bytes!header_len <= Bytes!protocol_len

IcmpPassed == /\ frame.protocol = "icmp" /\ IpPassed /\ Bytes!protocol_len >= 8

QuotePassed ==
  frame.type = "unreachable" => Bytes!quote_in_shape /\ Bytes!payload_len >= 20

OptionsCopied ==
  copied = IF frame.protocol = "tcp" /\ Bytes!options_len > 0
           THEN [b \in {"options"} |-> [from |-> Bytes!protocol_header + 20,
                                        len  |-> Bytes!options_len]]
           ELSE Bytes!Nothing

(* Where the parser is, and what it knows there.                           *)
Passed ==
  /\ next \in {"ethernet", "ip", "done"} \cup InIp
  /\ next = "ip" => Captured
  /\ next \in InIp => IpPassed
  /\ next \in TcpOnly => frame.protocol = "tcp"
  /\ next \in {"options", "copy options"} => TcpPassed
  /\ next \in {"icmp", "quote"} => frame.protocol = "icmp"
  /\ next = "quote" => IcmpPassed
  /\ next = "copy payload" => TcpPassed \/ (IcmpPassed /\ QuotePassed)
  /\ next \notin {"copy payload", "done"} => copied = Bytes!Nothing
  /\ next = "copy payload" => OptionsCopied

BytesInv ==
  /\ frame \in Frames /\ extent \in Nat /\ extent <= frame.caplen
  /\ next # "done" => status = 0
  /\ Passed /\ Bytes!DeliversTheDatagram

(* The lengths of a frame whose headers have been accepted.                *)
LEMMA FrameFacts ==
  ASSUME frame \in Frames
  PROVE  /\ frame.caplen \in Nat /\ frame.total \in Nat
         /\ frame.ihl \in 0 .. 15 /\ frame.offset \in 0 .. 15
         /\ frame.protocol \in {"tcp", "icmp", "other"}
         /\ frame.quoted.ihl \in 0 .. 15
         /\ Bytes!ip = 14 /\ Bytes!ip_header_len = 4 * frame.ihl
         /\ Bytes!protocol_header = 14 + 4 * frame.ihl
         /\ Bytes!header_len = 4 * frame.offset
         /\ Bytes!quoted_ihl = 4 * frame.quoted.ihl
<1>1. frame \in Bytes!Frame
  BY FrameAssumption
<1>0. /\ frame.caplen \in 0 .. Bytes!UINT16 - 1
      /\ frame.total \in 0 .. Bytes!UINT16 - 1
  BY <1>1 DEF Bytes!Frame
<1>2. /\ frame.caplen \in Nat /\ frame.total \in Nat
      /\ frame.ihl \in 0 .. 15 /\ frame.offset \in 0 .. 15
      /\ frame.protocol \in {"tcp", "icmp", "other"}
      /\ frame.quoted.ihl \in 0 .. 15
  BY <1>0, <1>1 DEF Bytes!Frame
<1>3. QED
  BY ONLY <1>2 DEF Bytes!ip, Bytes!ip_header_len, Bytes!protocol_header,
     Bytes!header_len, Bytes!quoted_ihl, Bytes!ETHERNET_HEADER_SIZE

LEMMA IpFacts ==
  ASSUME frame \in Frames, IpPassed
  PROVE  /\ 4 * frame.ihl >= 20 /\ 4 * frame.ihl <= frame.total
         /\ 14 + frame.total <= frame.caplen
         /\ Bytes!protocol_len = frame.total - 4 * frame.ihl
<1>1. Bytes!ip_len = frame.caplen - 14
  BY FrameFacts DEF IpPassed, Captured, Bytes!ip_len, Bytes!Minus,
     Bytes!ETHERNET_HEADER_SIZE
<1>2. /\ 4 * frame.ihl >= 20 /\ 4 * frame.ihl <= frame.total
      /\ frame.total <= frame.caplen - 14
  BY <1>1, FrameFacts DEF IpPassed, Bytes!ip_in_shape, Bytes!IP_HEADER_SIZE
<1>3. QED
  BY <1>2, FrameFacts DEF Bytes!protocol_len, Bytes!Minus

LEMMA TcpFacts ==
  ASSUME frame \in Frames, TcpPassed
  PROVE  /\ 4 * frame.offset >= 20
         /\ 4 * frame.ihl + 4 * frame.offset <= frame.total
         /\ Bytes!options_len = 4 * frame.offset - 20
         /\ Bytes!payload = 14 + 4 * frame.ihl + 4 * frame.offset
         /\ Bytes!payload_len = frame.total - 4 * frame.ihl - 4 * frame.offset
<1>1. /\ 4 * frame.offset >= 20
      /\ 4 * frame.offset <= frame.total - 4 * frame.ihl
      /\ Bytes!protocol_len = frame.total - 4 * frame.ihl
  BY FrameFacts, IpFacts DEF TcpPassed
<1>2. Bytes!options_len = 4 * frame.offset - 20
  BY <1>1, FrameFacts DEF Bytes!options_len, Bytes!Minus, Bytes!TCP_HEADER_SIZE
<1>3. Bytes!payload = 14 + 4 * frame.ihl + 4 * frame.offset
  BY FrameFacts DEF TcpPassed, Bytes!payload, Bytes!message_header
<1>4. Bytes!payload_len = frame.total - 4 * frame.ihl - 4 * frame.offset
  BY <1>1, FrameFacts DEF TcpPassed, Bytes!payload_len, Bytes!Minus,
     Bytes!message_header
<1>5. QED
  BY <1>1, <1>2, <1>3, <1>4, FrameFacts

LEMMA IcmpFacts ==
  ASSUME frame \in Frames, IcmpPassed
  PROVE  /\ 4 * frame.ihl + 8 <= frame.total
         /\ Bytes!payload = 14 + 4 * frame.ihl + 8
         /\ Bytes!payload_len = frame.total - 4 * frame.ihl - 8
<1>1. /\ 8 <= frame.total - 4 * frame.ihl
      /\ Bytes!protocol_len = frame.total - 4 * frame.ihl
  BY FrameFacts, IpFacts DEF IcmpPassed
<1>2. Bytes!payload = 14 + 4 * frame.ihl + 8
  BY FrameFacts DEF IcmpPassed, Bytes!payload, Bytes!message_header,
     Bytes!ICMP_HEADER_SIZE
<1>3. Bytes!payload_len = frame.total - 4 * frame.ihl - 8
  BY <1>1, FrameFacts DEF IcmpPassed, Bytes!payload_len, Bytes!Minus,
     Bytes!message_header, Bytes!ICMP_HEADER_SIZE
<1>4. QED
  BY <1>1, <1>2, <1>3, FrameFacts

(* Upto and Stop, in the variables of the run.                             *)
LEMMA UptoInside ==
  ASSUME NEW e \in Nat, extent \in Nat, NEW m \in Nat, e <= m, extent <= m
  PROVE  Bytes!Upto(e) \in Nat /\ Bytes!Upto(e) <= m
BY DEF Bytes!Upto

LEMMA BytesInit == Bytes!Init => BytesInv
<1> SUFFICES ASSUME Bytes!Init PROVE BytesInv
  OBVIOUS
<1>1. frame \in Frames /\ next = "ethernet" /\ extent = 0 /\ copied = Bytes!Nothing
      /\ status = 0
  BY DEF Bytes!Init
<1>2. frame.caplen \in Nat
  BY <1>1, FrameFacts
<1>3. Bytes!DeliversTheDatagram
  BY <1>1 DEF Bytes!DeliversTheDatagram
<1>4. QED
  BY <1>1, <1>2, <1>3 DEF BytesInv, Passed, InIp, TcpOnly

(* A frame that is ignored, or whose copy fails.                           *)
LEMMA Stopped ==
  ASSUME BytesInv, NEW s \in {0, -1}, Bytes!Stop(s),
         extent' \in Nat, extent' <= frame.caplen
  PROVE  BytesInv'
<1>1. next' = "done" /\ status' # 1 /\ UNCHANGED frame
  BY DEF Bytes!Stop
<1>2. Bytes!DeliversTheDatagram'
  BY <1>1 DEF Bytes!DeliversTheDatagram
<1>3. QED
  BY <1>1, <1>2 DEF BytesInv, Passed, InIp, TcpOnly

(* A step to the next layer, which keeps the frame.                        *)
LEMMA Going ==
  ASSUME BytesInv, next # "done", UNCHANGED <<frame, status>>,
         extent' \in Nat, extent' <= frame.caplen, Passed'
  PROVE  BytesInv'
<1>1. status' = 0
  BY DEF BytesInv
<1>2. Bytes!DeliversTheDatagram'
  BY <1>1 DEF Bytes!DeliversTheDatagram
<1>3. QED
  BY <1>1, <1>2 DEF BytesInv

LEMMA FrameKept ==
  ASSUME UNCHANGED frame
  PROVE  /\ Captured' <=> Captured
         /\ IpPassed' <=> IpPassed
         /\ TcpPassed' <=> TcpPassed
         /\ IcmpPassed' <=> IcmpPassed
         /\ QuotePassed' <=> QuotePassed
         /\ UNCHANGED <<Bytes!options_len, Bytes!protocol_header>>
BY DEF Captured, IpPassed, TcpPassed, IcmpPassed, QuotePassed, Bytes!ip_in_shape,
   Bytes!header_len, Bytes!protocol_len, Bytes!payload_len, Bytes!quote_in_shape,
   Bytes!ip_header_len, Bytes!ip_len, Bytes!quoted_ihl, Bytes!message_header,
   Bytes!Minus, Bytes!options_len, Bytes!protocol_header, Bytes!ip

(* How much of a datagram lies behind its headers, and where.              *)
LEMMA PayloadFacts ==
  ASSUME frame \in Frames, TcpPassed \/ IcmpPassed
  PROVE  /\ Bytes!payload_len \in Nat /\ Bytes!payload \in Nat
         /\ Bytes!payload + Bytes!payload_len = 14 + frame.total
         /\ 14 + frame.total <= frame.caplen
<1>1. CASE TcpPassed
  <2>1. IpPassed
    BY <1>1 DEF TcpPassed
  <2>2. QED
    BY <1>1, <2>1, FrameFacts, IpFacts, TcpFacts
<1>2. CASE IcmpPassed
  <2>1. IpPassed
    BY <1>2 DEF IcmpPassed
  <2>2. QED
    BY <1>2, <2>1, FrameFacts, IpFacts, IcmpFacts
<1>3. QED
  BY <1>1, <1>2

LEMMA CopyKeepsOptions ==
  ASSUME Bytes!CopyPayload, OptionsCopied, frame \in Frames,
         TcpPassed \/ IcmpPassed
  PROVE  /\ DOMAIN copied' \subseteq {"options", "payload"}
         /\ Bytes!Extent("payload")' = Bytes!payload_len
         /\ "payload" \in DOMAIN copied' =>
              copied'["payload"] = [from |-> Bytes!payload, len |-> Bytes!payload_len]
         /\ "options" \in DOMAIN copied' <=>
              frame.protocol = "tcp" /\ Bytes!options_len > 0
         /\ "options" \in DOMAIN copied' =>
              copied'["options"] = [from |-> Bytes!protocol_header + 20,
                                    len  |-> Bytes!options_len]
<1> DEFINE here == [from |-> Bytes!payload, len |-> Bytes!payload_len]
<1>1. /\ DOMAIN copied \subseteq {"options"}
      /\ "options" \in DOMAIN copied <=> frame.protocol = "tcp" /\ Bytes!options_len > 0
      /\ "options" \in DOMAIN copied =>
           copied["options"] = [from |-> Bytes!protocol_header + 20,
                                len  |-> Bytes!options_len]
  BY DEF OptionsCopied, Bytes!Nothing
<1>2. CASE Bytes!payload_len = 0
  <2>1. copied' = copied
    BY <1>2 DEF Bytes!CopyPayload, Bytes!Copied
  <2>2. Bytes!Extent("payload")' = 0
    BY <1>1, <2>1 DEF Bytes!Extent
  <2>3. QED
    BY <1>1, <1>2, <2>1, <2>2
<1>3. CASE Bytes!payload_len # 0
  <2>1. copied' = [b \in {"payload"} \cup DOMAIN copied |->
                     IF b = "payload" THEN here ELSE copied[b]]
    BY <1>3 DEF Bytes!CopyPayload, Bytes!Copied
  <2>2. /\ DOMAIN copied' = {"payload"} \cup DOMAIN copied
        /\ copied'["payload"] = here
        /\ "options" \in DOMAIN copied => copied'["options"] = copied["options"]
    BY <2>1
  <2>3. Bytes!Extent("payload")' = Bytes!payload_len
    BY <2>2 DEF Bytes!Extent
  <2>4. QED
    BY <1>1, <2>2, <2>3
<1>4. QED
  BY <1>2, <1>3

LEMMA Delivered ==
  ASSUME BytesInv, Bytes!CopyPayload
  PROVE  Bytes!DeliversTheDatagram'
<1> DEFINE options_end == 14 + frame.total - Bytes!payload_len
<1>1. /\ frame \in Frames /\ OptionsCopied /\ UNCHANGED frame
      /\ TcpPassed \/ (IcmpPassed /\ QuotePassed)
  BY DEF Bytes!CopyPayload, BytesInv, Passed
<1>2. /\ Bytes!payload_len \in Nat
      /\ Bytes!payload + Bytes!payload_len = 14 + frame.total
      /\ frame.total \in Nat
  BY <1>1, PayloadFacts, FrameFacts
<1>3. frame.protocol = "tcp" /\ Bytes!options_len > 0 =>
        Bytes!protocol_header + 20 + Bytes!options_len = options_end
  <2> SUFFICES ASSUME frame.protocol = "tcp"
               PROVE  Bytes!protocol_header + 20 + Bytes!options_len = options_end
    OBVIOUS
  <2>1. TcpPassed
    BY <1>1 DEF IcmpPassed
  <2>2. QED
    BY <1>1, <2>1, FrameFacts, TcpFacts
<1>4. Bytes!Extent("options")' =
        IF frame.protocol = "tcp" THEN 4 * frame.offset - 20 ELSE 0
  <2>1. CASE frame.protocol = "tcp"
    <3>1. TcpPassed
      BY <1>1, <2>1 DEF IcmpPassed
    <3>2. Bytes!options_len = 4 * frame.offset - 20 /\ 4 * frame.offset >= 20
          /\ frame.offset \in 0 .. 15
      BY <1>1, <3>1, TcpFacts, FrameFacts
    <3>3. Bytes!Extent("options")' =
            IF Bytes!options_len > 0 THEN Bytes!options_len ELSE 0
      BY <1>1, <2>1, CopyKeepsOptions DEF Bytes!Extent
    <3>4. QED
      BY <2>1, <3>2, <3>3
  <2>2. CASE frame.protocol # "tcp"
    BY <1>1, <2>2, CopyKeepsOptions DEF Bytes!Extent
  <2>3. QED
    BY <2>1, <2>2
<1>5. Bytes!ip_header_len' + (IF frame'.protocol = "tcp" THEN 20 ELSE 8)
        + Bytes!Extent("options")' + Bytes!Extent("payload")' = frame'.total
  <2>1. /\ Bytes!ip_header_len' = 4 * frame.ihl /\ frame.ihl \in 0 .. 15
        /\ Bytes!Extent("payload")' = Bytes!payload_len
    BY <1>1, FrameFacts, CopyKeepsOptions DEF Bytes!ip_header_len
  <2>2. CASE TcpPassed
    <3>1. frame.protocol = "tcp" /\ frame.offset \in 0 .. 15
      BY <1>1, <2>2, FrameFacts DEF TcpPassed
    <3>2. Bytes!payload_len = frame.total - 4 * frame.ihl - 4 * frame.offset
      BY <1>1, <2>2, TcpFacts
    <3>3. QED
      BY <1>1, <1>2, <1>4, <2>1, <3>1, <3>2
  <2>3. CASE IcmpPassed
    <3>1. frame.protocol = "icmp"
      BY <2>3 DEF IcmpPassed
    <3>2. Bytes!payload_len = frame.total - 4 * frame.ihl - 8
      BY <1>1, <2>3, IcmpFacts
    <3>3. QED
      BY <1>1, <1>2, <1>4, <2>1, <3>1, <3>2
  <2>4. QED
    BY <1>1, <2>2, <2>3
<1>6. ASSUME NEW b \in DOMAIN copied'
      PROVE  copied'[b].from + copied'[b].len
               = 14 + frame'.total - (IF b = "options" THEN Bytes!Extent("payload")' ELSE 0)
  <2>1. b = "options" \/ b = "payload"
    BY <1>1, <1>6, CopyKeepsOptions
  <2>2. CASE b = "options"
    <3>1. /\ copied'[b].from = Bytes!protocol_header + 20
          /\ copied'[b].len = Bytes!options_len
          /\ frame.protocol = "tcp" /\ Bytes!options_len > 0
      BY <1>1, <1>6, <2>2, CopyKeepsOptions
    <3>2. QED
      BY <1>1, <1>3, <2>2, <3>1, CopyKeepsOptions
  <2>3. CASE b = "payload"
    <3>1. /\ copied'[b].from = Bytes!payload /\ copied'[b].len = Bytes!payload_len
      BY <1>1, <1>6, <2>3, CopyKeepsOptions
    <3>2. QED
      BY <1>1, <1>2, <2>3, <3>1
  <2>4. QED
    BY <2>1, <2>2, <2>3
<1>7. frame'.protocol = "icmp" /\ frame'.type = "unreachable" =>
        frame'.quoted.ihl >= 5 /\ Bytes!Extent("payload")' >= 4 * frame'.quoted.ihl
  <2> SUFFICES ASSUME frame.protocol = "icmp", frame.type = "unreachable"
               PROVE  frame.quoted.ihl >= 5 /\ Bytes!payload_len >= 4 * frame.quoted.ihl
    BY <1>1, CopyKeepsOptions
  <2>1. Bytes!quote_in_shape
    BY <1>1 DEF TcpPassed, QuotePassed
  <2>2. 4 * frame.quoted.ihl >= 20 /\ 4 * frame.quoted.ihl <= Bytes!payload_len
    BY <1>1, <2>1, FrameFacts DEF Bytes!quote_in_shape, Bytes!IP_HEADER_SIZE
  <2>3. QED
    BY <1>1, <1>2, <2>2, FrameFacts
<1>8. QED
  BY <1>5, <1>6, <1>7 DEF Bytes!DeliversTheDatagram, Bytes!TCP_HEADER_SIZE,
     Bytes!ICMP_HEADER_SIZE, Bytes!ip, Bytes!ETHERNET_HEADER_SIZE

(* One step of the parser.                                                 *)
LEMMA BytesKept == BytesInv /\ [Bytes!Next]_(Bytes!vars) => BytesInv'
<1> SUFFICES ASSUME BytesInv, [Bytes!Next]_(Bytes!vars) PROVE BytesInv'
  OBVIOUS
<1>0. /\ frame \in Frames /\ extent \in Nat /\ extent <= frame.caplen
      /\ frame.caplen \in Nat /\ Passed
  BY FrameFacts DEF BytesInv
(* A step to the next layer.                                               *)
<1> DEFINE Goes(where) == /\ next' = where /\ UNCHANGED <<frame, copied, status>>
                          /\ extent' \in Nat /\ extent' <= frame.caplen
<1>1. CASE Bytes!ParseEthernet
  <2>1. CASE Bytes!Stop(0) /\ UNCHANGED extent
    BY <1>0, <2>1, Stopped
  <2>2. CASE ~(frame.caplen < 14) /\ extent' = Bytes!Upto(14)
    <3>1. extent' \in Nat /\ extent' <= frame.caplen
      BY <1>0, <2>2, UptoInside
    <3>2. CASE Bytes!Stop(0)
      BY <3>1, <3>2, Stopped
    <3>3. CASE Bytes!Go("ip")
      <4>1. Goes("ip") /\ Captured /\ next = "ethernet"
        BY <1>0, <1>1, <2>2, <3>1, <3>3 DEF Bytes!Go, Bytes!ParseEthernet, Captured
      <4>2. QED
        BY <1>0, <4>1, FrameKept, Going DEF Passed, InIp, TcpOnly
    <3>4. QED
      BY <1>1, <2>2, <3>2, <3>3 DEF Bytes!ParseEthernet, Bytes!ETHERNET_HEADER_SIZE
  <2>3. QED
    BY <1>1, <2>1, <2>2 DEF Bytes!ParseEthernet, Bytes!ETHERNET_HEADER_SIZE
<1>2. CASE Bytes!ParseIp
  <2>0. Captured /\ next = "ip" /\ Bytes!ip_len = frame.caplen - 14 /\ Bytes!ip = 14
    BY <1>0, <1>2, FrameFacts DEF Bytes!ParseIp, BytesInv, Passed, Captured, Bytes!ip_len,
       Bytes!Minus, Bytes!ETHERNET_HEADER_SIZE
  <2>1. CASE Bytes!Stop(0) /\ UNCHANGED extent
    BY <1>0, <2>1, Stopped
  <2>2. CASE ~(Bytes!ip_len < 20) /\ extent' = Bytes!Upto(14 + 20)
    <3>1. extent' \in Nat /\ extent' <= frame.caplen
      BY <1>0, <2>0, <2>2, UptoInside
    <3>2. CASE Bytes!Stop(0)
      BY <3>1, <3>2, Stopped
    <3>3. CASE /\ Bytes!ip_in_shape /\ frame.protocol # "other"
               /\ Bytes!Go(frame.protocol)
      <4>1. /\ Goes(frame.protocol) /\ IpPassed /\ frame.protocol \in {"tcp", "icmp"}
        BY <1>0, <2>0, <2>2, <3>1, <3>3, FrameFacts DEF Bytes!Go, IpPassed
      <4>2. QED
        <5>1. copied' = Bytes!Nothing /\ next # "done"
          BY <1>0, <2>0, <4>1 DEF Passed
        <5>2. Passed'
          BY <4>1, <5>1, FrameKept DEF Passed, InIp, TcpOnly
        <5>3. QED
          BY <4>1, <5>1, <5>2, Going
    <3>4. QED
      BY <1>2, <2>0, <2>2, <3>2, <3>3 DEF Bytes!ParseIp, Bytes!IP_HEADER_SIZE
  <2>3. QED
    BY <1>2, <2>0, <2>1, <2>2 DEF Bytes!ParseIp, Bytes!IP_HEADER_SIZE
<1>3. CASE Bytes!ParseTcp
  <2>0. /\ IpPassed /\ next = "tcp" /\ frame.protocol = "tcp"
        /\ Bytes!protocol_header = 14 + 4 * frame.ihl
    BY <1>0, <1>3, FrameFacts DEF Bytes!ParseTcp, BytesInv, Passed, InIp, TcpOnly
  <2>1. CASE Bytes!Stop(0) /\ UNCHANGED extent
    BY <1>0, <2>1, Stopped
  <2>2. CASE /\ ~(Bytes!protocol_len < 20)
             /\ extent' = Bytes!Upto(Bytes!protocol_header + 20)
    <3>0. Bytes!protocol_header + 20 \in Nat /\ Bytes!protocol_header + 20 <= frame.caplen
      BY <1>0, <2>0, <2>2, FrameFacts, IpFacts
    <3>1. extent' \in Nat /\ extent' <= frame.caplen
      BY <1>0, <2>2, <3>0, UptoInside
    <3>2. CASE Bytes!Stop(0)
      BY <3>1, <3>2, Stopped
    <3>3. CASE /\ ~(Bytes!header_len < 20 \/ Bytes!header_len > Bytes!protocol_len)
               /\ Bytes!Go("options")
      <4>1. Bytes!header_len >= 20 /\ Bytes!header_len <= Bytes!protocol_len
        BY <1>0, <2>0, <3>3, FrameFacts, IpFacts
      <4>2. Goes("options") /\ TcpPassed
        BY <2>0, <3>1, <3>3, <4>1 DEF Bytes!Go, TcpPassed
      <4>3. QED
        BY <1>0, <2>0, <4>2, FrameKept, Going DEF Passed, InIp, TcpOnly
    <3>4. QED
      BY <1>3, <2>0, <2>2, <3>2, <3>3 DEF Bytes!ParseTcp, Bytes!TCP_HEADER_SIZE
  <2>3. QED
    BY <1>3, <2>0, <2>1, <2>2 DEF Bytes!ParseTcp, Bytes!TCP_HEADER_SIZE
<1>4. CASE Bytes!ParseOptions
  <2>0. /\ TcpPassed /\ IpPassed /\ next = "options" /\ frame.protocol = "tcp"
        /\ Bytes!protocol_header = 14 + 4 * frame.ihl
        /\ extent' = Bytes!Upto(Bytes!protocol_header + Bytes!header_len)
    BY <1>0, <1>4, FrameFacts DEF Bytes!ParseOptions, BytesInv, Passed, InIp, TcpOnly
  <2>1. /\ Bytes!protocol_header + Bytes!header_len \in Nat
        /\ Bytes!protocol_header + Bytes!header_len <= frame.caplen
    BY <1>0, <2>0, FrameFacts, IpFacts, TcpFacts
  <2>2. extent' \in Nat /\ extent' <= frame.caplen
    BY <1>0, <2>0, <2>1, UptoInside
  <2>3. CASE Bytes!Stop(0)
    BY <2>2, <2>3, Stopped
  <2>4. CASE Bytes!Go("copy options")
    <3>1. Goes("copy options")
      BY <2>2, <2>4 DEF Bytes!Go
    <3>2. QED
      BY <1>0, <2>0, <3>1, FrameKept, Going DEF Passed, InIp, TcpOnly
  <2>5. QED
    BY <1>4, <2>3, <2>4 DEF Bytes!ParseOptions
<1>5. CASE Bytes!ParseIcmp
  <2>0. /\ IpPassed /\ next = "icmp" /\ frame.protocol = "icmp"
        /\ Bytes!protocol_header = 14 + 4 * frame.ihl /\ copied = Bytes!Nothing
    BY <1>0, <1>5, FrameFacts DEF Bytes!ParseIcmp, BytesInv, Passed, InIp, TcpOnly
  <2>1. CASE Bytes!Stop(0) /\ UNCHANGED extent
    BY <1>0, <2>1, Stopped
  <2>2. CASE /\ ~(Bytes!protocol_len < 8)
             /\ extent' = Bytes!Upto(Bytes!protocol_header + 8)
    <3>0. /\ Bytes!protocol_header + 8 \in Nat /\ Bytes!protocol_header + 8 <= frame.caplen
          /\ IcmpPassed
      BY <1>0, <2>0, <2>2, FrameFacts, IpFacts DEF IcmpPassed
    <3>1. extent' \in Nat /\ extent' <= frame.caplen
      BY <1>0, <2>2, <3>0, UptoInside
    <3>2. CASE Bytes!Stop(0)
      BY <3>1, <3>2, Stopped
    <3>3. CASE frame.type = "echo" /\ Bytes!Go("copy payload")
      <4>1. Goes("copy payload") /\ QuotePassed /\ OptionsCopied /\ status = 0
        BY <2>0, <3>1, <3>3 DEF Bytes!Go, QuotePassed, OptionsCopied, BytesInv
      <4>2. OptionsCopied'
        BY <2>0, <4>1 DEF OptionsCopied
      <4>3. QED
        BY <2>0, <3>0, <4>1, <4>2, FrameKept, Going DEF Passed, InIp, TcpOnly
    <3>4. CASE Bytes!Go("quote")
      <4>1. Goes("quote")
        BY <3>1, <3>4 DEF Bytes!Go
      <4>2. QED
        BY <2>0, <3>0, <4>1, FrameKept, Going DEF Passed, InIp, TcpOnly
    <3>5. QED
      BY <1>5, <2>0, <2>2, <3>2, <3>3, <3>4 DEF Bytes!ParseIcmp, Bytes!ICMP_HEADER_SIZE
  <2>3. QED
    BY <1>5, <2>0, <2>1, <2>2 DEF Bytes!ParseIcmp, Bytes!ICMP_HEADER_SIZE
<1>6. CASE Bytes!ParseQuote
  <2>0. /\ IcmpPassed /\ next = "quote" /\ frame.protocol = "icmp"
        /\ copied = Bytes!Nothing
    BY <1>6 DEF Bytes!ParseQuote, BytesInv, Passed, InIp, TcpOnly
  <2>1. CASE Bytes!Stop(0) /\ UNCHANGED extent
    BY <1>0, <2>1, Stopped
  <2>2. CASE /\ ~(Bytes!payload_len < 20)
             /\ extent' = Bytes!Upto(Bytes!payload + 12)
    <3>0. /\ Bytes!payload + 12 \in Nat /\ Bytes!payload + 12 <= frame.caplen
          /\ Bytes!payload_len >= 20
      BY <1>0, <2>0, <2>2, FrameFacts, PayloadFacts
    <3>1. extent' \in Nat /\ extent' <= frame.caplen
      BY <1>0, <2>2, <3>0, UptoInside
    <3>2. CASE Bytes!Stop(0)
      BY <3>1, <3>2, Stopped
    <3>3. CASE Bytes!quote_in_shape /\ Bytes!Go("copy payload")
      <4>1. Goes("copy payload") /\ QuotePassed /\ OptionsCopied /\ status = 0
        BY <2>0, <3>0, <3>1, <3>3 DEF Bytes!Go, QuotePassed, OptionsCopied, BytesInv
      <4>2. OptionsCopied'
        BY <2>0, <4>1 DEF OptionsCopied
      <4>3. QED
        BY <1>0, <2>0, <4>1, <4>2, FrameKept, Going DEF Passed, InIp, TcpOnly
    <3>4. QED
      BY <1>6, <2>0, <2>2, <3>2, <3>3 DEF Bytes!ParseQuote, Bytes!IP_HEADER_SIZE
  <2>3. QED
    BY <1>6, <2>0, <2>1, <2>2 DEF Bytes!ParseQuote, Bytes!IP_HEADER_SIZE
<1>7. CASE Bytes!CopyFails
  BY <1>0, <1>7, Stopped DEF Bytes!CopyFails
<1>8. CASE Bytes!CopyOptions
  <2>0. /\ TcpPassed /\ IpPassed /\ next = "copy options" /\ frame.protocol = "tcp"
        /\ copied = Bytes!Nothing
        /\ Bytes!protocol_header = 14 + 4 * frame.ihl
        /\ extent' = Bytes!Upto(Bytes!protocol_header + 20 + Bytes!options_len)
        /\ next' = "copy payload" /\ UNCHANGED <<frame, status>> /\ status = 0
    BY <1>0, <1>8, FrameFacts DEF Bytes!CopyOptions, BytesInv, Passed, InIp, TcpOnly,
       Bytes!TCP_HEADER_SIZE
  <2>1. /\ Bytes!protocol_header + 20 + Bytes!options_len \in Nat
        /\ Bytes!protocol_header + 20 + Bytes!options_len <= frame.caplen
        /\ Bytes!options_len \in Nat
    <3>1. /\ Bytes!options_len = 4 * frame.offset - 20 /\ 4 * frame.offset >= 20
          /\ 4 * frame.ihl + 4 * frame.offset <= frame.total
          /\ 14 + frame.total <= frame.caplen
      BY <1>0, <2>0, IpFacts, TcpFacts
    <3>2. frame.ihl \in 0 .. 15 /\ frame.offset \in 0 .. 15 /\ frame.total \in Nat
      BY <1>0, FrameFacts
    <3>3. \A h, o \in 0 .. 15, m, c \in Nat :
            4 * o >= 20 /\ 4 * h + 4 * o <= m /\ 14 + m <= c =>
              /\ (14 + 4 * h) + 20 + (4 * o - 20) \in Nat
              /\ (14 + 4 * h) + 20 + (4 * o - 20) <= c
              /\ 4 * o - 20 \in Nat
      OBVIOUS
    <3>4. QED
      BY <1>0, <2>0, <3>1, <3>2, <3>3
  <2>2. extent' \in Nat /\ extent' <= frame.caplen
    BY <1>0, <2>0, <2>1, UptoInside
  <2>3. copied' = IF Bytes!options_len = 0 THEN Bytes!Nothing
                  ELSE [b \in {"options"} |-> [from |-> Bytes!protocol_header + 20,
                                               len  |-> Bytes!options_len]]
    <3>1. DOMAIN Bytes!Nothing = {}
      BY DEF Bytes!Nothing
    <3>2. QED
      BY <1>8, <2>0, <3>1 DEF Bytes!CopyOptions, Bytes!Copied, Bytes!TCP_HEADER_SIZE
  <2>4. OptionsCopied'
    <3>1. /\ Bytes!options_len' = Bytes!options_len
          /\ Bytes!protocol_header' = Bytes!protocol_header
          /\ frame'.protocol = "tcp"
      BY <2>0, FrameKept
    <3>2. Bytes!options_len = 0 <=> ~(Bytes!options_len > 0)
      BY <2>1
    <3>3. QED
      BY <2>3, <3>1, <3>2 DEF OptionsCopied
  <2>5. QED
    BY <2>0, <2>2, <2>4, FrameKept, Going DEF Passed, InIp, TcpOnly
<1>9. CASE Bytes!CopyPayload
  <2>0. /\ TcpPassed \/ IcmpPassed
        /\ extent' = Bytes!Upto(Bytes!payload + Bytes!payload_len)
        /\ next' = "done" /\ UNCHANGED frame
    BY <1>9 DEF Bytes!CopyPayload, BytesInv, Passed
  <2>1. /\ Bytes!payload + Bytes!payload_len \in Nat
        /\ Bytes!payload + Bytes!payload_len <= frame.caplen
    BY <1>0, <2>0, PayloadFacts
  <2>2. extent' \in Nat /\ extent' <= frame.caplen
    BY <1>0, <2>0, <2>1, UptoInside
  <2>3. Bytes!DeliversTheDatagram'
    BY <1>9, Delivered
  <2>4. QED
    BY <1>0, <2>0, <2>2, <2>3 DEF BytesInv, Passed, InIp, TcpOnly
<1>10. CASE UNCHANGED Bytes!vars
  <2>1. UNCHANGED <<frame, next, extent, copied, status>>
    BY <1>10 DEF Bytes!vars
  <2>2. OptionsCopied' <=> OptionsCopied
    BY <2>1, FrameKept DEF OptionsCopied
  <2>3. Bytes!DeliversTheDatagram' <=> Bytes!DeliversTheDatagram
    BY <2>1 DEF Bytes!DeliversTheDatagram, Bytes!Extent, Bytes!ip_header_len, Bytes!ip
  <2>4. QED
    BY <2>1, <2>2, <2>3, FrameKept DEF BytesInv, Passed, InIp, TcpOnly
<1>11. QED
  BY <1>1, <1>2, <1>3, <1>4, <1>5, <1>6, <1>7, <1>8, <1>9, <1>10 DEF Bytes!Next

-----------------------------------------------------------------------------
(* The start of main.                                                      *)

OnItsInterface ==
  \E k \in DOMAIN interfaces :
    /\ interfaces[k].family = "AF_INET" /\ interfaces[k].address = source
    /\ interfaces[k].name = name /\ interfaces[k].fits

StartInv ==
  /\ held = CASE next = "getsockname" -> {"fd"} [] next = "select" -> {"list"} [] OTHER -> {}
  /\ next \in {"compare", "scan"} => OnItsInterface

LEMMA StartInit == Start!Init => StartInv
BY DEF Start!Init, StartInv

LEMMA StartKept == StartInv /\ [Start!Next]_(Start!vars) => StartInv'
<1> SUFFICES ASSUME StartInv, [Start!Next]_(Start!vars) PROVE StartInv'
  OBVIOUS
<1>1. CASE Start!Tokenize \/ Start!ParsePorts \/ Start!SocketFails
  <2>1. /\ next \in {"strtok", "parse_port", "socket"}
        /\ next' \in {"parse_port", "socket", "exit"} /\ UNCHANGED held
    BY <1>1 DEF Start!Tokenize, Start!ParsePorts, Start!SocketFails, Start!Exit
  <2>2. QED
    BY <2>1 DEF StartInv
<1>2. CASE Start!OpenQuerySocket
  BY <1>2 DEF Start!OpenQuerySocket, StartInv
<1>3. CASE Start!QueryFails \/ Start!QuerySource
  BY <1>3 DEF Start!QueryFails, Start!QuerySource, Start!Exit,
     Start!held_after_failure, StartInv
<1>4. CASE Start!InterfacesUnknown \/ Start!ListInterfaces
  BY <1>4 DEF Start!InterfacesUnknown, Start!ListInterfaces, Start!Exit, StartInv
<1>5. CASE Start!SelectInterface
  <2>1. held' = {} /\ UNCHANGED <<interfaces, source>>
    BY <1>5 DEF Start!SelectInterface
  <2>2. \/ /\ \E k \in Start!Chosen : name' = interfaces[k].name /\ interfaces[k].fits
           /\ next' = "compare"
        \/ next' = "exit"
    BY <1>5 DEF Start!SelectInterface, Start!Exit
  <2>3. CASE next' = "exit"
    BY <2>1, <2>3 DEF StartInv
  <2>4. CASE /\ \E k \in Start!Chosen : name' = interfaces[k].name /\ interfaces[k].fits
             /\ next' = "compare"
    <3>1. PICK k \in Start!Chosen : name' = interfaces[k].name /\ interfaces[k].fits
      BY <2>4
    <3>2. /\ k \in DOMAIN interfaces /\ interfaces[k].address = source
          /\ interfaces[k].family = "AF_INET"
      BY DEF Start!Chosen, Start!Candidates
    <3>3. OnItsInterface'
      BY <2>1, <3>1, <3>2 DEF OnItsInterface
    <3>4. QED
      BY <2>1, <2>4, <3>3 DEF StartInv
  <2>5. QED
    BY <2>2, <2>3, <2>4
<1>6. CASE Start!CompareAndScan
  BY <1>6 DEF Start!CompareAndScan, StartInv, OnItsInterface
<1>7. CASE UNCHANGED Start!vars
  BY <1>7 DEF Start!vars, StartInv, OnItsInterface
<1>8. QED
  BY <1>1, <1>2, <1>3, <1>4, <1>5, <1>6, <1>7 DEF Start!Next

-----------------------------------------------------------------------------
(* The two ports of the argument.                                          *)

(* The values of digits.                                                   *)
LEMMA DigitValue == \A c \in Start!Digit : Start!value_of[c] \in 0 .. 9
<1> SUFFICES ASSUME NEW c \in Start!Digit PROVE Start!value_of[c] \in 0 .. 9
  OBVIOUS
<1>1. PICK e \in 1 .. 10 : c = Start!Digits[e]
  BY DEF Start!Digit
<1>2. \E d \in 0 .. 9 : Start!Digits[d + 1] = c
  <2>1. e - 1 \in 0 .. 9 /\ (e - 1) + 1 = e
    OBVIOUS
  <2>2. QED
    BY <1>1, <2>1
<1>3. Start!value_of[c] = CHOOSE d \in 0 .. 9 : Start!Digits[d + 1] = c
  BY DEF Start!value_of
<1>4. QED
  BY <1>2, <1>3

(* Powers of ten.                                                          *)
LEMMA PowersOfTen ==
  /\ \A n \in Nat : Start!Powers[n] \in Nat /\ Start!Powers[n] > 0
  /\ Start!Powers[0] = 1
  /\ \A n \in Nat : Start!Powers[n + 1] = 10 * Start!Powers[n]
<1> DEFINE F(h) == [n \in Nat |-> IF n = 0 THEN 1 ELSE 10 * h[n - 1]]
           g    == [z \in Nat \X Nat |-> 10 * z[2]]
<1>1. g \in StepOn(Nat)
  BY DEF StepOn
<1>2. PICK f \in [Nat -> Nat] : f[0] = 1 /\ \A n \in Nat : f[n + 1] = g[<<n, f[n]>>]
  <2> DEFINE S == Nat
             c == 1
  <2>1. g \in StepOn(S) /\ c \in S
    BY <1>1
  <2> HIDE DEF S, c, g
  <2>2. \E f \in [Nat -> S] : f[0] = c /\ \A n \in Nat : f[n + 1] = g[<<n, f[n]>>]
    BY <2>1, Recursion
  <2>3. QED
    BY <2>2 DEF S, c
<1>3. f = F(f)
  <2>1. ASSUME NEW n \in Nat PROVE f[n] = F(f)[n]
    <3>1. CASE n = 0
      BY <1>2, <3>1
    <3>2. CASE n # 0
      <4>1. PICK m \in Nat : m = n - 1 /\ n = m + 1
        BY <3>2
      <4>2. f[m + 1] = g[<<m, f[m]>>] /\ f[m] \in Nat
        BY <1>2
      <4>3. QED
        BY <3>2, <4>1, <4>2
    <3>3. QED
      BY <3>1, <3>2
  <2>2. QED
    BY <2>1
<1> DEFINE P == CHOOSE h : h = F(h)
<1>4. P = F(P)
  BY <1>3
<1>5. Start!Powers = P
  BY DEF Start!Powers
<1>6. /\ Start!Powers[0] = 1
      /\ \A n \in Nat : Start!Powers[n + 1] = 10 * Start!Powers[n]
  <2> HIDE DEF P
  <2>1. P[0] = 1
    BY <1>4
  <2>2. ASSUME NEW n \in Nat PROVE P[n + 1] = 10 * P[n]
    <3>1. n + 1 \in Nat /\ n + 1 # 0 /\ (n + 1) - 1 = n
      OBVIOUS
    <3>2. QED
      BY <1>4, <3>1
  <2>3. QED
    BY <1>5, <2>1, <2>2
<1> DEFINE T == {n \in Nat : Start!Powers[n] \in Nat /\ Start!Powers[n] > 0}
<1> HIDE DEF P, F, g
<1>7. 0 \in T /\ \A n \in Nat : n \in T => n + 1 \in T
  BY <1>6
<1> HIDE DEF T
<1>8. \A n \in Nat : n \in T
  BY <1>7, Induction
<1>9. QED
  BY <1>6, <1>8 DEF T

LEMMA SaturatedInRange ==
  ASSUME NEW u \in Nat, NEW x \in 0 .. u, NEW d \in 0 .. 9
  PROVE  (IF 10 * x + d > u THEN u ELSE 10 * x + d) \in 0 .. u
OBVIOUS

(* What strtoul has read behind the first k digits.                        *)
Reading(text, h) ==
  [k \in Nat |->
     IF k \notin Start!DigitRun(text) THEN 0
     ELSE LET n == 10 * h[k - 1] + Start!value_of[text[k]]
          IN  IF n > ULONG_MAX THEN ULONG_MAX ELSE n]

Value(text) == CHOOSE h : h = Reading(text, h)

LEMMA ReadingExists ==
  ASSUME NEW text \in Seq(STRING)
  PROVE  Value(text) = Reading(text, Value(text)) /\ Value(text) \in [Nat -> 0 .. ULONG_MAX]
<1> DEFINE run  == Start!DigitRun(text)
           S    == 0 .. ULONG_MAX
           n(z) == 10 * z[2] + Start!value_of[text[z[1] + 1]]
           g    == [z \in Nat \X S |-> IF z[1] + 1 \notin run THEN 0
                                       ELSE IF n(z) > ULONG_MAX THEN ULONG_MAX ELSE n(z)]
<1>1. run \subseteq 1 .. Len(text) /\ Len(text) \in Nat
      /\ \A k \in run : text[k] \in Start!Digit
  BY LenProperties DEF Start!DigitRun
<1>2. ASSUME NEW k \in run PROVE Start!value_of[text[k]] \in 0 .. 9
  BY <1>1, DigitValue
<1>3. ULONG_MAX \in Nat
  BY LimitAssumption
<1>4. g \in StepOn(S)
  <2>1. ASSUME NEW z \in Nat \X S PROVE g[z] \in S
    <3>1. CASE z[1] + 1 \notin run
      BY <1>3, <3>1
    <3>2. CASE z[1] + 1 \in run
      <4>1. PICK d \in 0 .. 9 : d = Start!value_of[text[z[1] + 1]]
        BY <1>2, <3>2
      <4>2. PICK x \in 0 .. ULONG_MAX : x = z[2]
        OBVIOUS
      <4>3. g[z] = IF 10 * x + d > ULONG_MAX THEN ULONG_MAX ELSE 10 * x + d
        BY <3>2, <4>1, <4>2
      <4>4. QED
        BY <1>3, <4>3
    <3>3. QED
      BY <3>1, <3>2
  <2>2. QED
    BY <2>1 DEF StepOn
<1>5. 0 \in S
  BY <1>3
<1>6. PICK f \in [Nat -> S] : f[0] = 0 /\ \A m \in Nat : f[m + 1] = g[<<m, f[m]>>]
  <2> HIDE DEF S, g
  <2>1. QED
    BY <1>4, <1>5, Recursion
<1>7. f = Reading(text, f)
  <2>1. ASSUME NEW k \in Nat PROVE f[k] = Reading(text, f)[k]
    <3>1. CASE k = 0
      <4>1. k \notin run
        BY <1>1, <3>1
      <4>2. QED
        BY <1>6, <3>1, <4>1 DEF Reading
    <3>2. CASE k # 0
      <4>1. PICK m \in Nat : m = k - 1 /\ k = m + 1
        BY <3>2
      <4>2. f[m + 1] = g[<<m, f[m]>>] /\ <<m, f[m]>> \in Nat \X S
        BY <1>6
      <4>3. QED
        BY <4>1, <4>2 DEF Reading
    <3>3. QED
      BY <3>1, <3>2
  <2>2. QED
    BY <1>6, <2>1 DEF Reading
<1>8. Value(text) = Reading(text, Value(text))
  BY <1>7, Zenon DEF Value
<1> DEFINE V == Value(text)
           T == {k \in Nat : V[k] \in S}
<1>9. V = [k \in Nat |-> V[k]]
  BY <1>8 DEF Reading
<1>10. \A k \in Nat : V[k] = IF k \notin run THEN 0
         ELSE IF 10 * V[k - 1] + Start!value_of[text[k]] > ULONG_MAX THEN ULONG_MAX
              ELSE 10 * V[k - 1] + Start!value_of[text[k]]
  BY <1>8 DEF Reading
<1> HIDE DEF V, run
<1>11. 0 \in T
  BY <1>1, <1>3, <1>10
<1>12. ASSUME NEW k \in Nat, k \in T PROVE k + 1 \in T
  <2>1. V[k] \in 0 .. ULONG_MAX /\ (k + 1) - 1 = k
    BY <1>12
  <2>2. CASE k + 1 \in run
    <3>1. PICK d \in 0 .. 9 : d = Start!value_of[text[k + 1]]
      BY <1>2, <2>2
    <3>2. V[k + 1] = IF 10 * V[k] + d > ULONG_MAX THEN ULONG_MAX ELSE 10 * V[k] + d
      BY <1>10, <2>1, <2>2, <3>1
    <3>3. PICK x \in 0 .. ULONG_MAX : x = V[k]
      BY <2>1
    <3>4. V[k + 1] \in 0 .. ULONG_MAX
      BY <1>3, <3>2, <3>3, SaturatedInRange
    <3>5. QED
      BY <3>4
  <2>3. CASE k + 1 \notin run
    <3>1. V[k + 1] = 0
      BY <1>10, <2>3
    <3>2. QED
      BY <1>3, <3>1
  <2>4. QED
    BY <2>2, <2>3
<1> HIDE DEF T
<1>13. \A k \in Nat : k \in T
  BY <1>11, <1>12, Induction
<1>14. \A k \in Nat : V[k] \in 0 .. ULONG_MAX
  BY <1>13 DEF T
<1>15. QED
  BY <1>8, <1>9, <1>14 DEF V

(* A number below the point of saturation is what its digits say.          *)
LEMMA DigitStep ==
  ASSUME NEW p \in Nat, p > 0, NEW x \in Nat, NEW y \in Nat, NEW d \in 0 .. 9,
         x = 10 * y + d, NEW v \in Nat, v \div p = x
  PROVE  x % 10 = d /\ v \div (10 * p) = y
<1>1. v % p \in 0 .. p - 1 /\ v = p * x + (v % p)
  BY Division
<1>2. PICK r \in 0 .. p - 1 : v = p * x + r
  BY <1>1
<1>3. p * x = (10 * p) * y + p * d
  <2>1. p * (10 * y + d) = (10 * p) * y + p * d
    OBVIOUS
  <2>2. QED
    BY <2>1
<1>4. p * d >= 0 /\ p * d <= 9 * p
  OBVIOUS
<1>5. PICK e \in Nat : e = p * d /\ e <= 9 * p
  BY <1>4
<1>6. PICK b \in Nat : b = 10 * p /\ b > 0 /\ e + r \in 0 .. b - 1
  BY <1>5
<1>7. v = b * y + (e + r)
  BY <1>2, <1>3, <1>5, <1>6
<1>8. v \div b = y
  BY <1>6, <1>7, RemainderUnique
<1>9. x % 10 = d
  OBVIOUS
<1>10. QED
  BY <1>6, <1>8, <1>9

LEMMA Unsaturated ==
  ASSUME NEW text \in Seq(STRING), NEW len \in Nat, len = Len(text),
         Start!DigitRun(text) = 1 .. len, Value(text)[len] < ULONG_MAX
  PROVE  \A k \in 1 .. len :
           /\ Start!value_of[text[k]] \in 0 .. 9
           /\ Value(text)[k] = 10 * Value(text)[k - 1] + Start!value_of[text[k]]
<1> DEFINE V == Value(text)
           digit(k) == Start!value_of[text[k]]
           T == {j \in Nat : j < len => V[len - j] < ULONG_MAX}
<1>1. \A k \in 1 .. len : digit(k) \in 0 .. 9
  <2>1. \A k \in 1 .. len : text[k] \in Start!Digit
    BY DEF Start!DigitRun
  <2>2. QED
    BY <2>1, DigitValue
<1>2. \A k \in Nat : V[k] \in 0 .. ULONG_MAX
  BY ReadingExists
<1>3. \A k \in 1 .. len : V[k] = IF 10 * V[k - 1] + digit(k) > ULONG_MAX THEN ULONG_MAX
                                 ELSE 10 * V[k - 1] + digit(k)
  <2>1. V = Reading(text, V)
    BY ReadingExists
  <2> HIDE DEF V
  <2>2. QED
    BY <2>1 DEF Reading
<1>4. ULONG_MAX \in Nat
  BY LimitAssumption
<1> HIDE DEF V, digit
<1>5. ASSUME NEW k \in 1 .. len, V[k] < ULONG_MAX
      PROVE  V[k] = 10 * V[k - 1] + digit(k) /\ V[k - 1] < ULONG_MAX
  <2>1. k - 1 \in Nat /\ k \in Nat
    OBVIOUS
  <2>2. PICK x \in Nat, y \in Nat, d \in 0 .. 9 : x = V[k] /\ y = V[k - 1] /\ d = digit(k)
    BY <1>1, <1>2, <2>1
  <2>3. PICK u \in Nat : u = ULONG_MAX
    BY <1>4
  <2>4. x = (IF 10 * y + d > u THEN u ELSE 10 * y + d) /\ x < u
    BY <1>3, <1>5, <2>2, <2>3
  <2>5. x = 10 * y + d /\ y < u
    BY <2>4
  <2>6. QED
    BY <2>2, <2>3, <2>5
<1>6. 0 \in T
  BY DEF V
<1>7. ASSUME NEW j \in Nat, j \in T PROVE j + 1 \in T
  <2> SUFFICES ASSUME j + 1 < len PROVE V[len - (j + 1)] < ULONG_MAX
    OBVIOUS
  <2>1. PICK k \in 1 .. len : k = len - j /\ k - 1 = len - (j + 1)
    OBVIOUS
  <2>2. V[k] < ULONG_MAX
    BY <1>7, <2>1
  <2>3. QED
    BY <1>5, <2>1, <2>2
<1> HIDE DEF T
<1>8. \A j \in Nat : j \in T
  BY <1>6, <1>7, Induction
<1>9. ASSUME NEW k \in 1 .. len PROVE V[k] < ULONG_MAX
  <2>1. len - k \in Nat /\ len - k < len /\ len - (len - k) = k
    OBVIOUS
  <2>2. len - k \in T
    BY <1>8, <2>1
  <2>3. QED
    BY <2>1, <2>2 DEF T
<1>10. QED
  BY <1>1, <1>5, <1>9 DEF V, digit

LEMMA ReadsItsDigits ==
  ASSUME NEW text \in Seq(STRING), text # <<>>,
         Start!DigitRun(text) = 1 .. Len(text), Value(text)[Len(text)] < ULONG_MAX
  PROVE  Start!Denotes(text, Value(text)[Len(text)])
<1> DEFINE V == Value(text)
           P == Start!Powers
           digit(k) == Start!value_of[text[k]]
<1>1. PICK len \in Nat : len = Len(text) /\ len > 0 /\ DOMAIN text = 1 .. len
  BY EmptySeq, LenProperties
<1>2. \A k \in 1 .. len : digit(k) \in 0 .. 9 /\ V[k] = 10 * V[k - 1] + digit(k)
  BY <1>1, Unsaturated
<1>3. /\ \A n \in Nat : P[n] \in Nat /\ P[n] > 0 /\ P[n + 1] = 10 * P[n]
      /\ P[0] = 1
  BY PowersOfTen
<1>4. V[0] = 0
  <2>1. 0 \notin Start!DigitRun(text)
    BY <1>1
  <2>2. V = Reading(text, V)
    BY ReadingExists
  <2> HIDE DEF V
  <2>3. QED
    BY <2>1, <2>2 DEF Reading
<1>5. \A k \in Nat : V[k] \in Nat
  <2>1. \A k \in Nat : V[k] \in 0 .. ULONG_MAX
    BY ReadingExists
  <2>2. QED
    BY <2>1, LimitAssumption
<1>6. \A k \in 1 .. len : text[k] \in Start!Digit
  BY <1>1 DEF Start!DigitRun
<1> HIDE DEF V, P, digit
<1> DEFINE T == {k \in Nat : k <= len => V[k] < P[k]}
           D == {n \in Nat : n <= len => V[len] \div P[n] = V[len - n]}
<1>7. 0 \in T
  BY <1>3, <1>4
<1>8. ASSUME NEW k \in Nat, k \in T PROVE k + 1 \in T
  <2> SUFFICES ASSUME k + 1 <= len PROVE V[k + 1] < P[k + 1]
    OBVIOUS
  <2>1. V[k] < P[k] /\ k + 1 \in 1 .. len /\ (k + 1) - 1 = k
    BY <1>8
  <2>2. PICK x \in Nat, p \in Nat, d \in 0 .. 9 : x = V[k] /\ p = P[k] /\ d = digit(k + 1)
    BY <1>2, <1>3, <1>5, <2>1
  <2>3. V[k + 1] = 10 * x + d /\ P[k + 1] = 10 * p /\ x < p
    BY <1>2, <1>3, <2>1, <2>2
  <2>4. QED
    BY <2>3
<1>9. 0 \in D
  <2>1. \A x \in Nat : x \div 1 = x
    OBVIOUS
  <2>2. V[len] \div P[0] = V[len]
    BY <1>3, <1>5, <2>1
  <2>3. len - 0 = len
    OBVIOUS
  <2>4. QED
    BY <2>2, <2>3
<1>10. ASSUME NEW n \in Nat, n < len, n \in D
       PROVE  V[len - n] % 10 = digit(len - n) /\ V[len] \div P[n + 1] = V[len - (n + 1)]
  <2> DEFINE k == len - n
  <2>1. k \in 1 .. len /\ k - 1 = len - (n + 1) /\ k - 1 \in Nat /\ k \in Nat
    BY <1>10
  <2>2. V[len] \div P[n] = V[k]
    BY <1>10
  <2> HIDE DEF k
  <2>3. PICK x \in Nat, y \in Nat, d \in 0 .. 9, p \in Nat, v \in Nat :
          x = V[k] /\ y = V[k - 1] /\ d = digit(k) /\ p = P[n] /\ v = V[len]
    BY <1>2, <1>3, <1>5, <2>1
  <2>4. x = 10 * y + d /\ p > 0 /\ P[n + 1] = 10 * p /\ v \div p = x
    BY <1>2, <1>3, <2>1, <2>2, <2>3
  <2>5. x % 10 = d /\ v \div (10 * p) = y
    BY <2>4, DigitStep
  <2>6. QED
    BY <2>1, <2>3, <2>4, <2>5 DEF k
<1>11. ASSUME NEW n \in Nat, n \in D PROVE n + 1 \in D
  BY <1>10, <1>11
<1> HIDE DEF T, D
<1>12. len \in T
  BY <1>7, <1>8, Induction
<1>13. \A n \in Nat : n \in D
  BY <1>9, <1>11, Induction
<1>14. V[len] < P[len]
  BY <1>12 DEF T
<1>15. ASSUME NEW n \in 0 .. len - 1
       PROVE  (V[len] \div P[n]) % 10 = digit(len - n)
  <2>1. n \in Nat /\ n < len /\ n <= len
    OBVIOUS
  <2>2. V[len] \div P[n] = V[len - n]
    BY <1>13, <2>1 DEF D
  <2>3. V[len - n] % 10 = digit(len - n)
    BY <1>10, <1>13, <2>1
  <2>4. QED
    BY <2>2, <2>3
<1>16. QED
  BY <1>1, <1>6, <1>14, <1>15 DEF Start!Denotes, V, P, digit

(* parse_port takes a text for a port only if it is one.                   *)
LEMMA ParsedPort ==
  ASSUME NEW text \in Seq(STRING), text # <<>>,
         NEW port, port = Start!parse_port(text), port # -1
  PROVE  port \in 1 .. UINT16_MAX /\ Start!Denotes(text, port)
<1> DEFINE run == Start!DigitRun(text)
           end == IF run = {} THEN 0 ELSE CHOOSE k \in run : \A m \in run : m <= k
<1>1. PICK len \in Nat : len = Len(text) /\ len > 0 /\ DOMAIN text = 1 .. len
  BY EmptySeq, LenProperties
<1>2. Start!strtoul(text) = [value |-> Value(text)[end], end |-> end]
  BY Zenon DEF Start!strtoul, Value, Reading
<1>3. /\ ~(end < len) /\ port = Value(text)[end] /\ port \in 1 .. UINT16_MAX
  <2>1. /\ ~(Start!strtoul(text).end < len)
        /\ port = Start!strtoul(text).value /\ port \in 1 .. UINT16_MAX
    BY <1>1 DEF Start!parse_port
  <2> HIDE DEF end
  <2>2. QED
    BY <1>2, <2>1
<1>4. run = 1 .. len /\ end = len
  <2>1. run \subseteq 0 .. len
    BY <1>1 DEF Start!DigitRun
  <2>2. run # {}
    BY <1>1, <1>3
  <2>3. \E k \in run : \A m \in run : m <= k
    BY <2>1, <2>2, LargestMember
  <2>4. end \in run
    BY <2>2, <2>3
  <2>5. end = len
    BY <1>3, <2>1, <2>4
  <2> HIDE DEF end
  <2>6. len \in run
    BY <2>4, <2>5
  <2>7. QED
    BY <1>1, <2>5, <2>6 DEF Start!DigitRun
<1> HIDE DEF run, end
<1>5. port = Value(text)[len] /\ port < ULONG_MAX
  BY <1>3, <1>4, LimitAssumption
<1>6. Start!Denotes(text, Value(text)[Len(text)])
  BY <1>1, <1>4, <1>5, ReadsItsDigits DEF run
<1>7. QED
  BY <1>1, <1>3, <1>5, <1>6

(* strtok gives tokens that are not empty.                                 *)
LEMMA TokenOfArgument ==
  ASSUME NEW a \in Seq(STRING), NEW k \in Start!Begins(a)
  PROVE  Start!token_at(a, k) \in Seq(STRING) /\ Start!token_at(a, k) # <<>>
<1> DEFINE ends == {m \in k .. Len(a) : \A x \in k .. m : a[x] # Start!COMMA}
           last == CHOOSE m \in ends : \A x \in ends : x <= m
<1>1. Len(a) \in Nat /\ k \in 1 .. Len(a) /\ a[k] # Start!COMMA
  BY LenProperties DEF Start!Begins
<1>2. k \in ends
  BY <1>1
<1>3. ends \subseteq 0 .. Len(a)
  BY <1>1
<1>4. \E m \in ends : \A x \in ends : x <= m
  BY <1>1, <1>2, <1>3, LargestMember
<1>5. last \in ends
  BY <1>4
<1>6. PICK m \in k .. Len(a) : m = last
  BY <1>5
<1>7. Start!token_at(a, k) = SubSeq(a, k, m)
  BY <1>6 DEF Start!token_at
<1> HIDE DEF ends, last
<1>8. SubSeq(a, k, m) \in Seq(STRING) /\ Len(SubSeq(a, k, m)) = m - k + 1
  BY <1>1, <1>6, SubSeqProperties
<1>9. SubSeq(a, k, m) # <<>>
  BY <1>1, <1>8, EmptySeq
<1>10. QED
  BY <1>7, <1>8, <1>9

(* From its tokens on, a start goes on with two ports they denote.         *)
PortInv ==
  /\ argument \in Seq(STRING)
  /\ next \notin {"strtok", "exit"} =>
       \A t \in 1 .. 2 : tokens[t] \in Seq(STRING) /\ tokens[t] # <<>>
  /\ next \notin {"strtok", "parse_port", "exit"} =>
       \A t \in 1 .. 2 : ports[t] \in 1 .. UINT16_MAX /\ Start!Denotes(tokens[t], ports[t])
  /\ next = "scan" => ports[1] # ports[2]

LEMMA PortInit == Start!Init => PortInv
BY ArgumentAssumption DEF Start!Init, PortInv

LEMMA PortKept == PortInv /\ [Start!Next]_(Start!vars) => PortInv'
<1> SUFFICES ASSUME PortInv, [Start!Next]_(Start!vars) PROVE PortInv'
  OBVIOUS
<1> USE DEF PortInv
<1>1. CASE Start!Tokenize
  <2>1. CASE next' = "exit"
    BY <1>1, <2>1 DEF Start!Tokenize
  <2>2. CASE next' # "exit"
    <3>1. PICK j \in Start!Begins(argument), k \in Start!Begins(argument) :
            tokens' = <<Start!token_at(argument, j), Start!token_at(argument, k)>>
      BY <1>1, <2>2 DEF Start!Tokenize, Start!Exit
    <3>2. \A t \in 1 .. 2 : tokens'[t] \in Seq(STRING) /\ tokens'[t] # <<>>
      BY <3>1, TokenOfArgument
    <3>3. next' = "parse_port" /\ UNCHANGED argument
      BY <1>1, <2>2 DEF Start!Tokenize, Start!Exit
    <3>4. QED
      BY <3>2, <3>3
  <2>3. QED
    BY <2>1, <2>2
<1>2. CASE Start!ParsePorts
  <2>1. CASE next' = "exit"
    BY <1>2, <2>1 DEF Start!ParsePorts
  <2>2. CASE next' # "exit"
    <3> DEFINE p(t) == Start!parse_port(tokens[t])
    <3>1. /\ p(1) # -1 /\ p(2) # -1 /\ ports' = <<p(1), p(2)>> /\ next' = "socket"
          /\ next = "parse_port" /\ UNCHANGED <<argument, tokens>>
      BY <1>2, <2>2 DEF Start!ParsePorts, Start!Exit
    <3>2. \A t \in 1 .. 2 : p(t) \in 1 .. UINT16_MAX /\ Start!Denotes(tokens[t], p(t))
      BY <3>1, ParsedPort
    <3> HIDE DEF p
    <3>3. \A t \in 1 .. 2 : ports'[t] = p(t)
      BY <3>1
    <3>4. QED
      BY <3>1, <3>2, <3>3 DEF Start!Denotes
  <2>3. QED
    BY <2>1, <2>2
<1>3. CASE \/ Start!SocketFails \/ Start!OpenQuerySocket \/ Start!QueryFails
           \/ Start!QuerySource \/ Start!InterfacesUnknown
           \/ Start!ListInterfaces \/ Start!SelectInterface
  <2>1. /\ UNCHANGED <<argument, tokens, ports>>
        /\ next \in {"socket", "getsockname", "getifaddrs", "select"}
        /\ next' \in {"getsockname", "getifaddrs", "select", "compare", "exit"}
    BY <1>3 DEF Start!SocketFails, Start!OpenQuerySocket, Start!QueryFails, Start!Exit,
       Start!QuerySource, Start!InterfacesUnknown, Start!ListInterfaces,
       Start!SelectInterface
  <2>2. QED
    BY <2>1 DEF Start!Denotes
<1>4. CASE Start!CompareAndScan
  <2>1. /\ UNCHANGED <<argument, tokens, ports>> /\ next = "compare"
        /\ next' = IF ports[1] = ports[2] THEN "exit" ELSE "scan"
    BY <1>4 DEF Start!CompareAndScan, Start!SamePort
  <2>2. QED
    BY <2>1 DEF Start!Denotes
<1>5. CASE UNCHANGED Start!vars
  BY <1>5 DEF Start!vars, Start!Denotes
<1>6. QED
  BY <1>1, <1>2, <1>3, <1>4, <1>5 DEF Start!Next

LEMMA PortsGiven == PortInv => Start!ScansTwoGivenPorts
BY DEF PortInv, Start!ScansTwoGivenPorts

-----------------------------------------------------------------------------
(* Congruence modulo m.                                                    *)
Cong(m, x, y) == \E q \in Int : x = y + q * m

LEMMA CongTrans ==
  ASSUME NEW m \in Int, NEW x \in Int, NEW y \in Int, NEW z \in Int,
         Cong(m, x, y), Cong(m, y, z)
  PROVE  Cong(m, x, z)
<1>1. PICK p \in Int : x = y + p * m
  BY DEF Cong
<1>2. PICK q \in Int : y = z + q * m
  BY DEF Cong
<1>3. p + q \in Int /\ x = z + (p + q) * m
  BY <1>1, <1>2
<1>4. QED
  BY <1>3 DEF Cong

(* Two congruent numbers less than m apart are the same.                   *)
LEMMA CongNear ==
  ASSUME NEW m \in Nat, NEW x \in Int, NEW y \in Int, Cong(m, x, y),
         x - y < m, y - x < m
  PROVE  x = y
<1>1. PICK q \in Int : x = y + q * m
  BY DEF Cong
<1>2. -m < q * m /\ q * m < m
  BY <1>1
<1>3. q = 0
  BY <1>2
<1>4. QED
  BY <1>1, <1>3

-----------------------------------------------------------------------------
(* The sum of the first k bytes of a message, each at its place of a word. *)

Weight(m, k) == WordPart(BYTE, m, k)
Partial(m)   == SumTo(BYTE, m)

Byte    == 0 .. BYTE - 1
Message == Seq(Byte)

LEMMA BytePositive == BYTE \in Nat /\ BYTE >= 2
BY ByteAssumption

LEMMA MessageIsNat == \A m \in Message : m \in Seq(Nat)
BY OctetsAreNat, BytePositive DEF Byte, Message

LEMMA WeightNat ==
  ASSUME NEW m \in Message, NEW k \in Nat
  PROVE  Weight(m, k) \in Nat
BY MessageIsNat, BytePositive, WordPartNat DEF Weight

LEMMA PartialSums ==
  ASSUME NEW m \in Message
  PROVE  /\ Partial(m) \in [Nat -> Nat] /\ Partial(m)[0] = 0
         /\ \A k \in Nat : Partial(m)[k + 1] = Partial(m)[k] + Weight(m, k + 1)
BY MessageIsNat, BytePositive, SumToSteps DEF Weight, Partial

LEMMA LengthOfMessage ==
  ASSUME NEW m \in Message
  PROVE  Len(m) \in Nat /\ DOMAIN m = 1 .. Len(m)
BY DEF Message

LEMMA PartialOfMessage ==
  ASSUME NEW m \in Message
  PROVE  /\ \A k \in 0 .. Len(m) : Partial(m)[k] \in Nat
         /\ \A k \in 1 .. Len(m) :
              /\ Weight(m, k) \in Nat
              /\ Weight(m, k) = IF k % 2 = 1 THEN m[k] * BYTE ELSE m[k]
              /\ Partial(m)[k] = Partial(m)[k - 1] + Weight(m, k)
BY MessageIsNat, BytePositive, SumOfSequence DEF Weight, Partial

(* Total adds the bytes by halves.                                         *)
LEMMA TotalIsChosen ==
  ASSUME NEW m
  PROVE  Sum!Total(m) = (CHOOSE h : h = InHalves(BYTE, m, h))[<<1, Len(m)>>]
BY Zenon DEF Sum!Total, InHalves, Halves

LEMMA TotalIsPartial ==
  ASSUME NEW m \in Message
  PROVE  Sum!Total(m) = Partial(m)[Len(m)]
BY MessageIsNat, BytePositive, TotalIsChosen, HalvesSum DEF Partial

LEMMA PartialChanged ==
  ASSUME NEW m \in Message, NEW k \in 1 .. Len(m), NEW b \in Byte
  PROVE  LET new == [m EXCEPT ![k] = b]
         IN  /\ new \in Message /\ Len(new) = Len(m)
             /\ \A n \in 0 .. Len(m) :
                  Partial(new)[n] =
                    IF n < k THEN Partial(m)[n]
                    ELSE Partial(m)[n] + Weight(new, k) - Weight(m, k)
<1> DEFINE new == [m EXCEPT ![k] = b]
           L   == Len(m)
<1>0. L \in Nat /\ DOMAIN m = 1 .. L
  BY LengthOfMessage
<1>1. new \in Message /\ Len(new) = L
  BY ExceptSeq DEF Message
<1>2. \A n \in 1 .. L : n # k => Weight(new, n) = Weight(m, n)
  <2>1. \A n \in 1 .. L : n # k => new[n] = m[n] /\ n \in DOMAIN m /\ n \in DOMAIN new
    BY <1>0
  <2>2. QED
    BY <2>1 DEF Weight, WordPart
<1>3. /\ \A n \in 0 .. L : Partial(m)[n] \in Nat /\ Partial(new)[n] \in Nat
      /\ \A n \in 1 .. L :
           /\ Weight(m, n) \in Nat /\ Partial(m)[n] = Partial(m)[n - 1] + Weight(m, n)
           /\ Weight(new, n) \in Nat /\ Partial(new)[n] = Partial(new)[n - 1] + Weight(new, n)
  <2>1. /\ \A n \in 0 .. L : Partial(m)[n] \in Nat
        /\ \A n \in 1 .. L :
             /\ Weight(m, n) \in Nat /\ Partial(m)[n] = Partial(m)[n - 1] + Weight(m, n)
    BY PartialOfMessage
  <2>2. /\ \A n \in 0 .. L : Partial(new)[n] \in Nat
        /\ \A n \in 1 .. L :
             /\ Weight(new, n) \in Nat /\ Partial(new)[n] = Partial(new)[n - 1] + Weight(new, n)
    <3>1. \A x \in Message : Len(x) = L =>
            /\ \A n \in 0 .. L : Partial(x)[n] \in Nat
            /\ \A n \in 1 .. L :
                 Weight(x, n) \in Nat /\ Partial(x)[n] = Partial(x)[n - 1] + Weight(x, n)
      BY PartialOfMessage
    <3>2. QED
      BY <1>1, <3>1
  <2>3. QED
    BY <2>1, <2>2
<1>4. Partial(new)[0] = Partial(m)[0]
  <2>1. \A x \in Message : Partial(x)[0] = 0
    BY PartialSums
  <2>2. QED
    BY <1>1, <2>1
<1> HIDE DEF new
<1> DEFINE T == {n \in Nat : n <= L =>
                   Partial(new)[n] = IF n < k THEN Partial(m)[n]
                                     ELSE Partial(m)[n] + Weight(new, k) - Weight(m, k)}
<1>5. 0 \in T
  BY <1>4
<1>6. ASSUME NEW n \in Nat, n \in T PROVE n + 1 \in T
  <2> SUFFICES ASSUME n + 1 <= L
               PROVE  Partial(new)[n + 1] =
                        IF n + 1 < k THEN Partial(m)[n + 1]
                        ELSE Partial(m)[n + 1] + Weight(new, k) - Weight(m, k)
    OBVIOUS
  <2>1. n + 1 \in 1 .. L /\ n \in 0 .. L /\ (n + 1) - 1 = n /\ n <= L
    BY <1>0
  <2>2. /\ Partial(m)[n + 1] = Partial(m)[n] + Weight(m, n + 1)
        /\ Partial(new)[n + 1] = Partial(new)[n] + Weight(new, n + 1)
        /\ Partial(m)[n] \in Nat /\ Partial(new)[n] \in Nat
        /\ Weight(m, n + 1) \in Nat /\ Weight(new, n + 1) \in Nat
        /\ Weight(m, k) \in Nat /\ Weight(new, k) \in Nat
    BY <1>3, <2>1
  <2>3. n + 1 # k => Weight(new, n + 1) = Weight(m, n + 1)
    BY <1>2, <2>1
  <2>4. Partial(new)[n] = IF n < k THEN Partial(m)[n]
                          ELSE Partial(m)[n] + Weight(new, k) - Weight(m, k)
    BY <1>6, <2>1
  <2>5. k \in Nat
    BY <1>0
  <2>6. QED
    BY <2>2, <2>3, <2>4, <2>5
<1> HIDE DEF T
<1>7. \A n \in Nat : n \in T
  BY <1>5, <1>6, Induction
<1>8. \A n \in 0 .. L : n \in Nat /\ n <= L
  BY <1>0
<1>9. QED
  BY <1>1, <1>7, <1>8 DEF T, new

-----------------------------------------------------------------------------
(* One message on its way.                                                 *)

Modulus == BYTE * BYTE - 1

LEMMA ModulusFacts ==
  /\ BYTE \in Nat /\ BYTE >= 2 /\ Modulus \in Nat /\ Modulus > 2
  /\ Sum!WORD = BYTE * BYTE /\ Sum!WORD = Modulus + 1 /\ Sum!WORD \in Nat
<1>1. \A b \in Nat : b >= 2 => b * b \in Nat /\ b * b >= 4
  OBVIOUS
<1>2. QED
  BY <1>1, BytePositive DEF Modulus, Sum!WORD

(* Folding a carry in keeps the sum modulo WORD - 1, and never makes a     *)
(* zero of anything else.                                                  *)
LEMMA Folding ==
  ASSUME NEW s \in Nat
  PROVE  /\ Sum!folded(s) \in Nat /\ Cong(Modulus, Sum!folded(s), s)
         /\ Sum!folded(s) = 0 <=> s = 0
<1> DEFINE w == Sum!WORD
<1>1. w \in Nat /\ w > 0 /\ w = Modulus + 1 /\ Modulus \in Nat
  BY ModulusFacts
<1> HIDE DEF w
<1>2. PICK q \in Int, r \in 0 .. w - 1 :
        q = s \div w /\ r = s % w /\ s = w * q + r
  BY <1>1, Division
<1>3. q >= 0
  BY <1>1, <1>2
<1>4. Sum!folded(s) = r + q
  BY <1>2 DEF w, Sum!folded
<1>5. r + q = s + (-q) * Modulus
  BY <1>1, <1>2
<1>6. r + q = 0 <=> s = 0
  BY <1>1, <1>2, <1>3
<1>7. r + q \in Nat /\ -q \in Int
  BY <1>1, <1>2, <1>3
<1>8. Cong(Modulus, r + q, s)
  BY <1>5, <1>7 DEF Cong
<1>9. QED
  BY <1>4, <1>6, <1>7, <1>8

(* The accumulator stands for the sum of the bytes read.                   *)
StandsFor(s, t) == s \in Nat /\ Cong(Modulus, s, t) /\ (s = 0 <=> t = 0)

LEMMA StandsForMore ==
  ASSUME NEW s, NEW t \in Nat, NEW w \in Nat, StandsFor(s, t)
  PROVE  StandsFor(s + w, t + w) /\ StandsFor(Sum!folded(s + w), t + w)
<1>1. s \in Nat /\ Cong(Modulus, s, t) /\ (s = 0 <=> t = 0)
  BY DEF StandsFor
<1>2. s + w \in Nat /\ t + w \in Nat /\ (s + w = 0 <=> t + w = 0)
  BY <1>1
<1>3. Cong(Modulus, s + w, t + w)
  <2>1. PICK q \in Int : s = t + q * Modulus
    BY <1>1 DEF Cong
  <2>2. s + w = t + w + q * Modulus
    BY <1>1, <2>1, ModulusFacts
  <2>3. QED
    BY <2>2 DEF Cong
<1>4. /\ Sum!folded(s + w) \in Nat /\ Cong(Modulus, Sum!folded(s + w), s + w)
      /\ Sum!folded(s + w) = 0 <=> s + w = 0
  BY <1>2, Folding
<1>5. Cong(Modulus, Sum!folded(s + w), t + w)
  BY <1>2, <1>3, <1>4, ModulusFacts, CongTrans
<1>6. QED
  BY <1>2, <1>3, <1>4, <1>5 DEF StandsFor

(* The result is what InternetChecksum says of the message.                *)
LEMMA FinalSum ==
  ASSUME NEW m \in Message, NEW s \in 0 .. Modulus, StandsFor(s, Partial(m)[Len(m)])
  PROVE  Modulus - s = Sum!InternetChecksum(m)
<1> DEFINE t == Sum!Total(m)
<1>1. t = Partial(m)[Len(m)] /\ t \in Nat
  BY TotalIsPartial, PartialOfMessage, LengthOfMessage
<1> HIDE DEF t
<1>2. /\ Modulus \in Nat /\ Modulus > 0 /\ Sum!WORD - 1 = Modulus
  BY ModulusFacts
<1>3. CASE t = 0
  <2>1. s = 0
    BY <1>1, <1>3 DEF StandsFor
  <2>2. QED
    BY <1>2, <1>3, <2>1 DEF Sum!InternetChecksum, t
<1>4. CASE t # 0
  <2>1. s # 0 /\ Cong(Modulus, s, t)
    BY <1>1, <1>4 DEF StandsFor
  <2>2. PICK q \in Int : s = t + q * Modulus
    BY <2>1 DEF Cong
  <2>3. -t = Modulus * (q - 1) + (Modulus - s)
    BY <1>1, <1>2, <2>2
  <2>4. Modulus - s \in 0 .. Modulus - 1 /\ -t \in Int /\ q - 1 \in Int
    BY <1>1, <1>2, <2>1
  <2>5. (-t) % Modulus = Modulus - s
    <3>1. \A b \in Nat, x, n \in Int : b > 0 =>
            \A r \in 0 .. b - 1 : x = b * n + r => x % b = r
      BY RemainderUnique
    <3>2. PICK x \in Int, n \in Int : x = -t /\ n = q - 1
      BY <2>4
    <3>3. PICK r \in 0 .. Modulus - 1 : r = Modulus - s
      BY <2>4
    <3>4. x = Modulus * n + r
      BY <2>3, <3>2, <3>3
    <3>5. x % Modulus = r
      BY <1>2, <3>1, <3>4
    <3>6. QED
      BY <3>2, <3>3, <3>5
  <2>6. QED
    BY <1>2, <1>4, <2>5 DEF Sum!InternetChecksum, t
<1>5. QED
  BY <1>3, <1>4

(* The sum of a message as it is sent is a multiple of Modulus, not zero;  *)
(* the one of a damaged message is not a multiple.                         *)
Carries(m) ==
  m \in Message /\ Cong(Modulus, Partial(m)[Len(m)], 0) /\ Partial(m)[Len(m)] > 0

LEMMA IntactVerifies ==
  ASSUME NEW m, Carries(m), NEW s \in 0 .. Modulus, StandsFor(s, Partial(m)[Len(m)])
  PROVE  s = Modulus
<1> DEFINE t == Partial(m)[Len(m)]
<1>1. t \in Nat /\ t > 0 /\ Cong(Modulus, t, 0)
  BY PartialOfMessage, LengthOfMessage DEF Carries
<1> HIDE DEF t
<1>2. s \in Nat /\ s # 0 /\ Cong(Modulus, s, t)
  BY <1>1 DEF StandsFor, t
<1>3. Modulus \in Nat
  BY ModulusFacts
<1>4. PICK p \in Int : s = t + p * Modulus
  BY <1>2 DEF Cong
<1>5. PICK q \in Int : t = 0 + q * Modulus
  BY <1>1 DEF Cong
<1>6. s = (p + q) * Modulus /\ p + q \in Int
  BY <1>3, <1>4, <1>5
<1>7. \A n \in Int : s = n * Modulus => n >= 1 /\ n <= 1
  BY <1>2, <1>3
<1>8. QED
  BY <1>3, <1>6, <1>7

LEMMA DamageShows ==
  ASSUME NEW m, Carries(m), NEW k \in 1 .. Len(m), NEW b \in Byte, b # m[k],
         NEW s \in 0 .. Modulus,
         StandsFor(s, Partial([m EXCEPT ![k] = b])[Len([m EXCEPT ![k] = b])])
  PROVE  s # Modulus
<1> DEFINE new == [m EXCEPT ![k] = b]
           t   == Partial(m)[Len(m)]
           u   == Partial(new)[Len(new)]
           d   == Weight(new, k) - Weight(m, k)
<1>0. m \in Message /\ Len(m) \in Nat /\ DOMAIN m = 1 .. Len(m) /\ k \in DOMAIN m
  BY LengthOfMessage DEF Carries
<1>1. t \in Nat /\ Cong(Modulus, t, 0)
  BY <1>0, PartialOfMessage DEF Carries
<1>2. u = t + Weight(new, k) - Weight(m, k)
  <2>1. /\ Len(new) = Len(m)
        /\ \A n \in 0 .. Len(m) :
             Partial(new)[n] = IF n < k THEN Partial(m)[n]
                               ELSE Partial(m)[n] + Weight(new, k) - Weight(m, k)
    BY <1>0, PartialChanged
  <2>2. Len(m) \in 0 .. Len(m) /\ ~(Len(m) < k)
    BY <1>0
  <2>3. QED
    BY <2>1, <2>2
<1>3. BYTE \in Nat /\ BYTE >= 2 /\ Modulus \in Nat /\ Modulus = BYTE * BYTE - 1
  BY ModulusFacts DEF Modulus
<1>4. d \in Int /\ d # 0 /\ d < Modulus /\ -d < Modulus
  <2>1. m[k] \in Byte /\ new[k] = b /\ k \in DOMAIN new
    BY <1>0 DEF Message
  <2>2. \A x, y \in Byte : x # y =>
          /\ x - y \in Int /\ x - y # 0 /\ x - y < Modulus /\ y - x < Modulus
          /\ x * BYTE - y * BYTE \in Int /\ x * BYTE - y * BYTE # 0
          /\ x * BYTE - y * BYTE < Modulus /\ y * BYTE - x * BYTE < Modulus
    <3> SUFFICES ASSUME NEW x \in Byte, NEW y \in Byte, x # y
                 PROVE  /\ x - y \in Int /\ x - y # 0 /\ x - y < Modulus /\ y - x < Modulus
                        /\ x * BYTE - y * BYTE \in Int /\ x * BYTE - y * BYTE # 0
                        /\ x * BYTE - y * BYTE < Modulus /\ y * BYTE - x * BYTE < Modulus
      OBVIOUS
    <3>1. x \in Int /\ y \in Int /\ x - y <= BYTE - 1 /\ y - x <= BYTE - 1 /\ x - y # 0
      BY <1>3 DEF Byte
    <3>2. PICK z \in Int : z = x - y
      BY <3>1
    <3>3. x * BYTE - y * BYTE = z * BYTE
      BY <1>3, <3>1, <3>2
    <3>4. z # 0 /\ z <= BYTE - 1 /\ -z <= BYTE - 1
      BY <3>1, <3>2
    <3>5. z * BYTE # 0
      BY <1>3, <3>4
    <3>6. z * BYTE <= (BYTE - 1) * BYTE /\ (-z) * BYTE <= (BYTE - 1) * BYTE
      BY <1>3, <3>4
    <3>7. (BYTE - 1) * BYTE < Modulus /\ BYTE - 1 < Modulus
      BY <1>3
    <3>8. QED
      BY <1>3, <3>1, <3>2, <3>3, <3>4, <3>5, <3>6, <3>7
  <2>3. d = IF k % 2 = 1 THEN b * BYTE - m[k] * BYTE ELSE b - m[k]
    BY <1>0, <2>1 DEF Weight, WordPart
  <2> HIDE DEF new, d
  <2>4. PICK x \in Byte, y \in Byte : x = b /\ y = m[k]
    BY <2>1
  <2>5. d = IF k % 2 = 1 THEN x * BYTE - y * BYTE ELSE x - y
    BY <2>3, <2>4
  <2>6. /\ x - y \in Int /\ x - y # 0 /\ x - y < Modulus /\ y - x < Modulus
        /\ x * BYTE - y * BYTE \in Int /\ x * BYTE - y * BYTE # 0
        /\ x * BYTE - y * BYTE < Modulus /\ y * BYTE - x * BYTE < Modulus
    BY <2>2, <2>4
  <2>7. x \in Int /\ y \in Int /\ x * BYTE \in Int /\ y * BYTE \in Int
    BY <1>3 DEF Byte
  <2>8. /\ -(x - y) = y - x
        /\ -(x * BYTE - y * BYTE) = y * BYTE - x * BYTE
    BY <2>7
  <2>9. QED
    BY <2>5, <2>6, <2>8
<1>5. ASSUME s = Modulus PROVE FALSE
  <2>1. Cong(Modulus, s, u)
    BY DEF StandsFor
  <2> HIDE DEF t, u, d
  <2>2. u = t + d
    <3>1. Weight(new, k) \in Int /\ Weight(m, k) \in Int
      <4>1. \A x \in Message : Weight(x, k) \in Nat
        BY <1>0, WeightNat
      <4>2. new \in Message
        BY <1>0, PartialChanged
      <4>3. QED
        BY <1>0, <4>1, <4>2
    <3>2. QED
      BY <1>1, <1>2, <3>1 DEF d
  <2>3. PICK p \in Int : s = u + p * Modulus
    BY <2>1 DEF Cong
  <2>4. PICK q \in Int : t = 0 + q * Modulus
    BY <1>1 DEF Cong
  <2>5. PICK n \in Int : n = 1 - p - q
    OBVIOUS
  <2>6. d = n * Modulus
    <3>1. ASSUME NEW c \in Int, NEW f \in Int, NEW j \in Int, NEW e \in Int, e = 1 - f - j
          PROVE  e * c = c - f * c - j * c
      BY <3>1
    <3>2. Modulus = t + d + p * Modulus /\ t = q * Modulus
      BY <1>1, <1>3, <1>4, <1>5, <2>2, <2>3, <2>4
    <3>3. t \in Int /\ d \in Int /\ Modulus \in Int
      BY <1>1, <1>3, <1>4
    <3>4. n * Modulus = Modulus - p * Modulus - q * Modulus
      BY <2>5, <3>1, <3>3
    <3>5. p * Modulus \in Int /\ q * Modulus \in Int
      BY <3>3
    <3>6. PICK x \in Int, y \in Int : x = p * Modulus /\ y = q * Modulus
      BY <3>5
    <3>7. Modulus = t + d + x /\ t = y /\ n * Modulus = Modulus - x - y
      BY <3>2, <3>4, <3>6
    <3>8. d = Modulus - x - y
      BY <3>3, <3>7
    <3>9. QED
      BY <3>7, <3>8
  <2>7. d = 0
    <3>1. \A c \in Nat, f, y \in Int : y = f * c /\ y < c /\ -y < c => y = 0
      OBVIOUS
    <3>2. QED
      BY <1>3, <1>4, <2>6, <3>1
  <2>8. QED
    BY <1>4, <2>7
<1>6. QED
  BY <1>5

-----------------------------------------------------------------------------
(* The inductive invariant of the checksum: between two turns of a loop    *)
(* the accumulator stands for the bytes read; what was sent carries its    *)
(* checksum; what is received is that, or that with one byte changed.      *)

Received == message = sent \/ \E k \in DOMAIN sent : \E b \in Byte :
                                b # sent[k] /\ message = [sent EXCEPT ![k] = b]

SumInv ==
  /\ message \in Message /\ pass \in {"send", "receive", "done"}
  /\ field \in 1 .. Len(message) - 1 /\ field % 2 = 1
  /\ at \in 1 .. Len(message) + 1 /\ (at % 2 = 1 \/ at = Len(message) + 1)
  /\ StandsFor(sum, Partial(message)[at - 1])
  /\ pass = "send" => message[field] = 0 /\ message[field + 1] = 0
  /\ pass # "send" => Carries(sent) /\ Received
  /\ Sum!VerifiesIfIntact /\ Sum!IsOnesComplement

LEMMA SumInit == Sum!Init => SumInv
<1> SUFFICES ASSUME Sum!Init PROVE SumInv
  OBVIOUS
<1>1. PICK m \in Messages : \E k \in {n \in 1 .. Len(m) - 1 : n % 2 = 1} :
        message = [m EXCEPT ![k] = 0, ![k + 1] = 0] /\ field = k
  BY DEF Sum!Init
<1>2. m \in Message
  BY <1>1, MessageAssumption DEF Message, Byte
<1>3. Len(m) \in Nat /\ DOMAIN m = 1 .. Len(m)
  BY <1>2, LengthOfMessage
<1>4. /\ field \in 1 .. Len(m) - 1 /\ field % 2 = 1
      /\ message = [m EXCEPT ![field] = 0, ![field + 1] = 0]
  BY <1>1
<1>5. 0 \in Byte
  BY BytePositive DEF Byte
<1>6. field \in 1 .. Len(m) /\ field + 1 \in 1 .. Len(m) /\ field # field + 1
  BY <1>3, <1>4
<1>7. \A x \in Message : \A k \in 1 .. Len(x) :
        [x EXCEPT ![k] = 0] \in Message /\ Len([x EXCEPT ![k] = 0]) = Len(x)
  BY <1>5, PartialChanged
<1>8. message \in Message /\ Len(message) = Len(m)
  BY <1>2, <1>4, <1>6, <1>7
<1>9. message[field] = 0 /\ message[field + 1] = 0
  BY <1>3, <1>4, <1>6
<1>10. at = 1 /\ sum = 0 /\ pass = "send"
  BY DEF Sum!Init
<1>11. at \in 1 .. Len(message) + 1 /\ at % 2 = 1 /\ at - 1 = 0
  BY <1>3, <1>8, <1>10
<1>12. StandsFor(0, 0)
  <2>1. 0 = 0 + 0 * Modulus
    BY ModulusFacts
  <2>2. QED
    BY <2>1 DEF StandsFor, Cong
<1>13. Partial(message)[0] = 0
  BY <1>8, PartialSums
<1>14. StandsFor(sum, Partial(message)[at - 1])
  BY <1>10, <1>11, <1>12, <1>13
<1>15. QED
  BY <1>4, <1>8, <1>9, <1>10, <1>11, <1>14
     DEF SumInv, Sum!VerifiesIfIntact, Sum!IsOnesComplement

(* What an iteration adds to the accumulator.                              *)
LEMMA SumAddsWord ==
  ASSUME SumInv, Sum!AddWord
  PROVE  /\ at' \in 1 .. Len(message) + 1 /\ (at' % 2 = 1 \/ at' = Len(message) + 1)
         /\ StandsFor(sum', Partial(message)[at' - 1])
<1>1. Len(message) \in Nat /\ DOMAIN message = 1 .. Len(message) /\ message \in Message
  BY LengthOfMessage DEF SumInv
<1>2. at \in 1 .. Len(message) - 1 /\ at % 2 = 1 /\ at' = at + 2
  BY <1>1 DEF SumInv, Sum!AddWord, Sum!len
<1>3. /\ at \in 1 .. Len(message) /\ at + 1 \in 1 .. Len(message) /\ at - 1 \in 0 .. Len(message)
      /\ (at + 1) % 2 # 1 /\ (at + 1) - 1 = at /\ (at + 2) - 1 = at + 1
      /\ at + 2 \in 1 .. Len(message) + 1 /\ (at + 2) % 2 = 1
  BY <1>1, <1>2
<1>4. /\ Weight(message, at) \in Nat /\ Weight(message, at) = message[at] * BYTE
      /\ Partial(message)[at] = Partial(message)[at - 1] + Weight(message, at)
      /\ Partial(message)[at - 1] \in Nat
  BY <1>1, <1>2, <1>3, PartialOfMessage
<1>5. /\ Weight(message, at + 1) \in Nat /\ Weight(message, at + 1) = message[at + 1]
      /\ Partial(message)[at + 1] = Partial(message)[at] + Weight(message, at + 1)
  BY <1>1, <1>3, PartialOfMessage
<1>6. PICK t \in Nat, v \in Nat, w \in Nat :
        t = Partial(message)[at - 1] /\ v = Weight(message, at) /\ w = Weight(message, at + 1)
  BY <1>4, <1>5
<1>7. StandsFor(sum, t) /\ sum \in Nat
  BY <1>6 DEF SumInv, StandsFor
<1>8. Partial(message)[at + 1] = t + (v + w) /\ v + w \in Nat
  BY <1>4, <1>5, <1>6
<1>9. sum' = Sum!folded(sum + (v + w))
  <2>1. sum' = Sum!folded(sum + v + w)
    BY <1>4, <1>5, <1>6 DEF Sum!AddWord
  <2>2. sum + v + w = sum + (v + w)
    BY <1>7
  <2>3. QED
    BY <2>1, <2>2
<1>10. StandsFor(Sum!folded(sum + (v + w)), t + (v + w))
  BY <1>7, <1>8, StandsForMore
<1>11. QED
  BY <1>2, <1>3, <1>8, <1>9, <1>10

LEMMA SumAddsLeftover ==
  ASSUME SumInv, Sum!AddLeftover
  PROVE  /\ at' = Len(message) + 1 /\ at' \in 1 .. Len(message) + 1
         /\ StandsFor(sum', Partial(message)[at' - 1])
<1>1. Len(message) \in Nat /\ DOMAIN message = 1 .. Len(message) /\ message \in Message
  BY LengthOfMessage DEF SumInv
<1>2. at = Len(message) /\ at \in 1 .. Len(message) /\ at % 2 = 1 /\ at' = at + 1
  <2>1. PICK n \in Nat : n = Len(message)
    BY <1>1
  <2>2. at \in 1 .. n + 1 /\ (at % 2 = 1 \/ at = n + 1)
    BY <2>1 DEF SumInv
  <2>3. n - at + 1 = 1 /\ at' = at + 1
    BY <2>1 DEF Sum!AddLeftover, Sum!len
  <2>4. at = n /\ at # n + 1 /\ at \in 1 .. n
    BY <2>2, <2>3
  <2>5. QED
    BY <2>1, <2>2, <2>3, <2>4
<1>3. at - 1 \in 0 .. Len(message) /\ (at + 1) - 1 = at /\ at + 1 \in 1 .. Len(message) + 1
  BY <1>1, <1>2
<1>4. /\ Weight(message, at) \in Nat /\ Weight(message, at) = message[at] * BYTE
      /\ Partial(message)[at] = Partial(message)[at - 1] + Weight(message, at)
      /\ Partial(message)[at - 1] \in Nat
  BY <1>1, <1>2, <1>3, PartialOfMessage
<1>5. StandsFor(sum, Partial(message)[at - 1])
  BY DEF SumInv
<1>6. sum' = sum + Weight(message, at)
  BY <1>4 DEF Sum!AddLeftover, Sum!leftover
<1>7. StandsFor(sum + Weight(message, at), Partial(message)[at - 1] + Weight(message, at))
  BY <1>4, <1>5, StandsForMore
<1>8. QED
  BY <1>2, <1>3, <1>4, <1>6, <1>7

LEMMA SumFolds ==
  ASSUME SumInv, Sum!Fold
  PROVE  StandsFor(sum', Partial(message)[at - 1])
<1>1. Len(message) \in Nat /\ message \in Message /\ at - 1 \in 0 .. Len(message)
  BY LengthOfMessage DEF SumInv
<1>2. PICK t \in Nat : t = Partial(message)[at - 1]
  BY <1>1, PartialOfMessage
<1>3. StandsFor(sum, t) /\ sum \in Nat
  BY <1>2 DEF SumInv, StandsFor
<1>4. PICK w \in Nat : w = 0
  OBVIOUS
<1>5. StandsFor(Sum!folded(sum + w), t + w)
  BY <1>3, StandsForMore
<1>6. sum + w = sum /\ t + w = t
  BY <1>3, <1>4
<1>7. QED
  BY <1>2, <1>5, <1>6 DEF Sum!Fold

(* All bytes are read, and the accumulator is a word.                      *)
LEMMA SumSummed ==
  ASSUME SumInv, Sum!Summed
  PROVE  sum \in 0 .. Modulus /\ StandsFor(sum, Partial(message)[Len(message)])
         /\ Sum!complement = Modulus - sum
<1>1. Len(message) \in Nat /\ sum \in Nat /\ at \in 1 .. Len(message) + 1
  BY LengthOfMessage DEF SumInv, StandsFor
<1>2. at - 1 = Len(message)
  <2>1. Len(message) - at + 1 = 0
    BY DEF Sum!Summed, Sum!len
  <2>2. QED
    BY <1>1, <2>1
<1>3. PICK w \in Nat : w = Sum!WORD /\ w = Modulus + 1 /\ Modulus \in Nat
  BY ModulusFacts
<1>4. sum < w /\ Sum!complement = w - 1 - sum
  BY <1>3 DEF Sum!Summed, Sum!complement
<1>5. sum \in 0 .. Modulus /\ Sum!complement = Modulus - sum
  BY <1>1, <1>3, <1>4
<1>6. StandsFor(sum, Partial(message)[Len(message)])
  BY <1>2 DEF SumInv
<1>7. QED
  BY <1>5, <1>6

LEMMA NetworkOrder ==
  ASSUME NEW w \in 0 .. Modulus
  PROVE  \E high, low \in Byte : /\ Sum!in_network_order(w) = <<high, low>>
                                 /\ w = high * BYTE + low
<1>1. PICK q \in Int, r \in 0 .. BYTE - 1 :
        q = w \div BYTE /\ r = w % BYTE /\ w = BYTE * q + r
  BY ModulusFacts, Division
<1>2. q >= 0 /\ q < BYTE
  <2>1. ASSUME NEW b \in Nat, b >= 2, NEW n \in Int, NEW l \in 0 .. b - 1,
               b * n + l >= 0, b * n + l <= b * b - 1
        PROVE  n >= 0 /\ n < b
    BY <2>1
  <2>2. w >= 0 /\ w <= BYTE * BYTE - 1 /\ w \in Int
    BY ModulusFacts DEF Modulus
  <2>3. QED
    BY <1>1, <2>1, <2>2, ModulusFacts
<1>3. q \in Byte /\ r \in Byte
  BY <1>1, <1>2, ModulusFacts DEF Byte
<1>4. BYTE * q = q * BYTE
  BY ModulusFacts
<1>5. QED
  BY <1>1, <1>3, <1>4 DEF Sum!in_network_order

(* The stored word completes the sum to a multiple of Modulus.             *)
LEMMA SumStored ==
  ASSUME SumInv, Sum!Store
  PROVE  Carries(message') /\ Len(message') = Len(message)
<1>1. /\ message \in Message /\ Len(message) \in Nat
      /\ field \in 1 .. Len(message) /\ field + 1 \in 1 .. Len(message)
      /\ field % 2 = 1 /\ (field + 1) % 2 # 1
      /\ message[field] = 0 /\ message[field + 1] = 0
  BY LengthOfMessage DEF SumInv, Sum!Store
<1>2. sum \in 0 .. Modulus /\ StandsFor(sum, Partial(message)[Len(message)])
      /\ Sum!complement = Modulus - sum
  BY SumSummed DEF Sum!Store
<1>3. Modulus \in Nat /\ Modulus > 2 /\ Sum!WORD - 1 = Modulus /\ BYTE \in Nat
  BY ModulusFacts
<1>4. PICK c \in 0 .. Modulus : /\ c = Sum!carried /\ (c = Modulus - sum \/ c = Modulus)
                                /\ (c = Modulus => sum = Modulus \/ sum = 0)
                                /\ c = Modulus - sum \/ sum = Modulus
  BY <1>2, <1>3 DEF Sum!carried
<1>5. PICK high \in Byte, low \in Byte :
        Sum!in_network_order(c) = <<high, low>> /\ c = high * BYTE + low
  BY NetworkOrder
<1>6. PICK x : x = [message EXCEPT ![field] = high]
  OBVIOUS
<1>7. PICK y : y = [x EXCEPT ![field + 1] = low]
  OBVIOUS
<1>8. message' = y
  <2>1. message' = [message EXCEPT ![field] = high, ![field + 1] = low]
    BY <1>4, <1>5 DEF Sum!Store
  <2>2. QED
    BY <1>6, <1>7, <2>1
<1>9. /\ x \in Message /\ Len(x) = Len(message)
      /\ Partial(x)[Len(message)] = Partial(message)[Len(message)]
                                    + Weight(x, field) - Weight(message, field)
  <2>1. Len(message) \in 0 .. Len(message) /\ ~(Len(message) < field)
    BY <1>1
  <2>2. QED
    BY <1>1, <1>6, <2>1, PartialChanged
<1>10. /\ y \in Message /\ Len(y) = Len(message)
       /\ Partial(y)[Len(message)] = Partial(x)[Len(message)]
                                     + Weight(y, field + 1) - Weight(x, field + 1)
  <2>1. Len(x) \in 0 .. Len(x) /\ ~(Len(x) < field + 1) /\ field + 1 \in 1 .. Len(x)
    BY <1>1, <1>9
  <2>2. PICK k \in 1 .. Len(x) : k = field + 1
    BY <2>1
  <2>3. y = [x EXCEPT ![k] = low]
    BY <1>7, <2>2
  <2>4. /\ y \in Message /\ Len(y) = Len(x)
        /\ \A n \in 0 .. Len(x) :
             Partial(y)[n] = IF n < k THEN Partial(x)[n]
                             ELSE Partial(x)[n] + Weight(y, k) - Weight(x, k)
    BY <1>9, <2>3, PartialChanged
  <2>5. QED
    BY <1>9, <2>1, <2>2, <2>4
<1>11. /\ Weight(message, field) = 0 /\ Weight(x, field) = high * BYTE
       /\ Weight(x, field + 1) = 0 /\ Weight(y, field + 1) = low
  <2>1. DOMAIN message = 1 .. Len(message) /\ DOMAIN x = 1 .. Len(message)
        /\ DOMAIN y = 1 .. Len(message)
    BY <1>1, <1>9, <1>10, LengthOfMessage
  <2>2. field # field + 1
    BY <1>1
  <2>3. x[field] = high /\ x[field + 1] = 0 /\ y[field + 1] = low
    BY <1>1, <1>6, <1>7, <2>1, <2>2
  <2>4. 0 * BYTE = 0
    BY <1>3
  <2>5. QED
    BY <1>1, <2>1, <2>3, <2>4 DEF Weight, WordPart
<1>12. PICK t \in Nat : t = Partial(message)[Len(message)]
  BY <1>1, PartialOfMessage
<1>13. Partial(y)[Len(y)] = t + c
  <2>1. high * BYTE \in Int /\ low \in Int
    BY <1>3 DEF Byte
  <2>2. PICK v \in Int : v = high * BYTE
    BY <2>1
  <2>3. Partial(x)[Len(message)] = t + v - 0
    BY <1>9, <1>11, <1>12, <2>2
  <2>4. Partial(y)[Len(message)] = (t + v - 0) + low - 0
    BY <1>10, <1>11, <2>3
  <2>5. c = v + low
    BY <1>5, <2>2
  <2>6. QED
    BY <1>10, <2>1, <2>4, <2>5
<1>14. Cong(Modulus, t + c, 0) /\ t + c > 0
  <2>1. Cong(Modulus, sum, t) /\ (sum = 0 <=> t = 0)
    BY <1>2, <1>12 DEF StandsFor
  <2>2. PICK q \in Int : sum = t + q * Modulus
    BY <2>1 DEF Cong
  <2>3. PICK z \in Int : z = q * Modulus
    BY <1>3
  <2>4. t + c = Modulus - z \/ t + c = 2 * Modulus - z
    BY <1>2, <1>3, <1>4, <2>2, <2>3
  <2>5. Modulus - z = 0 + (1 - q) * Modulus
    BY <1>3, <2>3
  <2>6. 2 * Modulus - z = 0 + (2 - q) * Modulus
    BY <1>3, <2>3
  <2>7. 1 - q \in Int /\ 2 - q \in Int
    OBVIOUS
  <2>8. Cong(Modulus, t + c, 0)
    BY <2>4, <2>5, <2>6, <2>7 DEF Cong
  <2>9. t + c > 0
    BY <1>2, <1>3, <1>4, <1>12, <2>1
  <2>10. QED
    BY <2>8, <2>9
<1>15. QED
  BY <1>8, <1>10, <1>13, <1>14 DEF Carries

(* The result of the second call.                                          *)
LEMMA SumVerified ==
  ASSUME SumInv, Sum!Verify
  PROVE  (Sum!complement = 0 <=> message = sent)
         /\ Sum!complement = Sum!InternetChecksum(message)
<1>1. /\ sum \in 0 .. Modulus /\ StandsFor(sum, Partial(message)[Len(message)])
      /\ Sum!complement = Modulus - sum /\ Modulus \in Nat
  BY SumSummed, ModulusFacts DEF Sum!Verify
<1>2. message \in Message /\ Carries(sent) /\ Received
  BY DEF SumInv, Sum!Verify
<1>3. Modulus - sum = Sum!InternetChecksum(message)
  BY <1>1, <1>2, FinalSum
<1>4. Modulus - sum = 0 <=> sum = Modulus
  BY <1>1
<1>5. CASE message = sent
  <2>1. Carries(message)
    BY <1>2, <1>5
  <2>2. sum = Modulus
    BY <1>1, <2>1, IntactVerifies
  <2>3. QED
    BY <1>1, <1>3, <1>4, <1>5, <2>2
<1>6. CASE message # sent
  <2>1. PICK k \in DOMAIN sent, b \in Byte : b # sent[k] /\ message = [sent EXCEPT ![k] = b]
    BY <1>2, <1>6 DEF Received
  <2>2. k \in 1 .. Len(sent)
    BY <1>2, LengthOfMessage DEF Carries
  <2>3. StandsFor(sum, Partial([sent EXCEPT ![k] = b])[Len([sent EXCEPT ![k] = b])])
    BY <1>1, <2>1
  <2>4. sum # Modulus
    BY <1>1, <1>2, <2>1, <2>2, <2>3, DamageShows
  <2>5. QED
    BY <1>1, <1>3, <1>4, <1>6, <2>4
<1>7. QED
  BY <1>5, <1>6

LEMMA SumKept == SumInv /\ [Sum!Next]_(Sum!vars) => SumInv'
<1> SUFFICES ASSUME SumInv, [Sum!Next]_(Sum!vars) PROVE SumInv'
  OBVIOUS
<1> USE DEF Sum!VerifiesIfIntact, Sum!IsOnesComplement
<1>1. CASE Sum!AddWord
  <2>1. UNCHANGED <<message, field, pass, sent, result>> /\ pass # "done"
    BY <1>1 DEF Sum!AddWord
  <2>2. QED
    BY <1>1, <2>1, SumAddsWord DEF SumInv, Received
<1>2. CASE Sum!AddLeftover
  <2>1. UNCHANGED <<message, field, pass, sent, result>> /\ pass # "done"
    BY <1>2 DEF Sum!AddLeftover
  <2>2. QED
    BY <1>2, <2>1, SumAddsLeftover DEF SumInv, Received
<1>3. CASE Sum!Fold
  <2>1. UNCHANGED <<message, field, pass, at, sent, result>> /\ pass # "done"
    BY <1>3 DEF Sum!Fold
  <2>2. QED
    BY <1>3, <2>1, SumFolds DEF SumInv, Received
<1>4. CASE Sum!Store
  <2>1. Carries(message') /\ Len(message') = Len(message)
    BY <1>4, SumStored
  <2>2. sent' = message' /\ pass' = "receive" /\ at' = 1 /\ sum' = 0 /\ field' = field
    BY <1>4 DEF Sum!Store
  <2>3. message' \in Message /\ Len(message') \in Nat
    BY <2>1, LengthOfMessage DEF Carries
  <2>4. StandsFor(0, 0)
    <3>1. 0 = 0 + 0 * Modulus
      BY ModulusFacts
    <3>2. QED
      BY <3>1 DEF StandsFor, Cong
  <2>5. Partial(message')[0] = 0
    <3>1. \A m \in Message : Partial(m)[0] = 0
      BY PartialSums
    <3>2. QED
      BY <2>3, <3>1
  <2>6. at' \in 1 .. Len(message') + 1 /\ at' % 2 = 1 /\ at' - 1 = 0
    BY <2>2, <2>3
  <2>7. \A e : e = at' - 1 => StandsFor(sum', Partial(message')[e])
    BY <2>2, <2>4, <2>5, <2>6
  <2>8. Carries(sent') /\ Received'
    BY <2>1, <2>2 DEF Received
  <2>9. QED
    BY <2>1, <2>2, <2>3, <2>6, <2>7, <2>8 DEF SumInv
<1>5. CASE Sum!Damage
  <2>1. PICK k \in DOMAIN message, b \in Byte :
          b # message[k] /\ message' = [message EXCEPT ![k] = b]
    BY <1>5 DEF Sum!Damage, Byte
  <2>2. /\ pass = "receive" /\ at = 1 /\ message = sent
        /\ UNCHANGED <<field, pass, at, sum, sent, result>>
    BY <1>5 DEF Sum!Damage
  <2>3. message \in Message /\ k \in 1 .. Len(message)
    BY LengthOfMessage DEF SumInv
  <2>4. message' \in Message /\ Len(message') = Len(message)
    BY <2>1, <2>3, PartialChanged
  <2>5. Partial(message')[0] = Partial(message)[0]
    <3>1. \A m \in Message : Partial(m)[0] = 0
      BY PartialSums
    <3>2. QED
      BY <2>3, <2>4, <3>1
  <2>6. at - 1 = 0
    BY <2>2
  <2>7. \A e : e = at - 1 => StandsFor(sum, Partial(message')[e])
    BY <2>5, <2>6 DEF SumInv
  <2>8. Received'
    BY <2>1, <2>2 DEF Received
  <2>9. QED
    BY <2>2, <2>4, <2>7, <2>8 DEF SumInv
<1>6. CASE Sum!Verify
  <2>1. /\ UNCHANGED <<message, field, at, sum, sent>> /\ pass' = "done" /\ pass = "receive"
        /\ result' = Sum!complement
    BY <1>6 DEF Sum!Verify
  <2>2. QED
    BY <1>6, <2>1, SumVerified DEF SumInv, Received
<1>7. CASE UNCHANGED Sum!vars
  BY <1>7 DEF Sum!vars, SumInv, Received
<1>8. QED
  BY <1>1, <1>2, <1>3, <1>4, <1>5, <1>6, <1>7 DEF Sum!Next

-----------------------------------------------------------------------------
(* The three in the behaviours of the run.                                 *)

PartInv == /\ part = "bytes" => BytesInv
           /\ part = "start" => StartInv /\ PortInv
           /\ part = "checksum" => SumInv

LEMMA PartInvariant == SpecPart => []PartInv
<1>1. InitPart => PartInv
  BY BytesInit, StartInit, PortInit, SumInit DEF InitPart, PartInv
<1>2. PartInv /\ [NextPart]_<<part, vars, start_vars, checksum_vars, bytes_vars, next>>
        => PartInv'
  <2> SUFFICES ASSUME PartInv,
                      [NextPart]_<<part, vars, start_vars, checksum_vars, bytes_vars, next>>
               PROVE  PartInv'
    OBVIOUS
  <2>1. UNCHANGED part
    BY DEF NextPart
  <2>2. part = "bytes" => [Bytes!Next]_(Bytes!vars)
    BY DEF NextPart, bytes_vars, Bytes!vars
  <2>3. part = "start" => [Start!Next]_(Start!vars)
    BY DEF NextPart, start_vars, Start!vars
  <2>4. part = "checksum" => [Sum!Next]_(Sum!vars)
    BY DEF NextPart, checksum_vars, Sum!vars
  <2>5. QED
    BY <2>1, <2>2, <2>3, <2>4, BytesKept, StartKept, PortKept, SumKept DEF PartInv
<1>3. QED
  BY <1>1, <1>2, PTL DEF SpecPart

(* Whatever the length fields of a frame claim, the parser reads no byte   *)
(* behind the captured ones (src/src/packet.c:300-580).                    *)
THEOREM ParserStaysInside == SpecPart => []ReadsInsideCapture
<1>1. PartInv => ReadsInsideCapture
  BY DEF PartInv, BytesInv, ReadsInsideCapture, Bytes!ReadsInsideCapture
<1>2. QED
  BY <1>1, PartInvariant, PTL

(* What the parser copies reaches to the end of the datagram and no        *)
(* further, and an accepted error message quotes a whole IP header.        *)
THEOREM ParserCopiesTheDatagram == SpecPart => []DeliversTheDatagram
<1>1. PartInv => DeliversTheDatagram
  BY DEF PartInv, BytesInv, DeliversTheDatagram
<1>2. QED
  BY <1>1, PartInvariant, PTL

(* A message verifies when it comes back as it was sent, and does not with *)
(* any one byte changed, for messages of any length and bytes of any width *)
(* (src/src/packet.c calculate_checksum, the RIPCK test of                 *)
(* src/src/fingerprint.c).                                                 *)
THEOREM ChecksumShowsDamage == SpecPart => []VerifiesIfIntact
<1>1. PartInv => VerifiesIfIntact
  BY DEF PartInv, SumInv, VerifiesIfIntact
<1>2. QED
  BY <1>1, PartInvariant, PTL

(* What calculate_checksum returns is the ones' complement sum, whatever   *)
(* the order in which its carries were folded in (src/src/packet.c).       *)
THEOREM ChecksumIsOnesComplement == SpecPart => []IsOnesComplement
<1>1. PartInv => IsOnesComplement
  BY DEF PartInv, SumInv, IsOnesComplement
<1>2. QED
  BY <1>1, PartInvariant, PTL

(* Whatever main is called with, a scan starts only with two different     *)
(* ports that the two texts denote digit by digit: nothing wraps, nothing  *)
(* that saturates passes, and no sign or trailing text is accepted         *)
(* (src/src/main.c:40-60,76-77).                                           *)
THEOREM PortsAreTheArgument == SpecPart => []ScansTwoGivenPorts
<1>1. PartInv => ScansTwoGivenPorts
  BY PortsGiven DEF PartInv, ScansTwoGivenPorts
<1>2. QED
  BY <1>1, PartInvariant, PTL

(* However the queries of the start end, their socket is closed and their  *)
(* list freed, and a scan captures on an interface with the IPv4 address   *)
(* it sends from (src/src/main.c:100-190, src/src/network.c:20-120).       *)
THEOREM StartLeavesNothingOpen == SpecPart => []CapturesWhereItSends
<1>1. StartInv => Start!CapturesWhereItSends
  BY DEF StartInv, OnItsInterface, Start!CapturesWhereItSends
<1>2. PartInv => CapturesWhereItSends
  BY <1>1 DEF PartInv, CapturesWhereItSends
<1>3. QED
  BY <1>2, PartInvariant, PTL

-----------------------------------------------------------------------------
(* For option fields of any bytes: neither loop reads behind the field, no *)
(* option list is too long for the string, and the two loops see the same  *)
(* options.  The first two facts are bounds on what an option costs; the   *)
(* third follows the generator along the positions the parser has passed.  *)

USE DEF TCPOPT_EOL, TCPOPT_NOP, TCPOPT_MAXSEG, TCPOPT_WINDOW,
        TCPOPT_SACK_PERMITTED, TCPOPT_TIMESTAMP, Single, Known

(* The string grows by at most five characters for every four bytes of     *)
(* options: a maximum segment size is the worst, a letter and four digits. *)
BoundInv ==
  /\ TypeOK
  /\ i <= options_len /\ reach <= options_len
  /\ 4 * ops_index <= 5 * i
  /\ pc = "parse" => ops_index = 0 /\ ops = <<>>
  /\ pc = "done" <=> verdict # "none"
  /\ verdict # "full"

LEMMA ByteType ==
  ASSUME TypeOK, NEW n \in Nat
  PROVE  byte(n) \in 0 .. 255
<1>1. CASE n < options_len
  <2>1. options \in Seq(0 .. 255) /\ n + 1 \in 1 .. Len(options)
    BY <1>1 DEF TypeOK, options_len
  <2>2. \A S : options \in Seq(S) => \A m \in 1 .. Len(options) : options[m] \in S
    BY ElementOfSeq
  <2>3. options[n + 1] \in 0 .. 255
    BY <2>1, <2>2
  <2>4. QED
    BY <1>1, <2>3 DEF byte
<1>2. CASE ~(n < options_len)
  BY <1>2 DEF byte
<1>3. QED
  BY <1>1, <1>2

LEMMA LengthType ==
  ASSUME TypeOK
  PROVE  options_len \in Nat /\ options_len <= 40
BY DEF TypeOK, options_len, OPTIONS_MAX_LENGTH

(* An option the boundary test passes ends inside the field.               *)
LEMMA OptionFits ==
  ASSUME TypeOK, NEW n \in Nat, n < options_len, ~OutOfShape(n)
  PROVE  /\ parse_advance(n) \in Nat /\ parse_advance(n) >= 1
         /\ n + parse_advance(n) <= options_len
         /\ generate_advance(n) = parse_advance(n)
         /\ byte(n) \notin Single
              => parse_advance(n) = byte(n + 1) /\ byte(n + 1) >= 2
         /\ byte(n) \in Known => byte(n + 1) = fixed_length(byte(n))
<1>1. byte(n) \in 0 .. 255 /\ byte(n + 1) \in 0 .. 255
  BY ByteType
<1>2. options_len \in Nat
  BY LengthType
<1>3. QED
  BY <1>1, <1>2 DEF OutOfShape, parse_advance, generate_advance

LEMMA PeekInside ==
  ASSUME TypeOK, i < options_len, reach <= options_len
  PROVE  Peek \in Nat /\ Peek <= options_len
BY LengthType DEF TypeOK, Peek, Read

LEMMA ReadInside ==
  ASSUME TypeOK, reach <= options_len, NEW n \in Nat, n <= options_len
  PROVE  Read(n) \in Nat /\ Read(n) <= options_len
BY LengthType DEF TypeOK, Read

(* The string has room for one more option at any place in the field.      *)
LEMMA RoomLeft ==
  ASSUME BoundInv, pc = "generate", i < options_len
  PROVE  Refusal(i) # "full"
<1>1. options_len \in Nat /\ options_len <= 40 /\ i \in Nat /\ ops_index \in Nat
  BY LengthType DEF BoundInv, TypeOK
<1>2. ops_index <= 50
  BY <1>1 DEF BoundInv
<1>3. needed_space(byte(i)) \in 1 .. 5
  BY DEF needed_space
<1>4. ~StringFull(byte(i))
  BY <1>1, <1>2, <1>3 DEF StringFull, OPS_STRING_MAX_LENGTH
<1>5. QED
  BY <1>4 DEF Refusal

(* What one option adds to the string against the bytes it takes.          *)
LEMMA CostOfOption ==
  ASSUME TypeOK, i < options_len, Refusal(i) = "none",
         NEW w \in Written(byte(i))
  PROVE  w \in Nat /\ 4 * w <= 5 * parse_advance(i)
<1>1. ~OutOfShape(i) /\ byte(i) \in Single \cup Known
  BY DEF Refusal, generate_malformed
<1>2. i \in Nat
  BY DEF TypeOK
<1>3. parse_advance(i) \in Nat /\ parse_advance(i) >= 1
  BY <1>1, <1>2, OptionFits
<1>4. CASE byte(i) \in Single \cup {TCPOPT_SACK_PERMITTED}
  <2>1. w = 1
    BY <1>4 DEF Written, needed_space
  <2>2. QED
    BY <2>1, <1>3
<1>5. CASE byte(i) \in {TCPOPT_MAXSEG, TCPOPT_WINDOW, TCPOPT_TIMESTAMP}
  <2>1. parse_advance(i) = fixed_length(byte(i))
    BY <1>1, <1>2, <1>5, OptionFits
  <2>2. CASE byte(i) = TCPOPT_MAXSEG
    <3>1. parse_advance(i) = 4 /\ w \in 2 .. 5
      BY <2>1, <2>2 DEF Written, needed_space, fixed_length
    <3>2. QED
      BY <3>1
  <2>3. CASE byte(i) = TCPOPT_WINDOW
    <3>1. parse_advance(i) = 3 /\ w \in 2 .. 3
      BY <2>1, <2>3 DEF Written, needed_space, fixed_length
    <3>2. QED
      BY <3>1
  <2>4. CASE byte(i) = TCPOPT_TIMESTAMP
    <3>1. parse_advance(i) = 10 /\ w = 3
      BY <2>1, <2>4 DEF Written, needed_space, fixed_length
    <3>2. QED
      BY <3>1
  <2>5. QED
    BY <1>5, <2>2, <2>3, <2>4
<1>6. QED
  BY <1>1, <1>4, <1>5

-----------------------------------------------------------------------------
(* The bounds are kept.                                                    *)

LEMMA InitBound == Init => BoundInv
<1> SUFFICES ASSUME Init PROVE BoundInv
  OBVIOUS
<1>1. options \in Seq(0 .. 255) /\ Len(options) <= OPTIONS_MAX_LENGTH
  BY BuffersAssumption DEF Init
<1>2. QED
  BY <1>1 DEF Init, BoundInv, TypeOK, options_len, OPTIONS_MAX_LENGTH

LEMMA StepBound == BoundInv /\ [Next]_vars => BoundInv'
<1> SUFFICES ASSUME BoundInv, [Next]_vars PROVE BoundInv'
  OBVIOUS
<1>1. /\ TypeOK /\ i \in Nat /\ reach \in Nat /\ ops_index \in Nat
      /\ options_len \in Nat /\ options_len <= 40
      /\ i <= options_len /\ reach <= options_len
  BY LengthType DEF BoundInv, TypeOK
<1>2. CASE ParseEnd
  <2>1. reach' \in Nat /\ reach' <= options_len
    BY <1>1, <1>2, PeekInside DEF ParseEnd
  <2>2. QED
    BY <1>1, <1>2, <2>1 DEF ParseEnd, BoundInv, TypeOK, options_len
<1>3. CASE ParseMalformed
  <2>1. reach' \in Nat /\ reach' <= options_len
    BY <1>1, <1>3, PeekInside DEF ParseMalformed, InParser
  <2>2. QED
    BY <1>1, <1>3, <2>1 DEF ParseMalformed, InParser, BoundInv, TypeOK, options_len
<1>4. CASE ParseOption
  <2>1. i' \in Nat /\ i' <= options_len
    BY <1>1, <1>4, OptionFits DEF ParseOption, InParser, parse_malformed
  <2>2. reach' \in Nat /\ reach' <= options_len
    BY <1>1, <1>4, <2>1, ReadInside DEF ParseOption
  <2>3. seen' \in Seq(Nat) /\ timestamp' \in SUBSET Nat
    BY <1>1, <1>4 DEF ParseOption, timestamp_after, TypeOK
  <2>4. QED
    BY <1>1, <1>4, <2>1, <2>2, <2>3
    DEF ParseOption, InParser, BoundInv, TypeOK, options_len
<1>5. CASE GenerateRefuses
  <2>1. reach' \in Nat /\ reach' <= options_len
    BY <1>1, <1>5, PeekInside DEF GenerateRefuses, InGenerator
  <2>2. verdict' \in {"malformed", "unknown"}
    BY <1>5, RoomLeft DEF GenerateRefuses, InGenerator, Refusal
  <2>3. ops' \in Seq(Nat)
    BY <1>5 DEF GenerateRefuses
  <2>4. QED
    BY <1>1, <1>5, <2>1, <2>2, <2>3
    DEF GenerateRefuses, InGenerator, BoundInv, TypeOK, options_len,
        OPTIONS_MAX_LENGTH
<1>6. CASE GenerateOption
  <2>1. i < options_len /\ ~OutOfShape(i)
    BY <1>6 DEF GenerateOption, InGenerator, Refusal, generate_malformed
  <2>2. /\ i' \in Nat /\ i' <= options_len /\ i' = i + parse_advance(i)
        /\ parse_advance(i) \in Nat
    BY <1>1, <1>6, <2>1, OptionFits DEF GenerateOption
  <2>3. reach' \in Nat /\ reach' <= options_len
    BY <1>1, <1>6, <2>2, ReadInside DEF GenerateOption
  <2>4. PICK w \in Written(byte(i)) : ops_index' = ops_index + w
    BY <1>6 DEF GenerateOption
  <2>5. w \in Nat /\ 4 * w <= 5 * parse_advance(i)
    BY <1>1, <1>6, <2>1, CostOfOption DEF GenerateOption
  <2>6. ops_index' \in 0 .. 50 /\ 4 * ops_index' <= 5 * i'
    BY <1>1, <2>2, <2>4, <2>5 DEF BoundInv
  <2>7. ops' \in Seq(Nat)
    BY <1>1, <1>6 DEF GenerateOption, TypeOK
  <2>8. QED
    BY <1>1, <1>6, <2>2, <2>3, <2>6, <2>7
    DEF GenerateOption, InGenerator, BoundInv, TypeOK, options_len,
        OPTIONS_MAX_LENGTH
<1>7. CASE GenerateEnd
  BY <1>1, <1>7 DEF GenerateEnd, BoundInv, TypeOK, options_len
<1>8. CASE UNCHANGED vars
  BY <1>8 DEF vars, BoundInv, TypeOK, options_len
<1>9. QED
  BY <1>2, <1>3, <1>4, <1>5, <1>6, <1>7, <1>8 DEF Next

(* Type correctness of the two walks, with the bounds it rests on.         *)
THEOREM WalkTypeCorrect == Spec => []TypeOK
<1>1. BoundInv => TypeOK
  BY DEF BoundInv
<1>2. QED
  BY <1>1, InitBound, StepBound, PTL DEF Spec

(* No byte behind the option field is read, by the parser or by            *)
(* generate_ops_string, for option bytes of any kind.                      *)
THEOREM NoReadBehindField == Spec => []ReadsInsideField
<1>1. BoundInv => ReadsInsideField
  BY DEF BoundInv, ReadsInsideField
<1>2. QED
  BY <1>1, InitBound, StepBound, PTL DEF Spec

(* The options string of 128 characters is never too short.                *)
THEOREM StringHasRoom == Spec => []StringNeverFills
<1>1. BoundInv => StringNeverFills
  BY DEF BoundInv, StringNeverFills
<1>2. QED
  BY <1>1, InitBound, StepBound, PTL DEF Spec
-----------------------------------------------------------------------------
(* The parser's path through the field: the options it passed, then the    *)
(* place where it is, or where it left its loop.                           *)

PathEnd == IF pc = "parse" THEN i ELSE stop

Position(n) == IF n <= Len(seen) THEN seen[n] ELSE PathEnd

PathInv ==
  /\ Position(1) = 0
  /\ \A n \in 1 .. Len(seen) :
       /\ seen[n] < options_len
       /\ ~OutOfShape(seen[n]) /\ byte(seen[n]) # TCPOPT_EOL
       /\ Position(n + 1) = seen[n] + parse_advance(seen[n])
  /\ pc # "parse" => byte(stop) = TCPOPT_EOL

(* What parsed_response.timestamp holds comes from the first of them.      *)
FirstOfPath(t) ==
  \E n \in 1 .. Len(seen) :
    /\ seen[n] = t
    /\ \A m \in 1 .. n - 1 : byte(seen[m]) # TCPOPT_TIMESTAMP

TimestampInv ==
  /\ timestamp = {} => \A n \in 1 .. Len(seen) : byte(seen[n]) # TCPOPT_TIMESTAMP
  /\ \A t \in timestamp : FirstOfPath(t)

(* The generator repeats the path, and is beyond it only when it is done.  *)
Repeats ==
  /\ \A n \in 1 .. Len(ops) : n <= Len(seen) => ops[n] = seen[n]
  /\ Len(ops) <= Len(seen) => i = Position(Len(ops) + 1)
  /\ Len(ops) > Len(seen)  => i > stop

WalkInv ==
  /\ BoundInv
  /\ verdict # "ignored" => PathInv /\ TimestampInv
  /\ pc = "generate" => Repeats
  /\ WalksAgree

LEMMA WalkTypes ==
  ASSUME BoundInv
  PROVE  /\ TypeOK /\ options_len \in Nat
         /\ i \in Nat /\ i <= options_len /\ stop \in Nat
         /\ seen \in Seq(Nat) /\ ops \in Seq(Nat)
         /\ Len(seen) \in Nat /\ Len(ops) \in Nat
BY LengthType DEF BoundInv, TypeOK

(* Nothing that follows the parser's loop touches what it has found.       *)
LEMMA PathKept ==
  ASSUME PathInv, TimestampInv, UNCHANGED <<options, seen, timestamp, stop>>,
         pc # "parse", pc' # "parse"
  PROVE  (PathInv /\ TimestampInv)'
BY DEF PathInv, TimestampInv, FirstOfPath, Position, PathEnd, OutOfShape, byte,
   options_len, parse_advance

LEMMA InitWalk == Init => WalkInv
<1> SUFFICES ASSUME Init PROVE WalkInv
  OBVIOUS
<1>1. /\ seen = <<>> /\ timestamp = {} /\ pc = "parse" /\ i = 0
      /\ verdict = "none"
  BY DEF Init
<1>2. PathInv /\ TimestampInv
  BY <1>1 DEF PathInv, TimestampInv, Position, PathEnd
<1>3. WalksAgree
  BY <1>1 DEF WalksAgree, RefusedForUnknownOrTail, SameOptionsSeen,
     FirstTimestampShown
<1>4. QED
  BY <1>1, <1>2, <1>3, InitBound DEF WalkInv

(* End of the parser's loop.                                               *)
LEMMA ParseEndWalk ==
  ASSUME WalkInv, ParseEnd
  PROVE  (PathInv /\ TimestampInv /\ Repeats)' /\ verdict' = "none"
<1>1. /\ pc = "parse" /\ pc' = "generate" /\ stop' = i /\ i' = 0
      /\ UNCHANGED <<options, timestamp, seen, ops, verdict>>
  BY DEF ParseEnd
<1>2. BoundInv /\ verdict = "none" /\ PathInv /\ TimestampInv /\ ops = <<>>
  BY <1>1 DEF WalkInv, BoundInv
<1>3. /\ PathEnd' = PathEnd /\ UNCHANGED options_len
      /\ Len(seen) \in Nat
  BY <1>1, <1>2, WalkTypes DEF PathEnd, options_len
<1>4. byte(stop)' = TCPOPT_EOL
  BY <1>1, <1>2, WalkTypes DEF ParseEnd, InParser, byte, options_len
<1>5. PathInv'
  BY <1>1, <1>2, <1>3, <1>4
  DEF PathInv, Position, OutOfShape, byte, parse_advance
<1>6. TimestampInv'
  BY <1>1, <1>2, <1>3 DEF TimestampInv, FirstOfPath, byte
<1>7. Repeats'
  BY <1>1, <1>2, <1>3, <1>5 DEF Repeats, PathInv
<1>8. QED
  BY <1>1, <1>2, <1>5, <1>6, <1>7

(* One option parsed: the path grows by it.                                *)
LEMMA ParseOptionWalk ==
  ASSUME WalkInv, ParseOption
  PROVE  (PathInv /\ TimestampInv)' /\ verdict' = "none" /\ pc' = "parse"
<1>1. /\ pc = "parse" /\ pc' = "parse" /\ i < options_len
      /\ byte(i) # TCPOPT_EOL /\ ~OutOfShape(i)
      /\ i' = i + parse_advance(i) /\ seen' = Append(seen, i)
      /\ timestamp' = timestamp_after(i)
      /\ UNCHANGED <<options, verdict>>
  BY DEF ParseOption, InParser, parse_malformed
<1>2. BoundInv /\ verdict = "none" /\ PathInv /\ TimestampInv
  BY <1>1 DEF WalkInv, BoundInv
<1>3. /\ Len(seen) \in Nat /\ Len(seen') = Len(seen) + 1
      /\ \A n \in 1 .. Len(seen) : seen'[n] = seen[n]
      /\ seen'[Len(seen) + 1] = i
  BY <1>1, <1>2, WalkTypes
<1>4. UNCHANGED options_len /\ \A n : byte(n)' = byte(n)
  BY <1>1 DEF byte, options_len
<1>5. \A n \in 1 .. Len(seen) + 1 : Position(n)' = Position(n)
  BY <1>1, <1>3 DEF Position, PathEnd
<1>6. \A n : n = Len(seen) + 2 => Position(n)' = i + parse_advance(i)
  BY <1>1, <1>3 DEF Position, PathEnd
<1>7. PathInv'
  <2>1. Position(1)' = 0
    BY <1>2, <1>3, <1>5 DEF PathInv
  <2>2. ASSUME NEW n \in 1 .. Len(seen')
        PROVE  /\ seen'[n] < options_len
               /\ ~OutOfShape(seen'[n]) /\ byte(seen'[n]) # TCPOPT_EOL
               /\ Position(n + 1)' = seen'[n] + parse_advance(seen'[n])
    <3>1. CASE n \in 1 .. Len(seen)
      BY <1>2, <1>3, <1>5, <3>1 DEF PathInv
    <3>2. CASE n = Len(seen) + 1
      BY <1>1, <1>3, <1>6, <3>2
    <3>3. QED
      BY <1>3, <3>1, <3>2
  <2>3. \A n : /\ OutOfShape(n)' <=> OutOfShape(n)
               /\ parse_advance(n)' = parse_advance(n)
    BY <1>4 DEF OutOfShape, parse_advance
  <2>4. QED
    BY <1>1, <1>4, <2>1, <2>2, <2>3 DEF PathInv
<1>8. TimestampInv'
  <2>1. CASE byte(i) = TCPOPT_TIMESTAMP /\ timestamp = {}
    <3>1. timestamp' = {i}
      BY <1>1, <2>1 DEF timestamp_after
    <3>2. \A m \in 1 .. Len(seen') - 1 : byte(seen[m])' # TCPOPT_TIMESTAMP
      BY <1>2, <1>3, <1>4, <2>1 DEF TimestampInv
    <3>3. \A t \in timestamp' : FirstOfPath(t)'
      BY <1>3, <3>1, <3>2 DEF FirstOfPath
    <3>4. QED
      BY <3>1, <3>3 DEF TimestampInv
  <2>2. CASE ~(byte(i) = TCPOPT_TIMESTAMP /\ timestamp = {})
    <3>1. timestamp' = timestamp
      BY <1>1, <2>2 DEF timestamp_after
    <3>2. ASSUME NEW t \in timestamp
          PROVE  FirstOfPath(t)'
      <4>1. PICK n \in 1 .. Len(seen) :
              /\ seen[n] = t
              /\ \A m \in 1 .. n - 1 : byte(seen[m]) # TCPOPT_TIMESTAMP
        BY <1>2, <3>2 DEF TimestampInv, FirstOfPath
      <4>2. n \in 1 .. Len(seen') /\ seen'[n] = t
        BY <1>3, <4>1
      <4>3. \A m \in 1 .. n - 1 : byte(seen[m])' # TCPOPT_TIMESTAMP
        BY <1>3, <1>4, <4>1
      <4>4. QED
        BY <4>2, <4>3 DEF FirstOfPath
    <3>3. timestamp = {} => \A n \in 1 .. Len(seen') :
                              byte(seen[n])' # TCPOPT_TIMESTAMP
      BY <1>2, <1>3, <1>4, <2>2 DEF TimestampInv
    <3>4. QED
      BY <3>1, <3>2, <3>3 DEF TimestampInv
  <2>3. QED
    BY <2>1, <2>2
<1>9. QED
  BY <1>1, <1>2, <1>7, <1>8

-----------------------------------------------------------------------------
(* Where the generator stands on the path, a refusal can only come from an *)
(* unknown kind; it lies behind end-of-list otherwise.                     *)
LEMMA StandsOnPath ==
  ASSUME WalkInv, pc = "generate", i <= stop
  PROVE  /\ Len(ops) <= Len(seen) /\ ~OutOfShape(i)
         /\ \/ Len(ops) = Len(seen) /\ i = stop /\ byte(i) = TCPOPT_EOL
            \/ /\ Len(ops) < Len(seen) /\ i = seen[Len(ops) + 1]
               /\ i < options_len
<1>1. BoundInv /\ verdict = "none" /\ PathInv /\ Repeats
  BY DEF WalkInv, BoundInv
<1>2. Len(seen) \in Nat /\ Len(ops) \in Nat /\ i \in Nat /\ stop \in Nat
  BY <1>1, WalkTypes
<1>3. Len(ops) <= Len(seen) /\ i = Position(Len(ops) + 1)
  BY <1>1, <1>2 DEF Repeats
<1>4. CASE Len(ops) = Len(seen)
  <2>1. i = stop /\ byte(i) = TCPOPT_EOL
    BY <1>1, <1>2, <1>3, <1>4 DEF Position, PathEnd, PathInv
  <2>2. QED
    BY <1>3, <1>4, <2>1 DEF OutOfShape
<1>5. CASE Len(ops) < Len(seen)
  <2>1. Len(ops) + 1 \in 1 .. Len(seen) /\ i = seen[Len(ops) + 1]
    BY <1>2, <1>3, <1>5 DEF Position
  <2>2. i < options_len /\ ~OutOfShape(i)
    BY <1>1, <2>1 DEF PathInv
  <2>3. QED
    BY <1>3, <1>5, <2>1, <2>2
<1>6. QED
  BY <1>2, <1>3, <1>4, <1>5

LEMMA RefusalWalk ==
  ASSUME WalkInv, GenerateRefuses
  PROVE  WalksAgree'
<1>1. /\ pc = "generate" /\ i < options_len
      /\ verdict' = Refusal(i) /\ Refusal(i) # "none"
      /\ UNCHANGED <<i, stop, seen>>
  BY DEF GenerateRefuses, InGenerator
<1>2. BoundInv
  BY DEF WalkInv
<1>3. i \in Nat /\ stop \in Nat /\ Len(seen) \in Nat /\ Len(ops) \in Nat
  BY <1>2, WalkTypes
<1>4. Refusal(i) \in {"malformed", "unknown", "full"}
  BY <1>1 DEF Refusal
<1>5. Refusal(i) = "malformed" => i > stop
  <2>1. Refusal(i) = "malformed" => OutOfShape(i)
    BY DEF Refusal, generate_malformed
  <2>2. QED
    BY <1>1, <1>3, <2>1, StandsOnPath
<1>6. Refusal(i) = "unknown" => i > stop \/ \E n \in DOMAIN seen : seen[n] = i
  <2>1. Refusal(i) = "unknown" => byte(i) \notin Single
    BY DEF Refusal
  <2>2. SUFFICES ASSUME Refusal(i) = "unknown", i <= stop
                 PROVE  \E n \in DOMAIN seen : seen[n] = i
    BY <1>3
  <2>3. Len(ops) < Len(seen) /\ i = seen[Len(ops) + 1]
    BY <1>1, <2>1, <2>2, StandsOnPath
  <2>4. DOMAIN seen = 1 .. Len(seen)
    BY <1>2, WalkTypes
  <2>5. QED
    BY <1>3, <2>3, <2>4
<1>7. QED
  BY <1>1, <1>4, <1>5, <1>6
  DEF WalksAgree, RefusedForUnknownOrTail, SameOptionsSeen, FirstTimestampShown

(* One item written: the generator has taken the parser's next option, or  *)
(* left the path at the end-of-list byte.                                  *)
LEMMA GenerateOptionWalk ==
  ASSUME WalkInv, GenerateOption
  PROVE  Repeats'
<1>1. /\ pc = "generate" /\ i < options_len /\ ~OutOfShape(i)
      /\ ops' = Append(ops, i) /\ i' = i + generate_advance(i)
      /\ pc' = pc /\ UNCHANGED <<options, stop, seen>>
  BY DEF GenerateOption, InGenerator, Refusal, generate_malformed
<1>2. BoundInv /\ verdict = "none" /\ PathInv /\ Repeats
  BY <1>1 DEF WalkInv, BoundInv
<1>3. /\ Len(seen) \in Nat /\ Len(ops) \in Nat /\ i \in Nat /\ stop \in Nat
      /\ Len(ops') = Len(ops) + 1
      /\ \A n \in 1 .. Len(ops) : ops'[n] = ops[n]
      /\ ops'[Len(ops) + 1] = i
  BY <1>1, <1>2, WalkTypes
<1>4. /\ parse_advance(i) \in Nat /\ parse_advance(i) >= 1
      /\ i' = i + parse_advance(i)
  BY <1>1, <1>2, <1>3, WalkTypes, OptionFits
<1>5. \A n : Position(n)' = Position(n)
  BY <1>1 DEF Position, PathEnd
<1>6. CASE Len(ops) > Len(seen)
  <2>1. i' > stop'
    BY <1>1, <1>2, <1>3, <1>4, <1>6 DEF Repeats
  <2>2. QED
    BY <1>1, <1>2, <1>3, <1>6, <2>1 DEF Repeats
<1>7. CASE Len(ops) <= Len(seen)
  <2>1. i = Position(Len(ops) + 1)
    BY <1>2, <1>7 DEF Repeats
  <2>2. CASE Len(ops) = Len(seen)
    <3>1. i = stop
      BY <1>1, <1>3, <2>1, <2>2 DEF Position, PathEnd
    <3>2. QED
      BY <1>1, <1>2, <1>3, <1>4, <2>2, <3>1 DEF Repeats
  <2>3. CASE Len(ops) < Len(seen)
    <3>1. Len(ops) + 1 \in 1 .. Len(seen) /\ i = seen[Len(ops) + 1]
      BY <1>3, <2>1, <2>3 DEF Position
    <3>2. Position(Len(ops) + 2) = i'
      BY <1>2, <1>3, <1>4, <3>1 DEF PathInv
    <3>3. \A n \in 1 .. Len(ops') : n <= Len(seen') => ops'[n] = seen'[n]
      BY <1>1, <1>2, <1>3, <3>1 DEF Repeats
    <3>4. QED
      BY <1>1, <1>3, <1>5, <2>3, <3>2, <3>3 DEF Repeats
  <2>4. QED
    BY <1>3, <1>7, <2>2, <2>3
<1>8. QED
  BY <1>3, <1>6, <1>7

(* The end of the field is the end of the path, or lies behind it.         *)
LEMMA GenerateEndWalk ==
  ASSUME WalkInv, GenerateEnd
  PROVE  WalksAgree'
<1>1. /\ pc = "generate" /\ i >= options_len /\ verdict' = "string"
      /\ UNCHANGED <<options, timestamp, seen, ops, stop>>
  BY DEF GenerateEnd
<1>2. BoundInv /\ verdict = "none" /\ PathInv /\ TimestampInv /\ Repeats
  BY <1>1 DEF WalkInv, BoundInv
<1>3. /\ Len(seen) \in Nat /\ Len(ops) \in Nat /\ i \in Nat /\ stop \in Nat
      /\ options_len \in Nat /\ seen \in Seq(Nat) /\ ops \in Seq(Nat)
  BY <1>2, WalkTypes
<1>4. Len(seen) <= Len(ops)
  <2>1. SUFFICES ASSUME Len(ops) < Len(seen) PROVE FALSE
    BY <1>3
  <2>2. i = seen[Len(ops) + 1] /\ Len(ops) + 1 \in 1 .. Len(seen)
    BY <1>2, <1>3, <2>1 DEF Repeats, Position
  <2>3. QED
    BY <1>1, <1>2, <1>3, <2>2 DEF PathInv
<1>5. \A n \in 1 .. Len(seen) : ops[n] = seen[n]
  BY <1>2, <1>3, <1>4 DEF Repeats
<1>6. SameOptionsSeen'
  <2>1. SubSeq(ops, 1, Len(seen)) = seen
    <3>1. /\ SubSeq(ops, 1, Len(seen)) \in Seq(Nat)
          /\ Len(SubSeq(ops, 1, Len(seen))) = Len(seen)
          /\ \A n \in 1 .. Len(seen) : SubSeq(ops, 1, Len(seen))[n] = ops[n]
      BY <1>3, <1>4
    <3>2. QED
      BY <1>3, <1>5, <3>1, SeqEqual
  <2>2. byte(stop) = TCPOPT_EOL
    BY <1>1, <1>2 DEF PathInv
  <2>3. byte(stop)' = byte(stop)
    BY <1>1 DEF byte, options_len
  <2>4. QED
    BY <1>1, <1>4, <2>1, <2>2, <2>3 DEF SameOptionsSeen
<1>7. FirstTimestampShown'
  <2>1. SUFFICES ASSUME NEW t \in timestamp
                 PROVE  \E n \in DOMAIN ops :
                          /\ ops[n] = t
                          /\ \A m \in 1 .. n - 1 : byte(ops[m]) # TCPOPT_TIMESTAMP
    BY <1>1 DEF FirstTimestampShown, byte, options_len
  <2>2. PICK n \in 1 .. Len(seen) :
          /\ seen[n] = t
          /\ \A m \in 1 .. n - 1 : byte(seen[m]) # TCPOPT_TIMESTAMP
    BY <1>2, <2>1 DEF TimestampInv, FirstOfPath
  <2>3. n \in DOMAIN ops /\ ops[n] = t
    BY <1>3, <1>4, <1>5, <2>2
  <2>4. \A m \in 1 .. n - 1 : byte(ops[m]) # TCPOPT_TIMESTAMP
    <3>1. \A m \in 1 .. n - 1 : ops[m] = seen[m]
      BY <1>3, <1>5, <2>2
    <3>2. QED
      BY <2>2, <3>1
  <2>5. QED
    BY <2>3, <2>4
<1>8. RefusedForUnknownOrTail'
  BY <1>1 DEF RefusedForUnknownOrTail
<1>9. QED
  BY <1>6, <1>7, <1>8 DEF WalksAgree

-----------------------------------------------------------------------------

(* While neither loop has finished there is nothing to disagree about.     *)
LEMMA NothingToCompare ==
  ASSUME verdict' \in {"none", "ignored"}
  PROVE  WalksAgree'
BY DEF WalksAgree, RefusedForUnknownOrTail, SameOptionsSeen, FirstTimestampShown

LEMMA StepWalk == WalkInv /\ [Next]_vars => WalkInv'
<1> SUFFICES ASSUME WalkInv, [Next]_vars PROVE WalkInv'
  OBVIOUS
<1>1. BoundInv /\ BoundInv'
  BY StepBound DEF WalkInv
<1>2. CASE ParseEnd
  BY <1>1, <1>2, ParseEndWalk, NothingToCompare DEF WalkInv
<1>3. CASE ParseMalformed
  <2>1. verdict' = "ignored" /\ pc' = "done"
    BY <1>3 DEF ParseMalformed
  <2>2. QED
    BY <1>1, <2>1, NothingToCompare DEF WalkInv
<1>4. CASE ParseOption
  BY <1>1, <1>4, ParseOptionWalk, NothingToCompare DEF WalkInv
<1>5. CASE GenerateRefuses
  <2>1. /\ pc = "generate" /\ pc' = "done"
        /\ UNCHANGED <<options, seen, timestamp, stop>>
    BY <1>5 DEF GenerateRefuses, InGenerator
  <2>2. PathInv /\ TimestampInv
    BY <1>1, <2>1 DEF WalkInv, BoundInv
  <2>3. QED
    BY <1>1, <1>5, <2>1, <2>2, PathKept, RefusalWalk DEF WalkInv
<1>6. CASE GenerateOption
  <2>1. /\ pc = "generate" /\ pc' = pc /\ verdict' = verdict
        /\ UNCHANGED <<options, seen, timestamp, stop>>
    BY <1>6 DEF GenerateOption, InGenerator
  <2>2. PathInv /\ TimestampInv /\ verdict' = "none"
    BY <1>1, <2>1 DEF WalkInv, BoundInv
  <2>3. QED
    BY <1>1, <1>6, <2>1, <2>2, PathKept, GenerateOptionWalk, NothingToCompare
    DEF WalkInv
<1>7. CASE GenerateEnd
  <2>1. /\ pc = "generate" /\ pc' = "done"
        /\ UNCHANGED <<options, seen, timestamp, stop>>
    BY <1>7 DEF GenerateEnd
  <2>2. PathInv /\ TimestampInv
    BY <1>1, <2>1 DEF WalkInv, BoundInv
  <2>3. QED
    BY <1>1, <1>7, <2>1, <2>2, PathKept, GenerateEndWalk DEF WalkInv
<1>8. CASE UNCHANGED vars
  <2>1. UNCHANGED <<PathInv, TimestampInv, Repeats, WalksAgree>>
    BY <1>8 DEF vars, PathInv, TimestampInv, FirstOfPath, Position, PathEnd,
       OutOfShape, byte, options_len, parse_advance, Repeats, WalksAgree,
       RefusedForUnknownOrTail, SameOptionsSeen, FirstTimestampShown
  <2>2. UNCHANGED <<pc, verdict>>
    BY <1>8 DEF vars
  <2>3. QED
    BY <1>1, <2>1, <2>2 DEF WalkInv
<1>9. QED
  BY <1>2, <1>3, <1>4, <1>5, <1>6, <1>7, <1>8 DEF Next

(* parse_tcp_response and generate_ops_string see the same option list: a  *)
(* reply that was accepted is refused only for an unknown kind or for      *)
(* bytes behind end-of-list, the string shows what was parsed, and both    *)
(* take the same timestamp.                                                *)
THEOREM OneOptionList == Spec => []WalksAgree
<1>1. WalkInv => WalksAgree
  BY DEF WalkInv
<1>2. QED
  BY <1>1, InitWalk, StepWalk, PTL DEF Spec
=============================================================================
