----------------------------- MODULE ScanProofs -----------------------------
(***************************************************************************)
(* The statements of Probes about attribution, for every configuration and *)
(* every reply: a reply answers at most one probe, the capture filter      *)
(* drops none of them, and an honest answer reaches its probe.  With them, *)
(* Scan is type correct, counts what it has recorded, keeps the first      *)
(* reply of every probe and releases what it acquired, for every set of    *)
(* configurations, of answering probes, of foreign packets, of heap        *)
(* addresses, and for every bound.                                         *)
(***************************************************************************)
EXTENDS Scan, MCProbes, FiniteSetTheorems, SequenceTheorems, TLAPS

-----------------------------------------------------------------------------
(* Attribution.                                                            *)

(* A 16-bit sum of an in-range value and a small offset wraps at most      *)
(* once: the addition of source_port and last_tcp_source_port.             *)
LEMMA WrapOnce ==
  ASSUME NEW a \in Int, a >= 0, a < 65536,
         NEW d \in Int, d >= 0, d < 16
  PROVE  (a + d) % UINT16 = IF a + d < 65536 THEN a + d ELSE a + d - 65536
BY DEF UINT16

(* Equal wrapped sums have equal offsets, and a range whose wrapped end is *)
(* not below its start did not wrap.                                       *)
LEMMA WrapInjective ==
  ASSUME NEW f \in Int, f >= 0, f < 65536,
         NEW a \in Int, a >= 0, a < 16, NEW b \in Int, b >= 0, b < 16
  PROVE  (f + a) % UINT16 = (f + b) % UINT16 => a = b
<1>1. (f + a) % UINT16 = IF f + a < 65536 THEN f + a ELSE f + a - 65536
  BY DEF UINT16
<1>2. (f + b) % UINT16 = IF f + b < 65536 THEN f + b ELSE f + b - 65536
  BY DEF UINT16
<1>3. QED
  BY <1>1, <1>2

LEMMA NoWrapInRange ==
  ASSUME NEW f \in Int, f >= 0, f < 65536, f <= (f + 12) % UINT16,
         NEW d \in Int, d >= 0, d <= 12
  PROVE  (f + d) % UINT16 \in f .. ((f + 12) % UINT16)
<1>1. /\ (f + 12) % UINT16 = IF f + 12 < 65536 THEN f + 12 ELSE f + 12 - 65536
      /\ (f + d) % UINT16 = IF f + d < 65536 THEN f + d ELSE f + d - 65536
  BY WrapOnce
<1>2. f + 12 < 65536
  BY <1>1
<1>3. /\ (f + 12) % UINT16 = f + 12
      /\ (f + d) % UINT16 = f + d
  BY <1>1, <1>2
<1>4. QED
  BY <1>3

(* The first port of a configuration as plain bounds, the form the         *)
(* arithmetic above uses.                                                  *)
LEMMA FirstPort ==
  ASSUME NEW conf \in Config
  PROVE  conf.first \in Int /\ conf.first >= 0 /\ conf.first < 65536
<1>1. conf.first \in 0 .. UINT16 - 1
  BY DEF Config
<1>2. ASSUME NEW f \in 0 .. UINT16 - 1
      PROVE  f \in Int /\ f >= 0 /\ f < 65536
  BY DEF UINT16
<1>3. QED
  BY <1>1, <1>2

(* Offsets of port_offset stay in the 14 ports from first_source_port, and *)
(* two probes that use ports never share one.                              *)
LEMMA OffsetsDiffer ==
  ASSUME NEW p \in Probe \ IcmpProbe, NEW q \in Probe \ IcmpProbe
  PROVE  /\ port_offset(p) \in 0 .. 13
         /\ port_offset(p) = port_offset(q) => p = q
         /\ p # U1 => port_offset(p) \in 0 .. 12
BY DEF Probe, IcmpProbe, port_offset, SeqProbe, TProbe,
       SEQ1, SEQ6, ECN, IE1, IE2, T2, T7, U1

(* Two probes that use ports have different source ports, also when the    *)
(* 16-bit addition wraps.                                                  *)
LEMMA SourcePortsDiffer ==
  ASSUME NEW conf \in Config,
         NEW p \in Probe \ IcmpProbe, NEW q \in Probe \ IcmpProbe,
         source_port(conf, p) = source_port(conf, q)
  PROVE  p = q
<1>1. conf.first \in Int /\ conf.first >= 0 /\ conf.first < 65536
  BY FirstPort
<1>2. /\ port_offset(p) \in Int /\ port_offset(p) >= 0 /\ port_offset(p) < 16
      /\ port_offset(q) \in Int /\ port_offset(q) >= 0 /\ port_offset(q) < 16
  BY OffsetsDiffer
<1>3. (conf.first + port_offset(p)) % UINT16 = (conf.first + port_offset(q)) % UINT16
  BY DEF source_port
<1>4. port_offset(p) = port_offset(q)
  BY <1>1, <1>2, <1>3, WrapInjective
<1>5. QED
  BY <1>4, OffsetsDiffer

(* The two echo requests differ in their sequence number.                  *)
LEMMA EchoSequencesDiffer ==
  ASSUME NEW p \in IcmpProbe, NEW q \in IcmpProbe,
         icmp_sequence(p) = icmp_sequence(q)
  PROVE  p = q
BY DEF IcmpProbe, icmp_sequence, IE1, IE2

(* Every probe is of exactly one of the three types.                       *)
LEMMA TypesPartition ==
  ASSUME NEW p \in Probe
  PROVE  /\ probe_type(p) = "TCP" <=> p \in TcpProbe
         /\ probe_type(p) = "ICMP" <=> p \in IcmpProbe
         /\ probe_type(p) = "UDP" <=> p = U1
         /\ p \in TcpProbe => p \in Probe \ IcmpProbe /\ p # U1
         /\ U1 \in Probe \ IcmpProbe
BY DEF probe_type, TcpProbe, IcmpProbe, SeqProbe, TProbe, Probe,
       SEQ1, SEQ6, ECN, IE1, IE2, T2, T7, U1

(* No reply matches two probes, whatever its header says and whatever the  *)
(* configuration: match_probe_responses may try the slots in any order     *)
(* (src/src/probe_matcher.c:121-137).                                      *)
THEOREM UniqueMatch ==
  ASSUME NEW conf \in Config, NEW r
  PROVE  AtMostOneProbe(conf, r)
<1> SUFFICES ASSUME NEW p \in Probe, NEW q \in Probe,
                    response_matches_probe(conf, p, r),
                    response_matches_probe(conf, q, r)
             PROVE  p = q
  BY DEF AtMostOneProbe
<1>1. CASE probe_type(p) = "TCP"
  <2>1. probe_type(q) = "TCP" /\ source_port(conf, p) = source_port(conf, q)
    BY <1>1 DEF response_matches_probe
  <2>2. p \in Probe \ IcmpProbe /\ q \in Probe \ IcmpProbe
    BY <1>1, <2>1, TypesPartition
  <2>3. QED
    BY <2>1, <2>2, SourcePortsDiffer
<1>2. CASE probe_type(p) = "ICMP"
  <2>1. r.proto = "ICMP" /\ r.type = ICMP_ECHOREPLY
    BY <1>2 DEF response_matches_probe
  <2>2. probe_type(q) = "ICMP" /\ icmp_sequence(p) = icmp_sequence(q)
    BY <1>2, <2>1
    DEF response_matches_probe, ICMP_ECHOREPLY, ICMP_DEST_UNREACH
  <2>3. p \in IcmpProbe /\ q \in IcmpProbe
    BY <1>2, <2>2, TypesPartition
  <2>4. QED
    BY <2>2, <2>3, EchoSequencesDiffer
<1>3. CASE probe_type(p) = "UDP"
  <2>1. r.proto = "ICMP" /\ r.type = ICMP_DEST_UNREACH
    BY <1>3 DEF response_matches_probe
  <2>2. probe_type(q) = "UDP"
    BY <2>1 DEF response_matches_probe, ICMP_ECHOREPLY, ICMP_DEST_UNREACH
  <2>3. QED
    BY <1>3, <2>2, TypesPartition
<1>4. QED
  BY <1>1, <1>2, <1>3 DEF response_matches_probe

(* The filter of network_init keeps every reply the matcher accepts, for   *)
(* every port range network_init does not refuse                           *)
(* (src/src/network.c:132-137,168-177 and src/src/scan.c:199-203).         *)
THEOREM FilterSound ==
  ASSUME NEW conf \in Config, NEW r, network_init_accepts(conf)
  PROVE  FilterKeepsReplies(conf, r)
<1> SUFFICES ASSUME NEW p \in Probe, response_matches_probe(conf, p, r)
             PROVE  captures(conf, r)
  BY DEF FilterKeepsReplies
<1>1. CASE probe_type(p) = "TCP"
  <2>1. p \in Probe \ IcmpProbe /\ p # U1
    BY <1>1, TypesPartition
  <2>2. /\ port_offset(p) \in Int
        /\ port_offset(p) >= 0 /\ port_offset(p) <= 12
    BY <2>1, OffsetsDiffer
  <2>3. conf.first \in Int /\ conf.first >= 0 /\ conf.first < 65536
    BY FirstPort
  <2>4. conf.first <= (conf.first + 12) % UINT16
    BY DEF network_init_accepts, last_tcp_source_port
  <2>5. (conf.first + port_offset(p)) % UINT16
          \in conf.first .. ((conf.first + 12) % UINT16)
    BY <2>2, <2>3, <2>4, NoWrapInRange
  <2>6. source_port(conf, p) \in conf.first .. last_tcp_source_port(conf)
    BY <2>5 DEF source_port, last_tcp_source_port
  <2>7. QED
    BY <1>1, <2>6 DEF response_matches_probe, captures
<1>2. CASE probe_type(p) # "TCP"
  BY <1>2 DEF response_matches_probe, captures
<1>3. QED
  BY <1>1, <1>2

(* The honest answer to the packet really sent is attributed to the probe  *)
(* it was built from (src/src/packet.c, src/src/probe_matcher.c:50-104).   *)
THEOREM HonestReplyMatches ==
  ASSUME NEW conf \in Config
  PROVE  ReplyReachesItsProbe(conf)
<1> SUFFICES ASSUME NEW p \in Probe
             PROVE  response_matches_probe(conf, p, reply_to(packet(conf, p)))
  BY DEF ReplyReachesItsProbe
<1>1. CASE probe_type(p) = "TCP"
  BY <1>1 DEF packet, construct_TCP_packet, reply_to, response_matches_probe
<1>2. CASE probe_type(p) = "ICMP"
  BY <1>2 DEF packet, construct_ICMP_packet, reply_to,
              response_matches_probe
<1>3. CASE probe_type(p) = "UDP"
  <2>1. p = U1
    BY <1>3, TypesPartition
  <2>2. matches_quoted_udp(conf, quote_of(construct_UDP_packet(conf, U1)))
    BY DEF matches_quoted_udp, quote_of, construct_UDP_packet
  <2>3. packet(conf, p) = construct_UDP_packet(conf, U1)
    BY <1>3, <2>1 DEF packet
  <2>4. reply_to(packet(conf, p)) =
          [proto |-> "ICMP", src |-> TARGET_IP, dst |-> SOURCE_IP,
           type |-> ICMP_DEST_UNREACH, code |-> ICMP_PORT_UNREACH,
           quoted |-> quote_of(construct_UDP_packet(conf, U1))]
    BY <2>3 DEF reply_to, construct_UDP_packet
  <2>5. QED
    BY <1>3, <2>2, <2>4 DEF response_matches_probe
<1>4. QED
  BY <1>1, <1>2, <1>3 DEF probe_type

-----------------------------------------------------------------------------
(* The same in the behaviours of MCProbes: whatever reply arrives at a     *)
(* scan, it answers one probe at most, the capture filter has let it       *)
(* through, and the answers of an honest host find their probes.           *)

LEMMA ConfigsInRange == ScanConfigs \subseteq Config
<1>1. 80 \in 1 .. UINT16 - 1 /\ 81 \in 1 .. UINT16 - 1
      /\ 1003 \in 1 .. UINT16 - 1 /\ 1012 \in 1 .. UINT16 - 1
  BY DEF UINT16
<1>2. \A t \in TargetPorts : t[1] \in 1 .. UINT16 - 1 /\ t[2] \in 1 .. UINT16 - 1
  BY <1>1 DEF TargetPorts
<1>3. ASSUME NEW f \in FirstPorts, NEW t \in TargetPorts, NEW i \in Identifiers
      PROVE  [first |-> f, open |-> t[1], closed |-> t[2], ident |-> i] \in Config
  <2>1. f \in 0 .. UINT16 - 1 /\ i \in 0 .. UINT16 - 1
    BY PortAssumption, IdentifierAssumption
  <2>2. QED
    BY <1>2, <2>1 DEF Config
<1>4. QED
  BY <1>3 DEF ScanConfigs

LEMMA ConfigKept == SpecReply => [](scan_config \in Config)
<1>1. InitReply => scan_config \in Config
  BY ConfigsInRange DEF InitReply
<1>2. scan_config \in Config /\ [NextReply]_reply_vars => (scan_config \in Config)'
  BY DEF NextReply, Receive, reply_vars
<1>3. QED
  BY <1>1, <1>2, PTL DEF SpecReply

(* In which order match_probe_responses tries the slots of the table makes *)
(* no difference (src/src/probe_matcher.c:121-137).                        *)
THEOREM ReplyAnswersOneProbe == SpecReply => []OneProbePerReply
<1>1. scan_config \in Config => OneProbePerReply
  BY UniqueMatch DEF OneProbePerReply
<1>2. QED
  BY <1>1, ConfigKept, PTL

(* The range of ports network_init accepts is one the filter covers        *)
(* (src/src/network.c:132-137,168-177).                                    *)
THEOREM FilterDropsNoReply == SpecReply => []FilterKeepsAllReplies
<1>1. scan_config \in Config => FilterKeepsAllReplies
  BY FilterSound DEF FilterKeepsAllReplies
<1>2. QED
  BY <1>1, ConfigKept, PTL

(* What construct_*_packet writes and response_matches_probe reads agree,  *)
(* also for ports and identifiers that wrap (src/src/packet.c,             *)
(* src/src/probe_matcher.c:50-104).                                        *)
THEOREM AnswersFindTheirProbes == SpecReply => []RepliesReachTheirProbes
<1>1. scan_config \in Config => RepliesReachTheirProbes
  BY HonestReplyMatches DEF RepliesReachTheirProbes
<1>2. QED
  BY <1>1, ConfigKept, PTL

-----------------------------------------------------------------------------
(* The scan.                                                               *)

(* send_probes visits every probe, each at one place of its order.         *)
LEMMA SendOrderFacts ==
  /\ \A j \in 1 .. SendCount : SendOrder[j] \in Probe
  /\ \A i, j \in 1 .. SendCount : SendOrder[i] = SendOrder[j] => i = j
  /\ \A p \in Probe : \E j \in 1 .. SendCount : SendOrder[j] = p
<1>1. \A j \in 1 .. SendCount :
        SendOrder[j] = IF j = 7 THEN 7 ELSE IF j = 8 THEN 8
                       ELSE IF j = 9 THEN 6 ELSE j - 1
  BY DEF SendOrder, SendCount, IE1, IE2, ECN
<1>2. Probe = 0 .. 15
  BY DEF Probe, SEQ1, U1
<1>3. \A j \in 1 .. SendCount : SendOrder[j] \in Probe
  BY <1>1, <1>2 DEF SendCount
<1>4. \A i, j \in 1 .. SendCount : SendOrder[i] = SendOrder[j] => i = j
  BY <1>1 DEF SendCount
<1>5. ASSUME NEW p \in Probe
      PROVE  \E j \in 1 .. SendCount : SendOrder[j] = p
  <2>1. CASE p = 6
    <3>1. 9 \in 1 .. SendCount /\ SendOrder[9] = p
      BY <1>1, <2>1 DEF SendCount
    <3>2. QED
      BY <3>1
  <2>2. CASE p \in {7, 8}
    <3>1. p \in 1 .. SendCount /\ SendOrder[p] = p
      BY <1>1, <2>2 DEF SendCount
    <3>2. QED
      BY <3>1
  <2>3. CASE p \notin {6, 7, 8}
    <3>1. p + 1 \in 1 .. SendCount /\ SendOrder[p + 1] = p
      BY <1>1, <1>2, <2>3 DEF SendCount
    <3>2. QED
      BY <3>1
  <2>4. QED
    BY <2>1, <2>2, <2>3
<1>6. QED
  BY <1>3, <1>4, <1>5

LEMMA ProbeFinite == IsFiniteSet(Probe)
<1>1. Probe = 0 .. 15 /\ 0 \in Int /\ 15 \in Int
  BY DEF Probe, SEQ1, U1
<1>2. QED
  BY <1>1, FS_Interval

(* When send_probes has returned successfully every probe awaits a reply.  *)
LEMMA AllPending ==
  ASSUME SendProgress, pc = "collect"
  PROVE  Pending = Probe /\ \A p \in Probe : status[p] = "NO_RESPONSE"
<1>1. \A j \in 1 .. SendCount : status[SendOrder[j]] = "NO_RESPONSE"
  BY DEF SendProgress, BeforeCollect, SendCount
<1>2. QED
  BY <1>1, SendOrderFacts DEF Pending

-----------------------------------------------------------------------------
(* Type correctness, together with the progress of send_probes.            *)

LEMMA TypeInit == Init => TypeOK /\ SendProgress
<1> SUFFICES ASSUME Init PROVE TypeOK /\ SendProgress
  OBVIOUS
<1>1. TypeOK
  <2>1. capture \in Seq(CapturedPacket)
    BY EmptySeq DEF Init
  <2>2. replies \in 0 .. MaxReplies /\ sent \in 0 .. SendCount
    BY ScanAssumption DEF Init, SendCount
  <2>3. QED
    BY <2>1, <2>2 DEF Init, TypeOK, Steps
<1>2. SendProgress
  BY SendOrderFacts DEF Init, SendProgress, SendCount, Collecting
<1>3. QED
  BY <1>1, <1>2

(* The packets outside the program and the shape of the prepared blocks.   *)
LEMMA BlocksTyped ==
  /\ \A p \in Probe : PacketBlock(p) \in Block
  /\ \A p \in IcmpProbe : PayloadBlock(p) \in Block
  /\ \A b \in Buffer : ReplyBlock(b) \in Block
BY DEF Block, PacketBlock, PayloadBlock, ReplyBlock

LEMMA NetworkType ==
  TypeOK /\ SendProgress /\ OpenNetwork => TypeOK' /\ SendProgress'
<1> SUFFICES ASSUME TypeOK, SendProgress, OpenNetwork
             PROVE  TypeOK' /\ SendProgress'
  OBVIOUS
<1> USE DEF NetworkUnchanged, NetworkFails, network, packets, results, collect,
            outside
<1>1. CASE RefuseRange
  BY <1>1 DEF RefuseRange, TypeOK, SendProgress, Steps, NetworkSteps,
              PrepareSteps, BeforeCollect, Collecting, Ended
<1>2. CASE OpenSocket
  BY <1>2 DEF OpenSocket, TypeOK, SendProgress, Steps, NetworkSteps,
              PrepareSteps, BeforeCollect, Collecting, Ended
<1>3. CASE SetHeaderIncluded
  BY <1>3 DEF SetHeaderIncluded, TypeOK, SendProgress, Steps, NetworkSteps,
              PrepareSteps, BeforeCollect, Collecting, Ended
<1>4. CASE OpenCapture
  BY <1>4 DEF OpenCapture, TypeOK, SendProgress, Steps, NetworkSteps,
              PrepareSteps, BeforeCollect, Collecting, Ended
<1>5. CASE ConfigureCapture
  BY <1>5 DEF ConfigureCapture, TypeOK, SendProgress, Steps, NetworkSteps,
              PrepareSteps, BeforeCollect, Collecting, Ended
<1>6. QED
  BY <1>1, <1>2, <1>3, <1>4, <1>5 DEF OpenNetwork

(* A step that leaves sent and status alone, does not enter the sending or *)
(* the collecting phase from outside, and moves on within its phase.       *)
LEMMA PrepareType ==
  TypeOK /\ SendProgress /\ PrepareProbes => TypeOK' /\ SendProgress'
<1> SUFFICES ASSUME TypeOK, SendProgress, PrepareProbes
             PROVE  TypeOK' /\ SendProgress'
  OBVIOUS
<1> USE BlocksTyped
    DEF PrepareUnchanged, network, packets, results, collect, outside
<1>0. ASSUME NEW S \in SUBSET Probe, NEW New \in SUBSET Block, Build(S, New)
      PROVE  data' \in [Probe -> Block \cup {NULL}] /\ heap' \subseteq Block
  BY <1>0 DEF Build, TypeOK
<1>a. SeqProbe \subseteq Probe /\ TProbe \subseteq Probe /\ IcmpProbe \subseteq Probe
      /\ ECN \in Probe /\ U1 \in Probe
  BY DEF SeqProbe, TProbe, IcmpProbe, Probe, SEQ1, SEQ6, ECN, IE1, IE2, T2, T7, U1
<1>1. CASE PrepareSequence
  <2>1. data' \in [Probe -> Block \cup {NULL}] /\ heap' \subseteq Block
        /\ payload' = payload
    BY <1>0, <1>1, <1>a DEF PrepareSequence, Exit, TypeOK
  <2>2. QED
    BY <1>1, <2>1 DEF PrepareSequence, Exit, TypeOK, SendProgress, Steps,
         NetworkSteps, PrepareSteps, BeforeCollect, Collecting, Ended
<1>2. CASE PrepareIE
  <2>1. /\ data' \in [Probe -> Block \cup {NULL}] /\ heap' \subseteq Block
        /\ payload' \in [IcmpProbe -> Block \cup {NULL}]
    <3>1. CASE UNCHANGED <<packets, heap>>
      BY <3>1 DEF TypeOK
    <3>2. CASE ~UNCHANGED <<packets, heap>>
      <4>1. PICK built \in {{}, {IE1}, {IE1, IE2}} :
              Build(built, {PayloadBlock(p) : p \in IcmpProbe})
        BY <1>2, <3>2 DEF PrepareIE
      <4>2. payload' = [p \in IcmpProbe |-> PayloadBlock(p)]
        BY <1>2, <3>2 DEF PrepareIE
      <4>3. built \in SUBSET Probe
        BY <1>a DEF IcmpProbe
      <4>4. {PayloadBlock(p) : p \in IcmpProbe} \in SUBSET Block
        OBVIOUS
      <4>5. QED
        BY <1>0, <4>1, <4>2, <4>3, <4>4
    <3>3. QED
      BY <3>1, <3>2
  <2>2. pc' \in {"prepare_ecn", "cleanup", "exit_in_spec"}
    BY <1>2 DEF PrepareIE
  <2>3. QED
    BY <1>2, <2>1, <2>2 DEF PrepareIE, TypeOK, SendProgress, Steps,
         NetworkSteps, PrepareSteps, BeforeCollect, Collecting, Ended
<1>3. CASE PrepareECN
  <2>1. data' \in [Probe -> Block \cup {NULL}] /\ heap' \subseteq Block
        /\ payload' = payload
    BY <1>0, <1>3, <1>a DEF PrepareECN, TypeOK
  <2>2. QED
    BY <1>3, <2>1 DEF PrepareECN, TypeOK, SendProgress, Steps,
         NetworkSteps, PrepareSteps, BeforeCollect, Collecting, Ended
<1>4. CASE PrepareT
  <2>1. data' \in [Probe -> Block \cup {NULL}] /\ heap' \subseteq Block
        /\ payload' = payload
    BY <1>0, <1>4, <1>a DEF PrepareT, Exit, TypeOK
  <2>2. QED
    BY <1>4, <2>1 DEF PrepareT, Exit, TypeOK, SendProgress, Steps,
         NetworkSteps, PrepareSteps, BeforeCollect, Collecting, Ended
<1>5. CASE PrepareU1
  <2>1. data' \in [Probe -> Block \cup {NULL}] /\ heap' \subseteq Block
        /\ payload' = payload
    BY <1>0, <1>5, <1>a DEF PrepareU1, TypeOK
  <2>2. sent = 0 /\ 0 < SendCount
    BY <1>5 DEF PrepareU1, SendProgress, PrepareSteps, SendCount
  <2>3. QED
    BY <1>5, <2>1, <2>2 DEF PrepareU1, TypeOK, SendProgress, Steps,
         NetworkSteps, PrepareSteps, BeforeCollect, Collecting, Ended
<1>6. QED
  BY <1>1, <1>2, <1>3, <1>4, <1>5 DEF PrepareProbes

LEMMA SendType ==
  TypeOK /\ SendProgress /\ SendProbes => TypeOK' /\ SendProgress'
<1> SUFFICES ASSUME TypeOK, SendProgress, SendProbes
             PROVE  TypeOK' /\ SendProgress'
  OBVIOUS
<1> USE DEF SendUnchanged, network, packets, collect, outside
<1>a. pc = "send"
  BY DEF SendProbes, SendProbe, SendFails
<1>b. sent \in 0 .. SendCount /\ sent < SendCount
  BY <1>a DEF TypeOK
<1>c. sent + 1 \in 1 .. SendCount
  BY <1>b DEF SendCount
<1>0. /\ pc = "send" /\ sent \in 0 .. SendCount /\ sent < SendCount
      /\ sent + 1 \in 1 .. SendCount /\ ProbeToSend \in Probe
  BY <1>a, <1>b, <1>c, SendOrderFacts DEF ProbeToSend
<1>1. CASE SendProbe
  <2>1. /\ sent' \in 0 .. SendCount
        /\ pc' \in {"send", "collect"}
        /\ pc' = "send" => sent' < SendCount
        /\ pc' = "collect" => sent' = SendCount
    BY <1>0, <1>1 DEF SendProbe, SendCount
  <2>2. /\ status' \in [Probe -> {"NOT_SENT", "NO_RESPONSE", "RECEIVED"}]
        /\ sent_at' \in [Probe -> Nat]
    BY <1>0, <1>1 DEF SendProbe, TypeOK
  <2>3. TypeOK'
    BY <1>1, <2>1, <2>2 DEF SendProbe, TypeOK, Steps
  <2>4. ASSUME NEW j \in 1 .. SendCount
        PROVE  status'[SendOrder[j]] =
                 IF j <= sent' THEN "NO_RESPONSE" ELSE "NOT_SENT"
    <3>1. status[SendOrder[j]] = IF j <= sent THEN "NO_RESPONSE" ELSE "NOT_SENT"
      BY <1>0 DEF SendProgress, BeforeCollect
    <3>2. SendOrder[j] \in Probe /\ (SendOrder[j] = ProbeToSend <=> j = sent + 1)
      BY <1>0, SendOrderFacts DEF ProbeToSend
    <3>3. /\ sent' = sent + 1
          /\ status'[SendOrder[j]] = IF j = sent + 1 THEN "NO_RESPONSE"
                                     ELSE status[SendOrder[j]]
      BY <1>1, <3>2 DEF SendProbe, TypeOK
    <3>4. QED
      BY <1>0, <3>1, <3>3
  <2>5. SendProgress'
    BY <2>1, <2>4 DEF SendProgress, NetworkSteps, PrepareSteps, Collecting
  <2>6. QED
    BY <2>3, <2>5
<1>2. CASE SendFails
  <2>1. sent_at' \in [Probe -> Nat]
    BY <1>0, <1>2 DEF SendFails, TypeOK
  <2>2. QED
    BY <1>2, <2>1 DEF SendFails, TypeOK, SendProgress, Steps, NetworkSteps,
         PrepareSteps, BeforeCollect, Collecting, Ended
<1>3. QED
  BY <1>1, <1>2 DEF SendProbes

(* Candidates are pending, and the one recorded is a probe.                *)
LEMMA CandidatesPending ==
  /\ Candidates \subseteq Pending
  /\ Pending \subseteq Probe
BY DEF Candidates, Pending

LEMMA RememberType ==
  ASSUME TypeOK, response \in Response, RememberFirst
  PROVE  first_match' \in [Probe -> Response \cup {NULL}]
BY DEF TypeOK, RememberFirst

(* A capture buffer that is not empty holds a captured packet in front.    *)
LEMMA CaptureType ==
  ASSUME TypeOK, capture # <<>>
  PROVE  Head(capture) \in CapturedPacket /\ Tail(capture) \in Seq(CapturedPacket)
<1>1. capture \in Seq(CapturedPacket)
  BY DEF TypeOK
<1>2. QED
  BY <1>1, HeadTailProperties

(* The block of a parsed reply is one that was free.                       *)
LEMMA NewReplyBlock ==
  ReceiveParsed =>
    \/ response' = Parsed(Head(capture), NULL) /\ UNCHANGED heap
    \/ \E b \in Buffer : /\ ReplyBlock(b) \notin heap
                         /\ response' = Parsed(Head(capture), ReplyBlock(b))
                         /\ heap' = heap \cup {ReplyBlock(b)}
BY DEF ReceiveParsed

LEMMA CollectType ==
  TypeOK /\ SendProgress /\ CollectResponses => TypeOK' /\ SendProgress'
<1> SUFFICES ASSUME TypeOK, SendProgress, CollectResponses
             PROVE  TypeOK' /\ SendProgress'
  OBVIOUS
<1> USE DEF CollectUnchanged, network, packets
<1>1. CASE CollectStart
  <2>1. \A p \in Probe : status[p] = "NO_RESPONSE"
    BY <1>1, AllPending DEF CollectStart
  <2>2. Cardinality(Pending) \in Nat
    BY ProbeFinite, CandidatesPending, FS_Subset, FS_CardinalityType
  <2>3. CASE pc' = "loop"
    <3>1. TypeOK'
      BY <1>1, <2>2, <2>3 DEF CollectStart, TypeOK, collect, Collecting
    <3>2. QED
      BY <1>1, <2>1, <2>3, <3>1 DEF CollectStart, SendProgress, NetworkSteps,
           PrepareSteps, BeforeCollect
  <2>4. CASE pc' = "cleanup"
    BY <1>1, <2>2, <2>4 DEF CollectStart, TypeOK, SendProgress, collect, Steps,
         NetworkSteps, PrepareSteps, BeforeCollect, Collecting
  <2>5. QED
    BY <1>1, <2>3, <2>4 DEF CollectStart
<1>2. CASE CollectCheck
  <2>1. pc' \in {"fingerprint", "receive"}
    BY <1>2 DEF CollectCheck
  <2>2. QED
    BY <1>2, <2>1 DEF CollectCheck, TypeOK, SendProgress, collect, Steps,
         NetworkSteps, PrepareSteps, BeforeCollect, Collecting
<1>3. CASE CollectClockFails
  BY <1>3 DEF CollectClockFails, TypeOK, SendProgress, collect, Steps,
       NetworkSteps, PrepareSteps, BeforeCollect, Collecting
<1>4. CASE ReceiveNothing
  BY <1>4 DEF ReceiveNothing, TypeOK, SendProgress, collect, Steps,
       NetworkSteps, PrepareSteps, BeforeCollect, Collecting
<1>5. CASE ReceiveIgnored
  <2>1. capture' \in Seq(CapturedPacket)
    BY <1>5, CaptureType DEF ReceiveIgnored
  <2>2. QED
    BY <1>5, <2>1 DEF ReceiveIgnored, TypeOK, SendProgress, collect, Steps,
         NetworkSteps, PrepareSteps, BeforeCollect, Collecting
<1>6. CASE ReceiveFails
  BY <1>6 DEF ReceiveFails, TypeOK, SendProgress, collect, Steps,
       NetworkSteps, PrepareSteps, BeforeCollect, Collecting
<1>7. CASE ReceiveParsed
  <2>1. Head(capture) \in CapturedPacket /\ capture' \in Seq(CapturedPacket)
    BY <1>7, CaptureType DEF ReceiveParsed
  <2>2. response' \in Response /\ heap' \subseteq Block
    <3>1. CASE response' = Parsed(Head(capture), NULL) /\ UNCHANGED heap
      BY <2>1, <3>1 DEF Parsed, CapturedPacket, Response, TypeOK
    <3>2. CASE \E b \in Buffer :
                 /\ ReplyBlock(b) \notin heap
                 /\ response' = Parsed(Head(capture), ReplyBlock(b))
                 /\ heap' = heap \cup {ReplyBlock(b)}
      <4>1. PICK b \in Buffer :
              /\ response' = Parsed(Head(capture), ReplyBlock(b))
              /\ heap' = heap \cup {ReplyBlock(b)}
        BY <3>2
      <4>2. ReplyBlock(b) \in Block /\ ReplyBlock(b) \in {"reply"} \X Buffer
        BY BlocksTyped DEF ReplyBlock
      <4>3. QED
        BY <2>1, <4>1, <4>2 DEF Parsed, CapturedPacket, Response, TypeOK
    <3>3. QED
      BY <1>7, <3>1, <3>2, NewReplyBlock
  <2>3. response' # NULL
    BY <2>2, NullAssumption
  <2>4. QED
    BY <1>7, <2>1, <2>2, <2>3 DEF ReceiveParsed, TypeOK, SendProgress, collect,
         Steps, NetworkSteps, PrepareSteps, BeforeCollect, Collecting
<1>8. CASE RecordReply
  <2>1. pc = "match" /\ response \in Response
    BY <1>8 DEF RecordReply, TypeOK
  <2>2. /\ status' \in [Probe -> {"NOT_SENT", "NO_RESPONSE", "RECEIVED"}]
        /\ parsed' \in [Probe -> Response \cup {NULL}]
        /\ \A p \in Probe : status[p] # "NOT_SENT" => status'[p] # "NOT_SENT"
    BY <1>8, <2>1, CandidatesPending DEF RecordReply, TypeOK
  <2>3. first_match' \in [Probe -> Response \cup {NULL}]
    BY <1>8, <2>1, RememberType DEF RecordReply
  <2>4. matched_count' \in Nat
    BY <1>8 DEF RecordReply, TypeOK
  <2>5. QED
    BY <1>8, <2>1, <2>2, <2>3, <2>4 DEF RecordReply, TypeOK, SendProgress,
         NetworkSteps, PrepareSteps, BeforeCollect, Collecting
<1>9. CASE DiscardReply
  <2>1. pc = "match" /\ response \in Response
    BY <1>9 DEF DiscardReply, TypeOK
  <2>2. first_match' \in [Probe -> Response \cup {NULL}]
    BY <1>9, <2>1, RememberType DEF DiscardReply
  <2>3. QED
    BY <1>9, <2>1, <2>2 DEF DiscardReply, TypeOK, SendProgress, collect,
         NetworkSteps, PrepareSteps, BeforeCollect, Collecting
<1>10. QED
  BY <1>1, <1>2, <1>3, <1>4, <1>5, <1>6, <1>7, <1>8, <1>9 DEF CollectResponses

LEMMA EndType ==
  TypeOK /\ SendProgress /\ (GenerateAndMatch \/ Cleanup \/ Terminated)
    => TypeOK' /\ SendProgress'
<1> SUFFICES ASSUME TypeOK, SendProgress,
                    GenerateAndMatch \/ Cleanup \/ Terminated
             PROVE  TypeOK' /\ SendProgress'
  OBVIOUS
<1>1. CASE GenerateAndMatch
  BY <1>1 DEF GenerateAndMatch, TypeOK, SendProgress, network, packets, results,
       collect, outside, Steps, NetworkSteps, PrepareSteps, BeforeCollect,
       Collecting
<1>2. CASE Cleanup
  BY <1>2 DEF Cleanup, TypeOK, SendProgress, collect, outside, Ended,
       NetworkSteps, PrepareSteps, BeforeCollect, Collecting
<1>3. CASE Terminated
  BY <1>3 DEF Terminated, vars, TypeOK, SendProgress, network, packets, results,
       collect, outside
<1>4. QED
  BY <1>1, <1>2, <1>3

LEMMA EnvironmentType ==
  TypeOK /\ SendProgress /\ Environment => TypeOK' /\ SendProgress'
<1> SUFFICES ASSUME TypeOK, SendProgress, Environment
             PROVE  TypeOK' /\ SendProgress'
  OBVIOUS
<1> USE DEF OutsideUnchanged, network, packets, results, collect
<1>0. ASSUME NEW h \in Header, NEW n \in 0 .. MaxReplies, NEW b \in BOOLEAN,
             Captured(h, n, b)
      PROVE  capture' \in Seq(CapturedPacket)
  <2>1. [header |-> h, serial |-> n, parses |-> b] \in CapturedPacket
    BY DEF CapturedPacket
  <2>2. capture \in Seq(CapturedPacket)
    BY DEF TypeOK
  <2>3. QED
    BY <1>0, <2>1, <2>2, AppendProperties DEF Captured
<1>1. CASE TargetReplies
  <2>1. replies + 1 \in 0 .. MaxReplies /\ replies' = replies + 1
    BY <1>1, ScanAssumption DEF TargetReplies, TypeOK
  <2>2. PICK p \in Answering : Captured(reply_to(packet(cfg, p)), replies + 1, TRUE)
    BY <1>1 DEF TargetReplies
  <2>3. reply_to(packet(cfg, p)) \in Header
    BY DEF Header, TypeOK
  <2>4. capture' \in Seq(CapturedPacket)
    BY <1>0, <2>1, <2>2, <2>3
  <2>5. QED
    BY <1>1, <2>1, <2>4 DEF TargetReplies, TypeOK, SendProgress
<1>2. CASE ForeignArrives
  <2>1. PICK h \in Foreign, b \in BOOLEAN : Captured(h, 0, b)
    BY <1>2 DEF ForeignArrives
  <2>2. h \in Header /\ 0 \in 0 .. MaxReplies
    BY ScanAssumption DEF Header
  <2>3. capture' \in Seq(CapturedPacket)
    BY <1>0, <2>1, <2>2
  <2>4. QED
    BY <1>2, <2>3 DEF ForeignArrives, TypeOK, SendProgress
<1>3. CASE Tick
  BY <1>3 DEF Tick, TypeOK, SendProgress
<1>4. QED
  BY <1>1, <1>2, <1>3 DEF Environment

(* Every variable of Scan keeps its type, send_probes never indexes past   *)
(* its table, and collection starts only when all probes are sent          *)
(* (src/src/scan.c:229-336).                                               *)
THEOREM TypeCorrect == Spec => [](TypeOK /\ SendProgress)
<1>1. Init => TypeOK /\ SendProgress
  BY TypeInit
<1>2. TypeOK /\ SendProgress /\ [Next]_vars => TypeOK' /\ SendProgress'
  <2>1. CASE UNCHANGED vars
    BY <2>1 DEF vars, TypeOK, SendProgress, network, packets, results, collect,
         outside
  <2>2. CASE Next
    BY <2>2, NetworkType, PrepareType, SendType, CollectType, EndType,
       EnvironmentType DEF Next, Program
  <2>3. QED
    BY <2>1, <2>2
<1>3. QED
  BY <1>1, <1>2, PTL DEF Spec

-----------------------------------------------------------------------------
(* What collect_responses does with the replies it reads: every probe      *)
(* keeps the first one that matches it, and the counter that ends the loop *)
(* is the number of probes that have one.  Both rest on UniqueMatch: a     *)
(* reply that matches one probe matches no other.                          *)

Received == {p \in Probe : status[p] = "RECEIVED"}

ReplyInv == TypeOK /\ SendProgress /\ ReplyProgress /\ FirstReplyWins
              /\ MatchedIsReceived

(* RecordReply concerns one probe: the only one the response matches.      *)
LEMMA RecordedProbe ==
  ASSUME TypeOK, RecordReply
  PROVE  \E p \in Pending :
           /\ Matches(p)
           /\ \A q \in Probe : Matches(q) => q = p
           /\ parsed' = [parsed EXCEPT ![p] = response]
           /\ status' = [status EXCEPT ![p] = "RECEIVED"]
<1>1. PICK p \in Candidates :
        /\ parsed' = [parsed EXCEPT ![p] = response]
        /\ status' = [status EXCEPT ![p] = "RECEIVED"]
  BY DEF RecordReply
<1>2. p \in Pending /\ p \in Probe /\ Matches(p)
  BY CandidatesPending DEF Candidates
<1>3. cfg \in Config
  BY ScanAssumption DEF TypeOK
<1>4. \A q \in Probe : Matches(q) => q = p
  BY <1>2, <1>3, UniqueMatch DEF AtMostOneProbe, Matches
<1>5. QED
  BY <1>1, <1>2, <1>4

(* The statuses of the probes split them in two while replies are awaited. *)
LEMMA ReceivedOrPending ==
  ASSUME TypeOK, SendProgress, pc \in Collecting
  PROVE  \A p \in Probe : p \in Received <=> p \notin Pending
BY DEF TypeOK, SendProgress, Received, Pending

-----------------------------------------------------------------------------
(* Steps before collection, and outside the program, record nothing.       *)

LEMMA BeforeReply ==
  ASSUME ReplyInv, OpenNetwork \/ PrepareProbes \/ SendProbes
  PROVE  (ReplyProgress /\ FirstReplyWins /\ MatchedIsReceived)'
<1>1. /\ UNCHANGED <<parsed, first_match, response>>
      /\ pc \in BeforeCollect
      /\ pc' \in BeforeCollect \cup {"cleanup"} \cup Ended
  <2>1. CASE OpenNetwork
    BY <2>1 DEF OpenNetwork, RefuseRange, OpenSocket, SetHeaderIncluded,
         OpenCapture, ConfigureCapture, NetworkFails, NetworkUnchanged, results,
         BeforeCollect, NetworkSteps, PrepareSteps
  <2>2. CASE PrepareProbes
    BY <2>2 DEF PrepareProbes, PrepareSequence, PrepareIE, PrepareECN, PrepareT,
         PrepareU1, Exit, PrepareUnchanged, results, BeforeCollect, NetworkSteps,
         PrepareSteps, Ended
  <2>3. CASE SendProbes
    BY <2>3 DEF SendProbes, SendProbe, SendFails, SendUnchanged, BeforeCollect
  <2>4. QED
    BY <2>1, <2>2, <2>3
<1>2. pc' \notin Collecting \cup {"fingerprint"} /\ pc' # "match" /\ pc # "match"
  BY <1>1 DEF BeforeCollect, NetworkSteps, PrepareSteps, Collecting, Ended
<1>3. QED
  BY <1>1, <1>2 DEF ReplyInv, ReplyProgress, FirstReplyWins, MatchedIsReceived

LEMMA OutsideReply ==
  ASSUME ReplyInv, Environment \/ UNCHANGED vars
  PROVE  (ReplyProgress /\ FirstReplyWins /\ MatchedIsReceived)'
<1>1. UNCHANGED <<pc, parsed, status, first_match, response, matched_count,
                  pending_count>>
  BY DEF Environment, TargetReplies, ForeignArrives, Tick, OutsideUnchanged,
     vars, results, collect
<1>2. Pending' = Pending
  BY <1>1 DEF Pending
<1>3. QED
  BY <1>1, <1>2 DEF ReplyInv, ReplyProgress, FirstReplyWins, MatchedIsReceived

LEMMA EndReply ==
  ASSUME ReplyInv, GenerateAndMatch \/ Cleanup \/ Terminated
  PROVE  (ReplyProgress /\ FirstReplyWins /\ MatchedIsReceived)'
<1>1. UNCHANGED response /\ pc # "match" /\ pc' \in {"cleanup"} \cup Ended
  BY DEF GenerateAndMatch, Cleanup, Terminated, vars, Ended
<1>2. QED
  BY <1>1 DEF ReplyInv, ReplyProgress, FirstReplyWins, MatchedIsReceived,
     BeforeCollect, NetworkSteps, PrepareSteps, Collecting, Ended

-----------------------------------------------------------------------------
(* Collection.                                                             *)

LEMMA StartReply ==
  ASSUME ReplyInv, CollectStart
  PROVE  (ReplyProgress /\ FirstReplyWins /\ MatchedIsReceived)'
<1>1. /\ pc = "collect" /\ pc' \in {"loop", "cleanup"}
      /\ UNCHANGED <<parsed, first_match, response, status>>
  BY DEF CollectStart
<1>2. Pending = Probe /\ \A p \in Probe : status[p] = "NO_RESPONSE"
  BY <1>1, AllPending DEF ReplyInv
<1>3. \A p \in Probe : parsed[p] = NULL /\ first_match[p] = NULL
  BY <1>1 DEF ReplyInv, ReplyProgress, BeforeCollect
<1>4. ReplyProgress'
  BY <1>1 DEF ReplyInv, ReplyProgress, BeforeCollect, NetworkSteps, PrepareSteps
<1>5. FirstReplyWins'
  BY <1>1, <1>2, <1>3 DEF FirstReplyWins
<1>6. MatchedIsReceived'
  <2>1. CASE pc' = "cleanup"
    BY <2>1 DEF MatchedIsReceived, Collecting
  <2>2. CASE pc' = "loop"
    <3>1. matched_count' = 0 /\ pending_count' = Cardinality(Pending)
      BY <2>2 DEF CollectStart
    <3>2. Pending' = Pending /\ {p \in Probe : status[p] = "RECEIVED"}' = {}
      BY <1>1, <1>2 DEF Pending
    <3>3. Cardinality({}) = 0 /\ Cardinality(Pending) \in Nat
      BY <1>2, ProbeFinite, FS_EmptySet, FS_CardinalityType
    <3>4. QED
      BY <3>1, <3>2, <3>3 DEF MatchedIsReceived
  <2>3. QED
    BY <1>1, <2>1, <2>2
<1>7. QED
  BY <1>4, <1>5, <1>6

LEMMA RecordReplies ==
  ASSUME ReplyInv, RecordReply
  PROVE  (ReplyProgress /\ FirstReplyWins /\ MatchedIsReceived)'
<1> USE DEF ReplyInv
<1>1. /\ pc = "match" /\ pc' = "loop" /\ response' = NULL
      /\ matched_count' = matched_count + 1 /\ pending_count' = pending_count
      /\ RememberFirst
  BY DEF RecordReply
<1>2. PICK p \in Pending :
        /\ Matches(p)
        /\ \A q \in Probe : Matches(q) => q = p
        /\ parsed' = [parsed EXCEPT ![p] = response]
        /\ status' = [status EXCEPT ![p] = "RECEIVED"]
  BY RecordedProbe
<1>3. p \in Probe /\ status[p] = "NO_RESPONSE"
  BY DEF Pending
<1>4. response # NULL
  BY <1>1 DEF ReplyProgress
<1>5. ReplyProgress'
  BY <1>1 DEF ReplyProgress, BeforeCollect, NetworkSteps, PrepareSteps
<1>6. FirstReplyWins'
  <2>1. ASSUME NEW q \in Probe
        PROVE  /\ parsed'[q] = first_match'[q]
               /\ status'[q] = "RECEIVED" <=> first_match'[q] # NULL
    <3>1. /\ parsed[q] = first_match[q]
          /\ status[q] = "RECEIVED" <=> first_match[q] # NULL
      BY <1>1 DEF FirstReplyWins, Collecting
    <3>2. first_match'[q] = IF first_match[q] = NULL /\ Matches(q)
                            THEN response ELSE first_match[q]
      BY <1>1 DEF RememberFirst
    <3>3. CASE q = p
      BY <1>2, <1>3, <1>4, <3>1, <3>2, <3>3 DEF TypeOK
    <3>4. CASE q # p
      BY <1>2, <1>3, <3>1, <3>2, <3>4 DEF TypeOK
    <3>5. QED
      BY <3>3, <3>4
  <2>2. QED
    BY <2>1 DEF FirstReplyWins
<1>7. MatchedIsReceived'
  <2>1. matched_count = Cardinality(Received)
        /\ pending_count = matched_count + Cardinality(Pending)
    BY <1>1 DEF MatchedIsReceived, Collecting, Received
  <2>2. Received' = Received \cup {p} /\ p \notin Received
    BY <1>2, <1>3 DEF Received, TypeOK
  <2>3. Pending' = Pending \ {p}
    BY <1>2, <1>3 DEF Pending, TypeOK
  <2>4. IsFiniteSet(Received) /\ IsFiniteSet(Pending)
    BY ProbeFinite, FS_Subset DEF Received, Pending
  <2>5. Cardinality(Received') = Cardinality(Received) + 1
    BY <2>2, <2>4, FS_AddElement
  <2>6. Cardinality(Pending') = Cardinality(Pending) - 1
    BY <2>3, <2>4, FS_RemoveElement
  <2>7. Cardinality(Pending) \in Nat /\ Cardinality(Received) \in Nat
    BY <2>4, FS_CardinalityType
  <2>8. QED
    BY <1>1, <2>1, <2>5, <2>6, <2>7 DEF MatchedIsReceived, Received
<1>8. QED
  BY <1>5, <1>6, <1>7

LEMMA DiscardReplies ==
  ASSUME ReplyInv, DiscardReply
  PROVE  (ReplyProgress /\ FirstReplyWins /\ MatchedIsReceived)'
<1> USE DEF ReplyInv
<1>1. /\ pc = "match" /\ pc' = "loop" /\ response' = NULL /\ Candidates = {}
      /\ UNCHANGED <<status, parsed, matched_count, pending_count>>
      /\ RememberFirst
  BY DEF DiscardReply, collect
<1>2. ReplyProgress'
  BY <1>1 DEF ReplyProgress, BeforeCollect, NetworkSteps, PrepareSteps
<1>3. ASSUME NEW q \in Probe
      PROVE  first_match'[q] = first_match[q]
  <2>1. ~Matches(q) \/ status[q] # "NO_RESPONSE"
    BY <1>1 DEF Candidates, Pending
  <2>2. status[q] \in {"NO_RESPONSE", "RECEIVED"}
    BY <1>1 DEF TypeOK, SendProgress, Collecting
  <2>3. status[q] = "RECEIVED" <=> first_match[q] # NULL
    BY <1>1 DEF FirstReplyWins, Collecting
  <2>4. QED
    BY <1>1, <2>1, <2>2, <2>3 DEF RememberFirst
<1>4. FirstReplyWins'
  BY <1>1, <1>3 DEF FirstReplyWins, Collecting
<1>5. Pending' = Pending
  BY <1>1 DEF Pending
<1>6. MatchedIsReceived'
  BY <1>1, <1>5 DEF MatchedIsReceived, Collecting
<1>7. QED
  BY <1>2, <1>4, <1>6

(* The steps of the loop that touch no probe.                              *)
LEMMA LoopReply ==
  ASSUME ReplyInv,
         CollectCheck \/ CollectClockFails \/ ReceiveNothing \/ ReceiveIgnored
           \/ ReceiveFails \/ ReceiveParsed
  PROVE  (ReplyProgress /\ FirstReplyWins /\ MatchedIsReceived)'
<1> USE DEF ReplyInv
<1>1. /\ pc \in {"loop", "receive"}
      /\ pc' \in {"loop", "receive", "match", "fingerprint", "cleanup"}
      /\ UNCHANGED <<parsed, status, first_match, matched_count, pending_count>>
  BY DEF CollectCheck, CollectClockFails, ReceiveNothing, ReceiveIgnored,
     ReceiveFails, ReceiveParsed, collect
<1>2. response' # NULL <=> pc' = "match"
  <2>1. CASE ReceiveParsed
    BY <2>1, CollectType DEF CollectResponses, ReceiveParsed, TypeOK
  <2>2. CASE ~ReceiveParsed
    <3>1. response' = response /\ pc' # "match" /\ pc # "match"
      BY <1>1, <2>2 DEF CollectCheck, CollectClockFails, ReceiveNothing,
           ReceiveIgnored, ReceiveFails
    <3>2. QED
      BY <3>1 DEF ReplyProgress
  <2>3. QED
    BY <2>1, <2>2
<1>3. ReplyProgress'
  BY <1>1, <1>2 DEF ReplyProgress, BeforeCollect, NetworkSteps, PrepareSteps
<1>4. Pending' = Pending
  BY <1>1 DEF Pending
<1>5. FirstReplyWins'
  BY <1>1 DEF FirstReplyWins, Collecting
<1>6. MatchedIsReceived'
  BY <1>1, <1>4 DEF MatchedIsReceived, Collecting
<1>7. QED
  BY <1>3, <1>5, <1>6

-----------------------------------------------------------------------------
LEMMA ReplyInvariant == Spec => []ReplyInv
<1>1. Init => ReplyProgress /\ FirstReplyWins /\ MatchedIsReceived
  BY DEF Init, ReplyProgress, FirstReplyWins, MatchedIsReceived, Collecting,
     NetworkSteps, PrepareSteps, BeforeCollect
<1>2. ReplyInv /\ [Next]_vars => (ReplyProgress /\ FirstReplyWins
                                   /\ MatchedIsReceived)'
  BY BeforeReply, OutsideReply, EndReply, StartReply, RecordReplies,
     DiscardReplies, LoopReply DEF Next, Program, CollectResponses
<1>3. QED
  BY <1>1, <1>2, TypeCorrect, PTL DEF Spec, ReplyInv

(* Each probe keeps the first reply read that matches it, whatever is      *)
(* lost, repeated, delayed or sent by strangers                            *)
(* (src/src/probe_matcher.c:111-142, src/src/scan.c:271-336).              *)
THEOREM FirstReplyKept == Spec => []FirstReplyWins
BY ReplyInvariant, PTL DEF ReplyInv

(* The counter collect_responses stops on is the number of probes that     *)
(* have a reply (src/src/scan.c:278-327).                                  *)
THEOREM CountIsExact == Spec => []MatchedIsReceived
BY ReplyInvariant, PTL DEF ReplyInv

(* The loop receives only while some probe lacks its reply                 *)
(* (src/src/scan.c:291).                                                   *)
THEOREM StopsWhenComplete == Spec => []NoReceiveWhenComplete
<1>1. Init => NoReceiveWhenComplete
  BY DEF Init, NoReceiveWhenComplete
<1>2. ReplyInv /\ NoReceiveWhenComplete /\ [Next]_vars => NoReceiveWhenComplete'
  <2> SUFFICES ASSUME ReplyInv, NoReceiveWhenComplete, [Next]_vars,
                      pc' \in {"receive", "match"}
               PROVE  Pending' # {}
    BY DEF NoReceiveWhenComplete
  <2>1. CASE CollectCheck
    <3>1. matched_count < pending_count /\ pc = "loop" /\ Pending' = Pending
      BY <2>1 DEF CollectCheck, ReplyInv, TypeOK, Pending
    <3>2. pending_count = matched_count + Cardinality(Pending)
      BY <3>1 DEF ReplyInv, MatchedIsReceived, Collecting
    <3>3. Cardinality(Pending) # 0
      BY <3>1, <3>2 DEF ReplyInv, TypeOK
    <3>4. QED
      BY <3>1, <3>3, FS_EmptySet
  <2>2. CASE ReceiveParsed
    BY <2>2 DEF ReceiveParsed, NoReceiveWhenComplete, Pending
  <2>3. CASE Environment \/ UNCHANGED vars
    BY <2>3 DEF Environment, TargetReplies, ForeignArrives, Tick,
         OutsideUnchanged, vars, results, NoReceiveWhenComplete, Pending
  <2>4. CASE OpenNetwork \/ PrepareProbes \/ SendProbes
    BY <2>4 DEF OpenNetwork, RefuseRange, OpenSocket, SetHeaderIncluded,
         OpenCapture, ConfigureCapture, NetworkFails, PrepareProbes,
         PrepareSequence, PrepareIE, PrepareECN, PrepareT, PrepareU1, Exit,
         SendProbes, SendProbe, SendFails
  <2>5. CASE CollectStart \/ CollectClockFails \/ ReceiveNothing
              \/ ReceiveIgnored \/ ReceiveFails \/ RecordReply \/ DiscardReply
    BY <2>5 DEF CollectStart, CollectClockFails, ReceiveNothing, ReceiveIgnored,
         ReceiveFails, RecordReply, DiscardReply
  <2>6. CASE GenerateAndMatch \/ Cleanup \/ Terminated
    BY <2>6 DEF GenerateAndMatch, Cleanup, Terminated, Ended, vars
  <2>7. QED
    BY <2>1, <2>2, <2>3, <2>4, <2>5, <2>6 DEF Next, Program, CollectResponses
<1>3. QED
  BY <1>1, <1>2, ReplyInvariant, PTL DEF Spec

-----------------------------------------------------------------------------
(* Time.  A probe's send time is never in the future, and collection       *)
(* starts no earlier than the last probe was sent.                         *)

SendTimesPast ==
  /\ \A p \in Probe : sent_at[p] <= clock
  /\ pc \in Collecting \cup {"fingerprint"} =>
       started <= clock /\ \A p \in Probe : sent_at[p] <= started

TimingInv == ReplyInv /\ SendTimesPast /\ SendTimesInOrder /\ NoReplyMeansTimeout

(* Steps that touch neither send times nor statuses, before collection.    *)
LEMMA QuietTiming ==
  ASSUME TimingInv,
         UNCHANGED <<sent_at, status, sent, clock>>,
         pc \notin {"cleanup"} \cup Ended,
         pc' \notin Collecting \cup {"fingerprint"}
  PROVE  (SendTimesPast /\ SendTimesInOrder /\ NoReplyMeansTimeout)'
BY DEF TimingInv, SendTimesPast, SendTimesInOrder, NoReplyMeansTimeout

LEMMA BeforeTiming ==
  ASSUME TimingInv, OpenNetwork \/ PrepareProbes
  PROVE  (SendTimesPast /\ SendTimesInOrder /\ NoReplyMeansTimeout)'
<1>1. /\ UNCHANGED <<sent_at, status, sent, clock>>
      /\ pc \in NetworkSteps \cup PrepareSteps
      /\ pc' \in BeforeCollect \cup {"cleanup"} \cup Ended
  <2>1. CASE OpenNetwork
    BY <2>1 DEF OpenNetwork, RefuseRange, OpenSocket, SetHeaderIncluded,
         OpenCapture, ConfigureCapture, NetworkFails, NetworkUnchanged, results,
         outside, BeforeCollect, NetworkSteps, PrepareSteps
  <2>2. CASE PrepareProbes
    BY <2>2 DEF PrepareProbes, PrepareSequence, PrepareIE, PrepareECN, PrepareT,
         PrepareU1, Exit, PrepareUnchanged, results, outside, BeforeCollect,
         NetworkSteps, PrepareSteps, Ended
  <2>3. QED
    BY <2>1, <2>2
<1>2. QED
  BY <1>1, QuietTiming DEF BeforeCollect, NetworkSteps, PrepareSteps,
     Collecting, Ended

LEMMA SendTiming ==
  ASSUME TimingInv, SendProbes
  PROVE  (SendTimesPast /\ SendTimesInOrder /\ NoReplyMeansTimeout)'
<1> USE DEF TimingInv, ReplyInv
<1>1. pc = "send" /\ UNCHANGED clock /\ sent \in Nat /\ sent + 1 \in 1 .. SendCount
  BY DEF SendProbes, SendProbe, SendFails, SendUnchanged, outside, TypeOK,
     SendCount
<1>2. ProbeToSend \in Probe /\ clock \in Nat /\ sent_at \in [Probe -> Nat]
  BY <1>1, SendOrderFacts DEF ProbeToSend, TypeOK
<1>3. CASE SendProbe
  <2>1. /\ sent_at' = [sent_at EXCEPT ![ProbeToSend] = clock]
        /\ status' = [status EXCEPT ![ProbeToSend] = "NO_RESPONSE"]
        /\ sent' = sent + 1
        /\ pc' \in {"send", "collect"}
    BY <1>3 DEF SendProbe
  <2>2. SendTimesPast'
    BY <1>1, <1>2, <2>1 DEF SendTimesPast, Collecting
  <2>3. ASSUME NEW i \in 1 .. SendCount, NEW j \in 1 .. SendCount, i < j
        PROVE  IF j <= sent'
               THEN sent_at'[SendOrder[i]] <= sent_at'[SendOrder[j]]
               ELSE sent_at'[SendOrder[j]] = 0 /\ status'[SendOrder[j]] = "NOT_SENT"
    <3>1. IF j <= sent THEN sent_at[SendOrder[i]] <= sent_at[SendOrder[j]]
          ELSE sent_at[SendOrder[j]] = 0 /\ status[SendOrder[j]] = "NOT_SENT"
      BY <1>1, <2>3 DEF SendTimesInOrder, Ended
    <3>2. /\ SendOrder[i] \in Probe /\ SendOrder[j] \in Probe
          /\ SendOrder[i] = ProbeToSend <=> i = sent + 1
          /\ SendOrder[j] = ProbeToSend <=> j = sent + 1
      BY <1>1, SendOrderFacts DEF ProbeToSend
    <3>3. /\ sent_at'[SendOrder[i]] = IF i = sent + 1 THEN clock
                                      ELSE sent_at[SendOrder[i]]
          /\ sent_at'[SendOrder[j]] = IF j = sent + 1 THEN clock
                                      ELSE sent_at[SendOrder[j]]
          /\ j # sent + 1 => status'[SendOrder[j]] = status[SendOrder[j]]
      BY <1>2, <2>1, <3>2 DEF TypeOK
    <3>4. sent_at[SendOrder[i]] <= clock
      BY <3>2 DEF SendTimesPast
    <3>5. CASE j <= sent
      BY <1>1, <2>1, <2>3, <3>1, <3>3, <3>5
    <3>6. CASE j = sent + 1
      BY <1>1, <2>1, <2>3, <3>3, <3>4, <3>6
    <3>7. CASE j > sent + 1
      BY <1>1, <2>1, <2>3, <3>1, <3>3, <3>7
    <3>8. QED
      BY <1>1, <3>5, <3>6, <3>7
  <2>4. SendTimesInOrder'
    BY <2>3 DEF SendTimesInOrder
  <2>5. QED
    BY <2>1, <2>2, <2>4 DEF NoReplyMeansTimeout
<1>4. CASE SendFails
  <2>1. /\ pc' = "cleanup"
        /\ \/ sent_at' = sent_at
           \/ sent_at' = [sent_at EXCEPT ![ProbeToSend] = clock]
    BY <1>4 DEF SendFails
  <2>2. QED
    BY <1>1, <1>2, <2>1 DEF SendTimesPast, SendTimesInOrder,
       NoReplyMeansTimeout, Collecting
<1>5. QED
  BY <1>3, <1>4 DEF SendProbes

(* Collection begins at the current time, after the last probe was sent.   *)
LEMMA CollectTiming ==
  ASSUME TimingInv, CollectResponses
  PROVE  (SendTimesPast /\ SendTimesInOrder /\ NoReplyMeansTimeout)'
<1> USE DEF TimingInv, ReplyInv
<1>1. /\ UNCHANGED <<sent_at, sent, clock>> /\ clock \in Nat
      /\ pc \in {"collect"} \cup Collecting
  BY DEF CollectResponses, CollectStart, CollectCheck, CollectClockFails,
     ReceiveNothing, ReceiveIgnored, ReceiveFails, ReceiveParsed, RecordReply,
     DiscardReply, CollectUnchanged, TypeOK, Collecting
<1>2. sent = SendCount
  <2>1. \A p \in Probe : status[p] # "NOT_SENT" \/ pc = "collect"
    BY <1>1 DEF SendProgress
  <2>2. CASE pc = "collect"
    BY <2>2 DEF SendProgress
  <2>3. CASE pc # "collect"
    <3>1. SendOrder[SendCount] \in Probe /\ 1 \in 1 .. SendCount
          /\ SendCount \in 1 .. SendCount /\ 1 < SendCount
      BY SendOrderFacts DEF SendCount
    <3>2. status[SendOrder[SendCount]] # "NOT_SENT"
      BY <2>1, <2>3, <3>1
    <3>3. SendCount <= sent
      BY <1>1, <2>3, <3>1, <3>2 DEF SendTimesInOrder, Collecting, Ended
    <3>4. QED
      BY <3>3 DEF TypeOK, SendCount
  <2>4. QED
    BY <2>2, <2>3
<1>3. SendTimesInOrder'
  <2>1. \A i, j \in 1 .. SendCount :
          i < j => sent_at[SendOrder[i]] <= sent_at[SendOrder[j]]
    BY <1>1, <1>2 DEF SendTimesInOrder, Collecting, Ended, SendCount
  <2>2. QED
    BY <1>1, <1>2, <2>1 DEF SendTimesInOrder, SendCount
<1>4. SendTimesPast'
  <2>1. CASE CollectStart
    BY <1>1, <2>1 DEF CollectStart, SendTimesPast, Collecting
  <2>2. CASE ~CollectStart
    <3>1. started' = started /\ pc \in Collecting
      BY <2>2 DEF CollectResponses, CollectCheck, CollectClockFails,
         ReceiveNothing, ReceiveIgnored, ReceiveFails, ReceiveParsed,
         RecordReply, DiscardReply, collect, Collecting
    <3>2. QED
      BY <1>1, <3>1 DEF SendTimesPast
  <2>3. QED
    BY <2>1, <2>2
<1>5. NoReplyMeansTimeout'
  <2> SUFFICES ASSUME pc' = "fingerprint", NEW p \in Probe
               PROVE  \/ status'[p] = "RECEIVED"
                      \/ /\ status'[p] = "NO_RESPONSE"
                         /\ clock >= sent_at[p] + Timeout
    BY <1>1 DEF NoReplyMeansTimeout
  <2>1. CollectCheck
    BY DEF CollectResponses, CollectStart, CollectClockFails, ReceiveNothing,
       ReceiveIgnored, ReceiveFails, ReceiveParsed, RecordReply, DiscardReply
  <2>2. /\ matched_count >= pending_count \/ clock - started >= Timeout
        /\ status' = status /\ pc = "loop"
    BY <2>1 DEF CollectCheck
  <2>3. status[p] \in {"RECEIVED", "NO_RESPONSE"}
    BY <2>2 DEF TypeOK, SendProgress, Collecting
  <2>4. CASE matched_count >= pending_count
    <3>1. pending_count = matched_count + Cardinality(Pending)
      BY <2>2 DEF MatchedIsReceived, Collecting
    <3>2. IsFiniteSet(Pending) /\ Cardinality(Pending) \in Nat
      BY ProbeFinite, FS_Subset, FS_CardinalityType DEF Pending
    <3>3. Cardinality(Pending) = 0
      BY <2>4, <3>1, <3>2 DEF TypeOK
    <3>4. Pending = {}
      BY <3>2, <3>3, FS_EmptySet
    <3>5. QED
      BY <2>2, <2>3, <3>4 DEF Pending
  <2>5. CASE clock - started >= Timeout
    <3>1. sent_at[p] <= started
      BY <2>2 DEF SendTimesPast, Collecting
    <3>2. sent_at[p] \in Nat /\ started \in Nat /\ Timeout \in Nat
      BY ScanAssumption DEF TypeOK
    <3>3. QED
      BY <1>1, <2>2, <2>3, <2>5, <3>1, <3>2
  <2>6. QED
    BY <2>2, <2>4, <2>5
<1>6. QED
  BY <1>3, <1>4, <1>5

LEMMA OtherTiming ==
  ASSUME TimingInv,
         GenerateAndMatch \/ Cleanup \/ Terminated \/ Environment
           \/ UNCHANGED vars
  PROVE  (SendTimesPast /\ SendTimesInOrder /\ NoReplyMeansTimeout)'
<1> USE DEF TimingInv
<1>1. CASE GenerateAndMatch
  BY <1>1 DEF GenerateAndMatch, results, outside, SendTimesPast,
     SendTimesInOrder, NoReplyMeansTimeout, Collecting
<1>2. CASE Cleanup
  <2>1. \A p \in Probe : sent_at'[p] = 0
    BY <1>2 DEF Cleanup
  <2>2. clock' \in Nat /\ pc' = "done"
    BY <1>2 DEF Cleanup, outside, ReplyInv, TypeOK
  <2>3. QED
    BY <2>1, <2>2 DEF SendTimesPast, SendTimesInOrder, NoReplyMeansTimeout,
       Collecting, Ended
<1>3. CASE Tick
  <2>1. /\ clock' = clock + 1 /\ pc # "fingerprint"
        /\ UNCHANGED <<pc, sent, sent_at, status, started>>
    BY <1>3 DEF Tick, OutsideUnchanged, results, collect, Collecting
  <2>2. clock \in Nat /\ started \in Nat /\ sent_at \in [Probe -> Nat]
    BY DEF ReplyInv, TypeOK
  <2>3. QED
    BY <2>1, <2>2 DEF SendTimesPast, SendTimesInOrder, NoReplyMeansTimeout
<1>4. CASE TargetReplies \/ ForeignArrives \/ Terminated \/ UNCHANGED vars
  <2>1. UNCHANGED <<pc, sent, sent_at, status, started, clock>>
    BY <1>4 DEF TargetReplies, ForeignArrives, OutsideUnchanged, Terminated,
       vars, results, collect, outside
  <2>2. QED
    BY <2>1 DEF SendTimesPast, SendTimesInOrder, NoReplyMeansTimeout
<1>5. QED
  BY <1>1, <1>2, <1>3, <1>4 DEF Environment

LEMMA TimingInvariant == Spec => []TimingInv
<1>1. Init => SendTimesPast /\ SendTimesInOrder /\ NoReplyMeansTimeout
  BY SendOrderFacts DEF Init, SendTimesPast, SendTimesInOrder,
     NoReplyMeansTimeout, Collecting, SendCount
<1>2. TimingInv /\ [Next]_vars
        => (SendTimesPast /\ SendTimesInOrder /\ NoReplyMeansTimeout)'
  BY BeforeTiming, SendTiming, CollectTiming, OtherTiming DEF Next, Program
<1>3. QED
  BY <1>1, <1>2, ReplyInvariant, PTL DEF Spec, TimingInv

(* A probe left without a reply has been waited for the whole time limit   *)
(* (src/src/scan.c:284-301).                                               *)
THEOREM TimeoutIsReal == Spec => []NoReplyMeansTimeout
BY TimingInvariant, PTL DEF TimingInv

(* Send times follow the order of sending (src/src/scan.c:209-265).        *)
THEOREM SendOrderInTime == Spec => []SendTimesInOrder
BY TimingInvariant, PTL DEF TimingInv

-----------------------------------------------------------------------------
(* Whatever fails, and wherever, the program ends with its socket and its  *)
(* capture handle closed and its packets, payloads and replies freed, each *)
(* of them once.                                                           *)

(* The blocks of the local response.                                       *)
ResponseBlocks == IF response = NULL THEN {} ELSE {response.block} \ {NULL}

Exited == pc \in {"exit_in_spec", "exit_in_construct"}

ReleaseInv == ReplyInv /\ NetworkProgress /\ Ownership /\ ReleasedAtEnd

-----------------------------------------------------------------------------
(* The network resources.                                                  *)

LEMMA NetworkReleased ==
  ASSUME TypeOK, NetworkProgress, [Next]_vars
  PROVE  NetworkProgress'
<1>1. CASE OpenNetwork
  BY <1>1 DEF OpenNetwork, RefuseRange, OpenSocket, SetHeaderIncluded,
     OpenCapture, ConfigureCapture, NetworkFails, network, NetworkProgress,
     NetworkSteps
<1>2. CASE PrepareProbes \/ SendProbes \/ CollectResponses \/ GenerateAndMatch
  <2>1. UNCHANGED <<sock, pcap, network_ready>>
        /\ pc \notin NetworkSteps \cup {"cleanup", "done"}
        /\ pc' \notin {"network_init", "done"}
    BY <1>2 DEF PrepareProbes, PrepareSequence, PrepareIE, PrepareECN,
       PrepareT, PrepareU1, Exit, PrepareUnchanged, SendProbes, SendProbe,
       SendFails, SendUnchanged, CollectResponses, CollectStart, CollectCheck,
       CollectClockFails, ReceiveNothing, ReceiveIgnored, ReceiveFails,
       ReceiveParsed, RecordReply, DiscardReply, CollectUnchanged,
       GenerateAndMatch, network, NetworkSteps
  <2>2. network_ready
    BY <2>1 DEF NetworkProgress
  <2>3. QED
    BY <2>1, <2>2 DEF NetworkProgress
<1>3. CASE Cleanup
  BY <1>3 DEF Cleanup, NetworkProgress, NetworkSteps
<1>4. CASE Environment \/ Terminated \/ UNCHANGED vars
  <2>1. UNCHANGED <<pc, sock, pcap, network_ready>>
    BY <1>4 DEF Environment, TargetReplies, ForeignArrives, Tick,
       OutsideUnchanged, Terminated, vars, network
  <2>2. QED
    BY <2>1 DEF NetworkProgress
<1>5. QED
  BY <1>1, <1>2, <1>3, <1>4 DEF Next, Program

-----------------------------------------------------------------------------
(* The heap.  A step that moves no pointer keeps every owner.              *)

LEMMA QuietOwnership ==
  ASSUME Ownership, UNCHANGED <<data, payload, parsed, response, heap>>,
         Exited => Exited'
  PROVE  Ownership'
<1>1. ScanBlocks' = ScanBlocks
  BY DEF ScanBlocks
<1>2. QED
  BY <1>1 DEF Ownership, Exited

(* Preparing packets and payloads hands each new block to its one owner.   *)
LEMMA BuildOwnership ==
  ASSUME TypeOK, Ownership, ~Exited, ~Exited',
         NEW S \in SUBSET Probe, NEW E \in SUBSET IcmpProbe,
         Build(S, {PayloadBlock(p) : p \in E}),
         payload' = [p \in IcmpProbe |-> IF p \in E THEN PayloadBlock(p)
                                         ELSE payload[p]],
         UNCHANGED <<parsed, response>>
  PROVE  Ownership'
<1>1. /\ data' = [p \in Probe |-> IF p \in S THEN PacketBlock(p) ELSE data[p]]
      /\ heap' = heap \cup {PacketBlock(p) : p \in S}
                      \cup {PayloadBlock(p) : p \in E}
  BY DEF Build
<1>2. heap = ScanBlocks \cup ResponseBlocks
  BY DEF Ownership, Exited, ResponseBlocks
<1>3. (\A p \in Probe : data[p] \in {NULL, PacketBlock(p)})
      /\ (\A p \in IcmpProbe : payload[p] \in {NULL, PayloadBlock(p)})
  BY DEF Ownership
<1>4. /\ \A p \in Probe : PacketBlock(p) # NULL
      /\ \A p \in IcmpProbe : PayloadBlock(p) # NULL
  BY BlocksTyped, NullAssumption
<1>5. ScanBlocks' = ScanBlocks \cup {PacketBlock(p) : p \in S}
                               \cup {PayloadBlock(p) : p \in E}
  <2> DEFINE D == {data[p] : p \in Probe} \ {NULL}
             P == {payload[p] : p \in IcmpProbe} \ {NULL}
             R == {parsed[p].block : p \in {q \in Probe : parsed[q] # NULL}}
                  \ {NULL}
  <2>1. ScanBlocks = D \cup P \cup R
    BY DEF ScanBlocks
  <2>2. ScanBlocks' = D' \cup P' \cup R
    BY DEF ScanBlocks
  <2>3. D' = D \cup {PacketBlock(p) : p \in S}
    BY <1>1, <1>3, <1>4
  <2>4. P' = P \cup {PayloadBlock(p) : p \in E}
    BY <1>3, <1>4
  <2>5. QED
    BY <2>1, <2>2, <2>3, <2>4
<1>6. heap' = ScanBlocks' \cup ResponseBlocks'
  BY <1>1, <1>2, <1>5 DEF ResponseBlocks
<1>7. QED
  BY <1>1, <1>3, <1>6 DEF Ownership, ResponseBlocks

LEMMA PrepareOwnership ==
  ASSUME TypeOK, Ownership, PrepareProbes
  PROVE  Ownership'
<1>0. /\ UNCHANGED <<parsed, response>> /\ ~Exited
      /\ pc' \notin {"done"} /\ payload \in [IcmpProbe -> Block \cup {NULL}]
  BY DEF PrepareProbes, PrepareSequence, PrepareIE, PrepareECN, PrepareT,
     PrepareU1, PrepareUnchanged, Exit, results, TypeOK, Exited
<1>1. ASSUME Exited' PROVE Ownership'
  <2>1. UNCHANGED <<data, payload, heap>>
    BY <1>1 DEF PrepareProbes, PrepareSequence, PrepareIE, PrepareECN, PrepareT,
       PrepareU1, Exit, Exited, packets
  <2>2. QED
    BY <1>0, <1>1, <2>1, QuietOwnership
<1>2. ASSUME NEW S \in SUBSET Probe, Build(S, {}), UNCHANGED payload, ~Exited'
      PROVE  Ownership'
  <2>1. {PayloadBlock(p) : p \in {}} = {} /\ {} \in SUBSET IcmpProbe
    OBVIOUS
  <2>2. payload' = [p \in IcmpProbe |-> IF p \in {} THEN PayloadBlock(p)
                                        ELSE payload[p]]
    BY <1>0, <1>2
  <2>3. Build(S, {PayloadBlock(p) : p \in {}})
    BY <1>2, <2>1
  <2>4. QED
    BY <1>0, <1>2, <2>1, <2>2, <2>3, BuildOwnership
<1>a. SeqProbe \subseteq Probe /\ TProbe \subseteq Probe /\ IcmpProbe \subseteq Probe
      /\ {ECN} \subseteq Probe /\ {U1} \subseteq Probe
  BY DEF SeqProbe, TProbe, IcmpProbe, Probe, SEQ1, SEQ6, ECN, IE1, IE2, T2, T7, U1
<1>3. CASE PrepareSequence \/ PrepareECN \/ PrepareT
  BY <1>1, <1>2, <1>3, <1>a DEF PrepareSequence, PrepareECN, PrepareT, Exit,
     Exited
<1>4. CASE PrepareU1
  <2>1. CASE Build({U1}, {}) /\ UNCHANGED payload
    BY <1>1, <1>2, <1>a, <2>1
  <2>2. CASE UNCHANGED <<packets, heap>>
    BY <1>0, <2>2, QuietOwnership DEF packets
  <2>3. QED
    BY <1>4, <2>1, <2>2 DEF PrepareU1
<1>5. CASE PrepareIE
  <2>1. CASE Exited'
    BY <1>1, <2>1
  <2>2. CASE ~Exited'
    <3>1. PICK built \in {{}, {IE1}, {IE1, IE2}} :
            Build(built, {PayloadBlock(p) : p \in IcmpProbe})
      BY <1>5, <2>2 DEF PrepareIE, Exited
    <3>2. payload' = [p \in IcmpProbe |-> PayloadBlock(p)]
      BY <1>5, <2>2 DEF PrepareIE, Exited
    <3>3. built \in SUBSET Probe
      BY <1>a DEF IcmpProbe
    <3>4. payload' = [p \in IcmpProbe |-> IF p \in IcmpProbe THEN PayloadBlock(p)
                                          ELSE payload[p]]
      BY <3>2
    <3>5. IcmpProbe \in SUBSET IcmpProbe
      OBVIOUS
    <3>6. QED
      BY <1>0, <2>2, <3>1, <3>3, <3>4, <3>5, BuildOwnership
  <2>3. QED
    BY <2>1, <2>2
<1>6. QED
  BY <1>3, <1>4, <1>5 DEF PrepareProbes

(* A parsed reply brings a block nobody owned.                             *)
LEMMA ReceiveOwnership ==
  ASSUME ReplyInv, Ownership, ReceiveParsed
  PROVE  Ownership'
<1>1. /\ UNCHANGED <<data, payload, parsed>> /\ response = NULL /\ ~Exited
      /\ ~Exited'
  BY DEF ReceiveParsed, CollectUnchanged, packets, ReplyInv, ReplyProgress,
     Exited
<1>2. response' \in Response /\ response' # NULL
  BY CollectType, NullAssumption
     DEF ReplyInv, CollectResponses, TypeOK, ReceiveParsed
<1>3. heap = ScanBlocks
  BY <1>1 DEF Ownership, Exited
<1>4. \/ response'.block = NULL /\ heap' = heap
      \/ response'.block \notin heap /\ heap' = heap \cup {response'.block}
         /\ response'.block # NULL
  <2>1. \A b \in Buffer : ReplyBlock(b) # NULL
    BY BlocksTyped, NullAssumption
  <2>2. QED
    BY <2>1, NewReplyBlock DEF Parsed
<1>5. ScanBlocks' = ScanBlocks
  BY <1>1 DEF ScanBlocks
<1>6. \A p \in Probe :
        parsed[p] # NULL /\ response'.block # NULL
          => parsed[p].block # response'.block
  <2>1. \A p \in Probe : parsed[p] # NULL /\ parsed[p].block # NULL
                           => parsed[p].block \in ScanBlocks
    BY DEF ScanBlocks
  <2>2. QED
    BY <1>3, <1>4, <2>1
<1>7. heap' = ScanBlocks' \cup ({response'.block} \ {NULL})
  BY <1>3, <1>4, <1>5
<1>8. QED
  BY <1>1, <1>2, <1>6, <1>7 DEF Ownership

(* Recording moves the response's blocks to the probe: nothing is freed.   *)
LEMMA RecordOwnership ==
  ASSUME ReplyInv, Ownership, RecordReply
  PROVE  Ownership'
<1>1. /\ UNCHANGED <<data, payload, heap>> /\ response' = NULL
      /\ response # NULL /\ ~Exited /\ ~Exited'
  BY DEF RecordReply, CollectUnchanged, packets, ReplyInv, ReplyProgress,
     Exited
<1>2. PICK p \in Probe :
        /\ parsed' = [parsed EXCEPT ![p] = response]
        /\ parsed[p] = NULL
  <2>1. PICK p \in Pending : parsed' = [parsed EXCEPT ![p] = response]
    BY RecordedProbe DEF ReplyInv
  <2>2. p \in Probe /\ status[p] = "NO_RESPONSE"
    BY DEF Pending
  <2>3. pc = "match"
    BY DEF RecordReply
  <2>4. parsed[p] = first_match[p] /\ first_match[p] = NULL
    BY <2>2, <2>3 DEF ReplyInv, FirstReplyWins, Collecting
  <2>5. QED
    BY <2>1, <2>2, <2>4
<1>3. \A q \in Probe : parsed'[q] = IF q = p THEN response ELSE parsed[q]
  BY <1>2 DEF ReplyInv, TypeOK
<1>4. \A q, r \in Probe :
        /\ parsed'[q] # NULL /\ parsed'[r] # NULL
        /\ parsed'[q].block = parsed'[r].block /\ parsed'[q].block # NULL
        => q = r
  BY <1>1, <1>3 DEF Ownership
<1>5. ScanBlocks' = ScanBlocks \cup ({response.block} \ {NULL})
  <2> DEFINE R == {parsed[q].block : q \in {r \in Probe : parsed[r] # NULL}}
  <2>1. {r \in Probe : parsed'[r] # NULL} = {r \in Probe : parsed[r] # NULL} \cup {p}
    BY <1>1, <1>2, <1>3
  <2>2. R' = R \cup {response.block}
    BY <1>2, <1>3, <2>1
  <2>3. /\ {data'[q] : q \in Probe} = {data[q] : q \in Probe}
        /\ {payload'[q] : q \in IcmpProbe} = {payload[q] : q \in IcmpProbe}
    BY <1>1
  <2>4. QED
    BY <2>2, <2>3 DEF ScanBlocks
<1>6. heap = ScanBlocks \cup ({response.block} \ {NULL})
  BY <1>1 DEF Ownership, Exited
<1>7. heap' = ScanBlocks'
  BY <1>1, <1>5, <1>6
<1>8. QED
  BY <1>1, <1>4, <1>7 DEF Ownership

(* Discarding frees the response's block, which no probe shares.           *)
LEMMA DiscardOwnership ==
  ASSUME ReplyInv, Ownership, DiscardReply
  PROVE  Ownership'
<1>1. /\ UNCHANGED <<data, payload, parsed>> /\ response' = NULL
      /\ response # NULL /\ ~Exited /\ ~Exited'
      /\ heap' = heap \ {response.block}
  BY DEF DiscardReply, CollectUnchanged, packets, ReplyInv, ReplyProgress,
     Exited
<1>2. heap = ScanBlocks \cup ({response.block} \ {NULL})
  BY <1>1 DEF Ownership, Exited
<1>3. response.block \in ({"reply"} \X Buffer) \cup {NULL}
  BY <1>1 DEF ReplyInv, TypeOK, Response
<1>4. response.block \notin ScanBlocks
  <2>1. NULL \notin ScanBlocks
    BY DEF ScanBlocks
  <2>2. ASSUME response.block # NULL
        PROVE  /\ \A p \in Probe : data[p] # response.block
               /\ \A p \in IcmpProbe : payload[p] # response.block
               /\ \A p \in Probe : parsed[p] # NULL
                                   => parsed[p].block # response.block
    <3>1. PICK b \in Buffer : response.block = <<"reply", b>>
      BY <1>3, <2>2
    <3>2. /\ \A p \in Probe : PacketBlock(p) # response.block
          /\ \A p \in IcmpProbe : PayloadBlock(p) # response.block
      BY <3>1 DEF PacketBlock, PayloadBlock
    <3>3. QED
      BY <1>1, <2>2, <3>2 DEF Ownership
  <2>3. QED
    BY <2>1, <2>2 DEF ScanBlocks
<1>5. heap' = ScanBlocks
  BY <1>1, <1>2, <1>4
<1>6. ScanBlocks' = ScanBlocks
  BY <1>1 DEF ScanBlocks
<1>7. QED
  BY <1>1, <1>5, <1>6 DEF Ownership

(* free_scan releases every block: the local response owns none by then.   *)
LEMMA CleanupOwnership ==
  ASSUME ReplyInv, Ownership, Cleanup
  PROVE  Ownership' /\ heap' = {}
<1>1. /\ pc = "cleanup" /\ pc' = "done" /\ heap' = heap \ ScanBlocks
      /\ UNCHANGED response
      /\ \A p \in Probe : data'[p] = NULL /\ parsed'[p] = NULL
      /\ \A p \in IcmpProbe : payload'[p] = NULL
  BY DEF Cleanup
<1>2. response = NULL /\ ~Exited
  BY <1>1 DEF ReplyInv, ReplyProgress, Exited
<1>3. heap = ScanBlocks
  BY <1>2 DEF Ownership, Exited
<1>4. heap' = {}
  BY <1>1, <1>3
<1>5. ScanBlocks' = {}
  BY <1>1 DEF ScanBlocks
<1>6. QED
  BY <1>1, <1>2, <1>4, <1>5 DEF Ownership

LEMMA OwnershipKept ==
  ASSUME ReplyInv, Ownership, [Next]_vars
  PROVE  Ownership'
<1>1. CASE PrepareProbes
  BY <1>1, PrepareOwnership DEF ReplyInv
<1>2. CASE ReceiveParsed \/ RecordReply \/ DiscardReply \/ Cleanup
  BY <1>2, ReceiveOwnership, RecordOwnership, DiscardOwnership, CleanupOwnership
<1>3. CASE OpenNetwork \/ SendProbes \/ CollectStart \/ CollectCheck
             \/ CollectClockFails \/ ReceiveNothing \/ ReceiveIgnored
             \/ ReceiveFails \/ GenerateAndMatch \/ Environment
             \/ Terminated \/ UNCHANGED vars
  <2>1. UNCHANGED <<data, payload, parsed, response, heap>>
    BY <1>3 DEF OpenNetwork, RefuseRange, OpenSocket, SetHeaderIncluded,
       OpenCapture, ConfigureCapture, NetworkUnchanged, SendProbes, SendProbe,
       SendFails, SendUnchanged, CollectStart, CollectCheck,
       CollectClockFails, ReceiveNothing, ReceiveIgnored, ReceiveFails,
       CollectUnchanged, GenerateAndMatch, Environment, TargetReplies,
       ForeignArrives, Tick, OutsideUnchanged, Terminated, vars, packets,
       results
  <2>2. Exited => Exited'
    BY <1>3 DEF Exited, OpenNetwork, RefuseRange, OpenSocket,
       SetHeaderIncluded, OpenCapture, ConfigureCapture, SendProbes, SendProbe,
       SendFails, CollectStart, CollectCheck, CollectClockFails,
       ReceiveNothing, ReceiveIgnored, ReceiveFails, GenerateAndMatch,
       Environment, TargetReplies, ForeignArrives, Tick, OutsideUnchanged,
       Terminated, vars
  <2>3. QED
    BY <2>1, <2>2, QuietOwnership
<1>4. QED
  BY <1>1, <1>2, <1>3 DEF Next, Program, CollectResponses

LEMMA ReleasedKept ==
  ASSUME ReleaseInv, [Next]_vars
  PROVE  ReleasedAtEnd'
<1>1. NetworkProgress'
  BY NetworkReleased DEF ReleaseInv, ReplyInv
<1>2. ASSUME pc' = "done" PROVE heap' = {}
  <2>1. CASE Cleanup
    BY <2>1, CleanupOwnership DEF ReleaseInv
  <2>2. CASE ~Cleanup
    <3>1. UNCHANGED <<pc, heap>>
      BY <1>2, <2>2 DEF Next, Program, OpenNetwork, RefuseRange, OpenSocket,
         SetHeaderIncluded, OpenCapture, ConfigureCapture, NetworkFails,
         PrepareProbes, PrepareSequence, PrepareIE, PrepareECN, PrepareT,
         PrepareU1, Exit, SendProbes, SendProbe, SendFails, CollectResponses,
         CollectStart, CollectCheck, CollectClockFails, ReceiveNothing,
         ReceiveIgnored, ReceiveFails, ReceiveParsed, RecordReply,
         DiscardReply, GenerateAndMatch, Environment, TargetReplies,
         ForeignArrives, Tick, OutsideUnchanged, Terminated, vars
    <3>2. QED
      BY <1>2, <3>1 DEF ReleaseInv, ReleasedAtEnd
  <2>3. QED
    BY <2>1, <2>2
<1>3. QED
  BY <1>1, <1>2 DEF NetworkProgress, ReleasedAtEnd

LEMMA ReleaseInvariant == Spec => []ReleaseInv
<1>1. Init => NetworkProgress /\ Ownership /\ ReleasedAtEnd
  BY DEF Init, NetworkProgress, NetworkSteps, Ownership, ReleasedAtEnd,
     ScanBlocks
<1>2. ReleaseInv /\ [Next]_vars
        => NetworkProgress' /\ Ownership' /\ ReleasedAtEnd'
  BY NetworkReleased, OwnershipKept, ReleasedKept DEF ReleaseInv, ReplyInv
<1>3. QED
  BY <1>1, <1>2, ReplyInvariant, PTL DEF Spec, ReleaseInv

(* Whatever failed on the way, when main returns nothing of the scan is    *)
(* open or allocated (src/src/main.c:167-175, src/src/scan.c:342-356).     *)
THEOREM NothingLeftOpen == Spec => []ReleasedAtEnd
BY ReleaseInvariant, PTL DEF ReleaseInv

(* No two of packet, payload, recorded reply and local response share a    *)
(* block, and exactly the blocks they hold are allocated                   *)
(* (src/src/scan.c:303-326, src/src/probe_matcher.c:130-134).              *)
THEOREM HeapIsOwned == Spec => []Ownership
BY ReleaseInvariant, PTL DEF ReleaseInv

-----------------------------------------------------------------------------
(* From pointers to owners.                                                *)

(* Blocks of different kinds, and packets and payloads of different        *)
(* probes, are different.                                                  *)
LEMMA BlocksDiffer ==
  /\ \A p, q \in Probe : PacketBlock(p) = PacketBlock(q) => p = q
  /\ \A p, q \in IcmpProbe : PayloadBlock(p) = PayloadBlock(q) => p = q
  /\ \A p \in Probe, q \in IcmpProbe : PacketBlock(p) # PayloadBlock(q)
  /\ \A p \in Probe, x \in {"reply"} \X Buffer : PacketBlock(p) # x
  /\ \A p \in IcmpProbe, x \in {"reply"} \X Buffer : PayloadBlock(p) # x
  /\ \A p \in Probe : PacketBlock(p) # NULL
  /\ \A p \in IcmpProbe : PayloadBlock(p) # NULL
BY BlocksTyped, NullAssumption DEF PacketBlock, PayloadBlock

(* An owner is one of the four kinds of pointer.                           *)
LEMMA OwnersAre ==
  ASSUME NEW b, NEW x
  PROVE  x \in Owners(b) <=>
           \/ \E p \in Probe : x = <<"data", p>> /\ data[p] = b
           \/ \E p \in IcmpProbe : x = <<"payload", p>> /\ payload[p] = b
           \/ \E p \in Probe : /\ x = <<"parsed", p>> /\ parsed[p] # NULL
                               /\ parsed[p].block = b
           \/ x = <<"response", response>> /\ response # NULL
              /\ response.block = b
BY DEF Owners

(* Two owners of one block are the same pointer.                           *)
LEMMA OwnersAgree ==
  ASSUME TypeOK, Ownership, NEW b \in Block,
         NEW x \in Owners(b), NEW y \in Owners(b)
  PROVE  x = y
<1> DEFINE Data(z)    == \E p \in Probe : z = <<"data", p>> /\ data[p] = b
           Payload(z) == \E p \in IcmpProbe : z = <<"payload", p>> /\ payload[p] = b
           Reply(z)   == \E p \in Probe : /\ z = <<"parsed", p>>
                                          /\ parsed[p] # NULL
                                          /\ parsed[p].block = b
           Local(z)   == z = <<"response", response>> /\ response # NULL
                         /\ response.block = b
<1>0. b # NULL
  BY NullAssumption
<1>1. /\ Data(x) \/ Payload(x) \/ Reply(x) \/ Local(x)
      /\ Data(y) \/ Payload(y) \/ Reply(y) \/ Local(y)
  BY OwnersAre
<1>2. ASSUME NEW z, Data(z)
      PROVE  \E p \in Probe : z = <<"data", p>> /\ b = PacketBlock(p)
  BY <1>0, <1>2 DEF Ownership
<1>3. ASSUME NEW z, Payload(z)
      PROVE  \E p \in IcmpProbe : z = <<"payload", p>> /\ b = PayloadBlock(p)
  BY <1>0, <1>3 DEF Ownership
<1>4. ASSUME NEW z, Reply(z) \/ Local(z)
      PROVE  b \in {"reply"} \X Buffer
  <2>1. \A r \in Response : r.block = b => b \in {"reply"} \X Buffer
    BY <1>0 DEF Response
  <2>2. \A p \in Probe : parsed[p] # NULL => parsed[p] \in Response
    BY DEF TypeOK
  <2>3. response # NULL => response \in Response
    BY DEF TypeOK
  <2>4. QED
    BY <1>4, <2>1, <2>2, <2>3
<1>5. CASE Data(x)
  <2>1. Data(y)
    BY <1>1, <1>2, <1>3, <1>4, <1>5, BlocksDiffer
  <2>2. QED
    BY <1>2, <1>5, <2>1, BlocksDiffer
<1>6. CASE Payload(x)
  <2>1. Payload(y)
    BY <1>1, <1>2, <1>3, <1>4, <1>6, BlocksDiffer
  <2>2. QED
    BY <1>3, <1>6, <2>1, BlocksDiffer
<1>7. CASE Reply(x)
  <2>1. Reply(y) \/ Local(y)
    BY <1>1, <1>2, <1>3, <1>4, <1>7, BlocksDiffer
  <2>2. ~Local(y)
    BY <1>0, <1>7 DEF Ownership
  <2>3. QED
    BY <1>0, <1>7, <2>1, <2>2 DEF Ownership
<1>8. CASE Local(x)
  <2>1. Reply(y) \/ Local(y)
    BY <1>1, <1>2, <1>3, <1>4, <1>8, BlocksDiffer
  <2>2. ~Reply(y)
    BY <1>0, <1>8 DEF Ownership
  <2>3. QED
    BY <1>8, <2>1, <2>2
<1>9. QED
  BY <1>1, <1>5, <1>6, <1>7, <1>8

(* Every block that is pointed to is allocated, and the other way round.   *)
LEMMA OwnedIsAllocated ==
  ASSUME Ownership, ~Exited, NEW b, b # NULL
  PROVE  b \in heap <=> \E x : x \in Owners(b)
<1>1. heap = ScanBlocks \cup ResponseBlocks
  BY DEF Ownership, Exited, ResponseBlocks
<1>2. b \in ScanBlocks \cup ResponseBlocks <=>
        \/ \E p \in Probe : data[p] = b
        \/ \E p \in IcmpProbe : payload[p] = b
        \/ \E p \in Probe : parsed[p] # NULL /\ parsed[p].block = b
        \/ response # NULL /\ response.block = b
  BY DEF ScanBlocks, ResponseBlocks
<1>3. QED
  BY <1>1, <1>2, OwnersAre

(* No block leaks, none is freed twice, no pointer dangles                 *)
(* (src/src/scan.c:303-326,342-356; src/src/probe_matcher.c:130-134).      *)
THEOREM EveryBlockOwnedOnce == Spec => []OneOwner
<1>1. ReleaseInv => OneOwner
  <2> SUFFICES ASSUME ReleaseInv, ~Exited PROVE
        /\ \A b \in heap : Cardinality(Owners(b)) = 1
        /\ \A b \in Block \ heap : Owners(b) = {}
    BY DEF OneOwner, Exited, Ended
  <2>1. TypeOK /\ Ownership /\ heap \subseteq Block
    BY DEF ReleaseInv, ReplyInv, TypeOK
  <2>2. ASSUME NEW b \in heap PROVE Cardinality(Owners(b)) = 1
    <3>1. b \in Block /\ b # NULL
      BY <2>1, NullAssumption
    <3>2. PICK x : x \in Owners(b)
      BY <2>1, <3>1, OwnedIsAllocated
    <3>3. Owners(b) = {x}
      BY <2>1, <3>1, <3>2, OwnersAgree
    <3>4. QED
      BY <3>3, FS_Singleton
  <2>3. ASSUME NEW b \in Block \ heap PROVE Owners(b) = {}
    BY <2>1, NullAssumption, OwnedIsAllocated
  <2>4. QED
    BY <2>2, <2>3
<1>2. QED
  BY <1>1, ReleaseInvariant, PTL
=============================================================================
