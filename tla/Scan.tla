-------------------------------- MODULE Scan --------------------------------
(***************************************************************************)
(* One run of the program up to the fingerprint: open the network, build   *)
(* the sixteen packets, send them, collect the replies, clean up.          *)
(*                                                                         *)
(*   src/src/main.c            the sequence of phases and the cleanup      *)
(*   src/src/scan.c            preparation, sending, collecting, freeing   *)
(*   src/src/network.c         network_init, send_packet, receive_packet   *)
(*   src/src/probe_matcher.c   match_probe_responses                       *)
(*   src/src/packet.c          ownership of what parse_packet allocates    *)
(*                                                                         *)
(* The program is one thread.  Around it the network answers, late, twice, *)
(* out of order or not at all; strangers send packets that pass the        *)
(* capture filter; system calls and allocations fail; and time passes.     *)
(*                                                                         *)
(* A heap block is a pair <<kind, tag>>: the packet of a probe, the        *)
(* payload of an echo request, or what parse_packet allocated for a reply. *)
(* The specification arrays of prepare_sequence_probes, prepare_ie_probes  *)
(* and prepare_t_probes live and die inside one action and leave no trace. *)
(***************************************************************************)
EXTENDS Probes, Sequences, FiniteSets

CONSTANTS
  NULL,          \* the null pointer, and a zeroed struct parsed_info
  Configs,       \* the scan configurations a run may be given
  Answering,     \* the probes the target may answer
  Foreign,       \* headers of packets sent by somebody else
  Buffer,        \* addresses the heap can give to a parsed reply
  Timeout,       \* receive_timeout, in clock ticks
  MaxSendTicks,  \* bound: ticks that may pass while probes are being sent
  MaxReplies,    \* bound: replies the target sends, duplicates included
  InOrder,       \* bound: TRUE if it answers once each, in table order
  MaxBuffered    \* bound: packets the capture buffer holds

ASSUME ScanAssumption ==
  /\ Configs \subseteq Config
  /\ Answering \subseteq Probe
  /\ Timeout \in Nat /\ MaxSendTicks \in Nat
  /\ MaxReplies \in Nat /\ MaxBuffered \in Nat
  /\ InOrder \in BOOLEAN

VARIABLES
  pc,             \* where main is
  cfg,            \* struct scan_config, fixed for the run
  sock,           \* net.send_socket_fd: "open" or "closed"
  pcap,           \* net.pcap_handle: "open" or "closed"
  network_ready,  \* main's flag: cleanup must close the network
  data,           \* scan.packets[i].data
  payload,        \* payload of results[IE1] and results[IE2]
  status,         \* scan.results[i].status
  sent_at,        \* scan.results[i].sent_at
  parsed,         \* scan.results[i].parsed_response
  sent,           \* how many probes send_probes has sent
  started, pending_count, matched_count,  \* locals of collect_responses
  response,       \* collect_responses' local struct parsed_info
  exit_status,    \* main's exit status
  heap,           \* allocated blocks
  capture,        \* packets the kernel has buffered for pcap_next_ex
  replies,        \* replies the target has sent so far
  clock,          \* CLOCK_MONOTONIC
  first_match     \* history: the first reply read that matches each probe

network == <<sock, pcap, network_ready>>
packets == <<data, payload>>
results == <<status, sent_at, parsed>>
collect == <<started, pending_count, matched_count>>
outside == <<capture, replies, clock>>
vars == <<pc, cfg, network, packets, results, sent, collect, response,
          exit_status, heap, outside, first_match>>

-----------------------------------------------------------------------------
(* The order in which send_probes sends: the sequence probes, the two echo *)
(* requests, ECN, T2 to T7, U1.                                            *)
SendCount == 16

SendOrder == [i \in 1 .. SendCount |->
                CASE i = 7 -> IE1 [] i = 8 -> IE2 [] i = 9 -> ECN
                  [] OTHER -> i - 1]

Collecting == {"loop", "receive", "match"}
Ended      == {"done", "exit_in_spec", "exit_in_construct"}

PacketBlock(p)  == <<"packet", p>>
PayloadBlock(p) == <<"payload", p>>
ReplyBlock(b)   == <<"reply", b>>

Block == ({"packet"} \X Probe) \cup ({"payload"} \X IcmpProbe)
           \cup ({"reply"} \X Buffer)

Init ==
  /\ pc = "network_init"
  /\ cfg \in Configs
  /\ sock = "closed" /\ pcap = "closed" /\ network_ready = FALSE
  /\ data = [p \in Probe |-> NULL]
  /\ payload = [p \in IcmpProbe |-> NULL]
  /\ status = [p \in Probe |-> "NOT_SENT"]
  /\ sent_at = [p \in Probe |-> 0]
  /\ parsed = [p \in Probe |-> NULL]
  /\ sent = 0
  /\ started = 0 /\ pending_count = 0 /\ matched_count = 0
  /\ response = NULL
  /\ exit_status = "failure"
  /\ heap = {}
  /\ capture = <<>> /\ replies = 0 /\ clock = 0
  /\ first_match = [p \in Probe |-> NULL]

-----------------------------------------------------------------------------
(* network_init.  Each failure undoes what the earlier steps acquired and  *)
(* makes main go to cleanup with network_ready still false.                *)

NetworkUnchanged == UNCHANGED <<cfg, packets, results, sent, collect, response,
                                exit_status, heap, outside, first_match>>

NetworkFails == /\ pc' = "cleanup"
                /\ sock' = "closed" /\ pcap' = "closed"
                /\ UNCHANGED network_ready

RefuseRange ==
  /\ pc = "network_init"
  /\ ~network_init_accepts(cfg)
  /\ NetworkFails
  /\ NetworkUnchanged

OpenSocket ==
  /\ pc = "network_init"
  /\ network_init_accepts(cfg)
  /\ \/ pc' = "setsockopt" /\ sock' = "open" /\ UNCHANGED <<pcap, network_ready>>
     \/ NetworkFails
  /\ NetworkUnchanged

SetHeaderIncluded ==
  /\ pc = "setsockopt"
  /\ \/ pc' = "pcap_open_live" /\ UNCHANGED network
     \/ NetworkFails
  /\ NetworkUnchanged

OpenCapture ==
  /\ pc = "pcap_open_live"
  /\ \/ pc' = "pcap_setfilter" /\ pcap' = "open"
        /\ UNCHANGED <<sock, network_ready>>
     \/ NetworkFails
  /\ NetworkUnchanged

(* Mutant: a capture that cannot be configured is closed, its socket not.  *)
ConfigureCapture_keeps_socket ==
  /\ pc = "pcap_setfilter"
  /\ \/ pc' = "prepare_seq" /\ network_ready' = TRUE /\ UNCHANGED <<sock, pcap>>
     \/ pc' = "cleanup" /\ pcap' = "closed" /\ UNCHANGED <<sock, network_ready>>
  /\ NetworkUnchanged

(* Writing, compiling and installing the filter, and pcap_setnonblock: any *)
(* of the four may fail, and all four fail the same way.                   *)
ConfigureCapture ==
  /\ pc = "pcap_setfilter"
  /\ \/ pc' = "prepare_seq" /\ network_ready' = TRUE /\ UNCHANGED <<sock, pcap>>
     \/ NetworkFails
  /\ NetworkUnchanged

-----------------------------------------------------------------------------
(* prepare_probes: one action per group.                                   *)

PrepareUnchanged == UNCHANGED <<cfg, network, results, sent, collect, response,
                                exit_status, outside, first_match>>

(* The packets of the probes in S are built, with blocks New besides.      *)
Build(S, New) ==
  /\ data' = [p \in Probe |-> IF p \in S THEN PacketBlock(p) ELSE data[p]]
  /\ heap' = heap \cup {PacketBlock(p) : p \in S} \cup New

(* The specification builders call exit when they cannot allocate          *)
(* (ICMP_echo_probe_spec does not even test its own array), and            *)
(* construct_TCP_packet calls exit when it cannot allocate or convert.     *)
Exit == /\ pc' \in {"exit_in_spec", "exit_in_construct"}
        /\ UNCHANGED <<packets, heap>>

PrepareSequence ==
  /\ pc = "prepare_seq"
  /\ \/ pc' = "prepare_ie" /\ Build(SeqProbe, {}) /\ UNCHANGED payload
     \/ Exit
  /\ PrepareUnchanged

(* The payloads move from the specification array to the results before    *)
(* any packet is built, so a packet that cannot be built leaves them owned.*)
(* construct_ICMP_packet would exit for an address it cannot convert; the  *)
(* sequence probes were built with the same two.                           *)
PrepareIE ==
  /\ pc = "prepare_ie"
  /\ \/ /\ \E built \in {{}, {IE1}, {IE1, IE2}} :
             /\ Build(built, {PayloadBlock(p) : p \in IcmpProbe})
             /\ pc' = IF built = IcmpProbe THEN "prepare_ecn" ELSE "cleanup"
        /\ payload' = [p \in IcmpProbe |-> PayloadBlock(p)]
     \/ /\ pc' = "exit_in_spec"
        /\ UNCHANGED <<packets, heap>>
  /\ PrepareUnchanged

PrepareECN ==
  /\ pc = "prepare_ecn"
  /\ \/ pc' = "prepare_t" /\ Build({ECN}, {}) /\ UNCHANGED payload
     \/ pc' = "exit_in_construct" /\ UNCHANGED <<packets, heap>>
  /\ PrepareUnchanged

PrepareT ==
  /\ pc = "prepare_t"
  /\ \/ pc' = "prepare_u1" /\ Build(TProbe, {}) /\ UNCHANGED payload
     \/ Exit
  /\ PrepareUnchanged

(* construct_UDP_packet returns NULL instead of exiting.                   *)
PrepareU1 ==
  /\ pc = "prepare_u1"
  /\ \/ pc' = "send" /\ Build({U1}, {}) /\ UNCHANGED payload
     \/ pc' = "cleanup" /\ UNCHANGED <<packets, heap>>
  /\ PrepareUnchanged

-----------------------------------------------------------------------------
(* send_probes and send_one_probe.                                         *)

ProbeToSend == SendOrder[sent + 1]

SendUnchanged == UNCHANGED <<cfg, network, packets, parsed, collect, response,
                             exit_status, heap, outside, first_match>>

(* Mutant: the send time is only taken for the probes before T2.           *)
SendProbe_untimed ==
  /\ pc = "send"
  /\ sent_at' = IF sent < 9 THEN [sent_at EXCEPT ![ProbeToSend] = clock]
                ELSE sent_at
  /\ status' = [status EXCEPT ![ProbeToSend] = "NO_RESPONSE"]
  /\ sent' = sent + 1
  /\ pc' = IF sent' = SendCount THEN "collect" ELSE "send"
  /\ SendUnchanged

(* Mutant: the loop runs one probe too far.                                *)
SendProbe_one_too_many ==
  /\ pc = "send"
  /\ sent_at' = [sent_at EXCEPT ![ProbeToSend] = clock]
  /\ status' = [status EXCEPT ![ProbeToSend] = "NO_RESPONSE"]
  /\ sent' = sent + 1
  /\ pc' = IF sent' > SendCount THEN "collect" ELSE "send"
  /\ SendUnchanged

(* The send time is taken before sendto (retried as long as it is          *)
(* interrupted), the status set only after it.                             *)
SendProbe ==
  /\ pc = "send"
  /\ sent_at' = [sent_at EXCEPT ![ProbeToSend] = clock]
  /\ status' = [status EXCEPT ![ProbeToSend] = "NO_RESPONSE"]
  /\ sent' = sent + 1
  /\ pc' = IF sent' = SendCount THEN "collect" ELSE "send"
  /\ SendUnchanged

(* clock_gettime fails, or sendto fails or sends less than the packet.     *)
SendFails ==
  /\ pc = "send"
  /\ \/ UNCHANGED sent_at
     \/ sent_at' = [sent_at EXCEPT ![ProbeToSend] = clock]
  /\ pc' = "cleanup"
  /\ UNCHANGED <<status, sent>>
  /\ SendUnchanged

-----------------------------------------------------------------------------
(* collect_responses.                                                      *)

CollectUnchanged == UNCHANGED <<cfg, network, packets, sent_at, sent,
                                exit_status, replies, clock>>

Pending == {p \in Probe : status[p] = "NO_RESPONSE"}

(* Mutant: the time limit runs from the first probe sent.                  *)
CollectStart_from_first_probe ==
  /\ pc = "collect"
  /\ \/ /\ started' = sent_at[SEQ1]
        /\ pending_count' = Cardinality(Pending)
        /\ matched_count' = 0
        /\ pc' = "loop"
     \/ pc' = "cleanup" /\ UNCHANGED collect
  /\ UNCHANGED <<status, parsed, response, heap, capture, first_match>>
  /\ CollectUnchanged

CollectStart ==
  /\ pc = "collect"
  /\ \/ /\ started' = clock
        /\ pending_count' = Cardinality(Pending)
        /\ matched_count' = 0
        /\ pc' = "loop"
     \/ pc' = "cleanup" /\ UNCHANGED collect     \* no source address, no clock
  /\ UNCHANGED <<status, parsed, response, heap, capture, first_match>>
  /\ CollectUnchanged

(* The top of the loop: done, out of time, clock failure, or one more      *)
(* attempt to receive.                                                     *)
CollectCheck ==
  /\ pc = "loop"
  /\ pc' \in IF matched_count >= pending_count \/ clock - started >= Timeout
             THEN {"fingerprint"} ELSE {"receive"}
  /\ UNCHANGED <<status, parsed, collect, response, heap, capture, first_match>>
  /\ CollectUnchanged

CollectClockFails ==
  /\ pc = "loop" /\ matched_count < pending_count
  /\ pc' = "cleanup"
  /\ UNCHANGED <<status, parsed, collect, response, heap, capture, first_match>>
  /\ CollectUnchanged

(* pcap_next_ex has nothing to hand over yet; the loop naps and retries.   *)
ReceiveNothing ==
  /\ pc = "receive"
  /\ pc' = "loop"
  /\ UNCHANGED <<status, parsed, collect, response, heap, capture, first_match>>
  /\ CollectUnchanged

(* parse_packet ignores the packet: also reported as 0.                    *)
ReceiveIgnored ==
  /\ pc = "receive"
  /\ capture # <<>> /\ ~Head(capture).parses
  /\ capture' = Tail(capture)
  /\ pc' = "loop"
  /\ UNCHANGED <<status, parsed, collect, response, heap, first_match>>
  /\ CollectUnchanged

(* A capture error, an unsupported link type, or an allocation failure in  *)
(* parse_packet, which then keeps nothing allocated.                       *)
ReceiveFails ==
  /\ pc = "receive"
  /\ pc' = "cleanup"
  /\ UNCHANGED <<status, parsed, collect, response, heap, capture, first_match>>
  /\ CollectUnchanged

(* parse_packet succeeds.  Options and payload, when the packet has any,   *)
(* are copied to the heap and owned by the local response.                 *)
Parsed(pkt, block) ==
  [header |-> pkt.header, serial |-> pkt.serial, block |-> block]

ReceiveParsed ==
  /\ pc = "receive"
  /\ capture # <<>> /\ Head(capture).parses
  /\ \/ response' = Parsed(Head(capture), NULL) /\ UNCHANGED heap
     \/ /\ \E b \in Buffer : ReplyBlock(b) \notin heap
        /\ LET b == CHOOSE b \in Buffer : ReplyBlock(b) \notin heap
           IN  /\ response' = Parsed(Head(capture), ReplyBlock(b))
               /\ heap' = heap \cup {ReplyBlock(b)}
  /\ capture' = Tail(capture)
  /\ pc' = "match"
  /\ UNCHANGED <<status, parsed, collect, first_match>>
  /\ CollectUnchanged

-----------------------------------------------------------------------------
(* match_probe_responses for the one response, and the free_parsed_info    *)
(* that follows it.                                                        *)

Matches(p) == response_matches_probe(cfg, p, response.header)

(* Mutant: slots that already hold a reply are candidates too.             *)
Candidates_answered_too == {p \in Probe : status[p] # "NOT_SENT" /\ Matches(p)}

Candidates == {p \in Pending : Matches(p)}

RememberFirst ==
  first_match' = [p \in Probe |-> IF first_match[p] = NULL /\ Matches(p)
                                  THEN response ELSE first_match[p]]

(* Mutant: the matched response is not cleared, so the free that follows   *)
(* releases what the probe now points to.                                  *)
RecordReply_not_cleared ==
  /\ pc = "match"
  /\ \E p \in Candidates :
       /\ \A q \in Candidates : p <= q
       /\ parsed' = [parsed EXCEPT ![p] = response]
       /\ status' = [status EXCEPT ![p] = "RECEIVED"]
  /\ response' = NULL
  /\ heap' = heap \ {response.block}
  /\ matched_count' = matched_count + 1
  /\ RememberFirst
  /\ pc' = "loop"
  /\ UNCHANGED <<started, pending_count, capture>>
  /\ CollectUnchanged

(* Mutant: a recorded reply is not counted.                                *)
RecordReply_not_counted ==
  /\ pc = "match"
  /\ \E p \in Candidates :
       /\ \A q \in Candidates : p <= q
       /\ parsed' = [parsed EXCEPT ![p] = response]
       /\ status' = [status EXCEPT ![p] = "RECEIVED"]
  /\ response' = NULL
  /\ RememberFirst
  /\ pc' = "loop"
  /\ UNCHANGED <<collect, heap, capture>>
  /\ CollectUnchanged

(* The first pending slot that matches takes the response over; the local  *)
(* copy is zeroed, which makes the free a no-op.                           *)
RecordReply ==
  /\ pc = "match"
  /\ \E p \in Candidates :
       /\ \A q \in Candidates : p <= q
       /\ parsed' = [parsed EXCEPT ![p] = response]
       /\ status' = [status EXCEPT ![p] = "RECEIVED"]
  /\ response' = NULL
  /\ matched_count' = matched_count + 1
  /\ RememberFirst
  /\ pc' = "loop"
  /\ UNCHANGED <<started, pending_count, heap, capture>>
  /\ CollectUnchanged

(* Mutant: every reply counts as a match.                                  *)
DiscardReply_counted ==
  /\ pc = "match"
  /\ Candidates = {}
  /\ heap' = heap \ {response.block}
  /\ response' = NULL
  /\ matched_count' = matched_count + 1
  /\ RememberFirst
  /\ pc' = "loop"
  /\ UNCHANGED <<status, parsed, started, pending_count, capture>>
  /\ CollectUnchanged

(* Mutant: a packet of somebody else restarts the time limit.              *)
DiscardReply_restarts_timer ==
  /\ pc = "match"
  /\ Candidates = {}
  /\ heap' = heap \ {response.block}
  /\ response' = NULL
  /\ started' = clock
  /\ RememberFirst
  /\ pc' = "loop"
  /\ UNCHANGED <<status, parsed, pending_count, matched_count, capture>>
  /\ CollectUnchanged

(* No slot matches: the response is freed.                                 *)
DiscardReply ==
  /\ pc = "match"
  /\ Candidates = {}
  /\ heap' = heap \ {response.block}
  /\ response' = NULL
  /\ RememberFirst
  /\ pc' = "loop"
  /\ UNCHANGED <<status, parsed, collect, capture>>
  /\ CollectUnchanged

-----------------------------------------------------------------------------
(* The rest of main.  What the fingerprint and the database search do is   *)
(* the business of other modules; here they succeed or fail.               *)

GenerateAndMatch ==
  /\ pc = "fingerprint"
  /\ exit_status' \in {"success", "failure"}
  /\ pc' = "cleanup"
  /\ UNCHANGED <<cfg, network, packets, results, sent, collect, response, heap,
                 outside, first_match>>

ScanBlocks == ({data[p] : p \in Probe} \cup {payload[p] : p \in IcmpProbe}
                \cup {parsed[p].block : p \in {q \in Probe : parsed[q] # NULL}})
              \ {NULL}

(* free_scan, then the network if it was ready.                            *)
Cleanup ==
  /\ pc = "cleanup"
  /\ heap' = heap \ ScanBlocks
  /\ data' = [p \in Probe |-> NULL]
  /\ payload' = [p \in IcmpProbe |-> NULL]
  /\ status' = [p \in Probe |-> "NOT_SENT"]
  /\ sent_at' = [p \in Probe |-> 0]
  /\ parsed' = [p \in Probe |-> NULL]
  /\ IF network_ready THEN sock' = "closed" /\ pcap' = "closed"
                      ELSE UNCHANGED <<sock, pcap>>
  /\ pc' = "done"
  /\ UNCHANGED <<cfg, network_ready, sent, collect, response, exit_status,
                 outside, first_match>>

-----------------------------------------------------------------------------
(* Outside the program: the network, the kernel's buffer, and time.        *)

OutsideUnchanged == UNCHANGED <<pc, cfg, network, packets, results, sent,
                                collect, response, exit_status, heap,
                                first_match>>

Captured(header, serial, parses) ==
  /\ network_ready /\ pcap = "open"
  /\ Len(capture) < MaxBuffered
  /\ captures(cfg, header)
  /\ capture' = Append(capture, [header |-> header, serial |-> serial,
                                 parses |-> parses])

(* The target answers a probe it was sent, perhaps not for the first time. *)
TargetReplies ==
  /\ replies < MaxReplies
  /\ \E p \in Answering :
       /\ status[p] # "NOT_SENT"
       /\ InOrder => Cardinality({q \in Answering : q < p}) = replies
       /\ Captured(reply_to(packet(cfg, p)), replies + 1, TRUE)
  /\ replies' = replies + 1
  /\ UNCHANGED clock
  /\ OutsideUnchanged

(* A packet of somebody else, or one parse_packet will ignore.             *)
ForeignArrives ==
  /\ \E h \in Foreign, parses \in BOOLEAN : Captured(h, 0, parses)
  /\ UNCHANGED <<replies, clock>>
  /\ OutsideUnchanged

(* Time passes while probes are sent and while replies are awaited.        *)
Tick ==
  /\ \/ pc = "send" /\ clock < MaxSendTicks
     \/ pc \in Collecting /\ clock < MaxSendTicks + Timeout
  /\ clock' = clock + 1
  /\ UNCHANGED <<capture, replies>>
  /\ OutsideUnchanged

-----------------------------------------------------------------------------
OpenNetwork == RefuseRange \/ OpenSocket \/ SetHeaderIncluded \/ OpenCapture
                 \/ ConfigureCapture

PrepareProbes == PrepareSequence \/ PrepareIE \/ PrepareECN \/ PrepareT
                   \/ PrepareU1

SendProbes == SendProbe \/ SendFails

CollectResponses == CollectStart \/ CollectCheck \/ CollectClockFails
                      \/ ReceiveNothing \/ ReceiveIgnored \/ ReceiveFails
                      \/ ReceiveParsed \/ RecordReply \/ DiscardReply

Program == OpenNetwork \/ PrepareProbes \/ SendProbes \/ CollectResponses
             \/ GenerateAndMatch \/ Cleanup

Environment == TargetReplies \/ ForeignArrives \/ Tick

(* The process has ended.                                                  *)
Terminated == pc \in Ended /\ UNCHANGED vars

Next == Program \/ Environment \/ Terminated

Spec == Init /\ [][Next]_vars

(* The thread is scheduled and the clock moves.  Nothing is assumed of the *)
(* network, nor of how often a receive attempt comes back empty.           *)
Fairness == WF_vars(Program) /\ WF_vars(Tick)

FairSpec == Spec /\ Fairness

-----------------------------------------------------------------------------
(* Type correctness.                                                       *)

Header == Foreign \cup {reply_to(packet(c, p)) : c \in Configs, p \in Answering}

Response == [header : Header, serial : 0 .. MaxReplies,
             block : ({"reply"} \X Buffer) \cup {NULL}]

CapturedPacket == [header : Header, serial : 0 .. MaxReplies, parses : BOOLEAN]

ASSUME NullAssumption == NULL \notin Response /\ NULL \notin Block

Steps == {"network_init", "setsockopt", "pcap_open_live", "pcap_setfilter",
          "prepare_seq", "prepare_ie", "prepare_ecn", "prepare_t",
          "prepare_u1", "send", "collect", "fingerprint", "cleanup"}

(* Every variable has its type, and the index of send_probes stays inside  *)
(* the table (src/src/scan.c:229-265).                                     *)
TypeOK ==
  /\ pc \in Steps \cup Collecting \cup Ended
  /\ cfg \in Configs
  /\ sock \in {"open", "closed"} /\ pcap \in {"open", "closed"}
  /\ network_ready \in BOOLEAN
  /\ data \in [Probe -> Block \cup {NULL}]
  /\ payload \in [IcmpProbe -> Block \cup {NULL}]
  /\ status \in [Probe -> {"NOT_SENT", "NO_RESPONSE", "RECEIVED"}]
  /\ sent_at \in [Probe -> Nat]
  /\ parsed \in [Probe -> Response \cup {NULL}]
  /\ sent \in 0 .. SendCount
  /\ pc = "send" => sent < SendCount
  /\ started \in Nat /\ pending_count \in Nat /\ matched_count \in Nat
  /\ response \in Response \cup {NULL}
  /\ pc = "match" => response # NULL
  /\ exit_status \in {"success", "failure"}
  /\ heap \subseteq Block
  /\ capture \in Seq(CapturedPacket)
  /\ replies \in 0 .. MaxReplies
  /\ clock \in Nat
  /\ first_match \in [Probe -> Response \cup {NULL}]

-----------------------------------------------------------------------------
(* Safety.                                                                 *)

(* Every allocated block has exactly one owner, at every step and on every *)
(* failure path: nothing leaks, no two pointers share a block that free    *)
(* would release twice, and no pointer dangles                             *)
(* (src/src/scan.c:303-326,342-356; src/src/probe_matcher.c:130-134).      *)
Owners(b) == {<<"data", p>> : p \in {q \in Probe : data[q] = b}}
             \cup {<<"payload", p>> : p \in {q \in IcmpProbe : payload[q] = b}}
             \cup {<<"parsed", p>> : p \in {q \in Probe : /\ parsed[q] # NULL
                                                          /\ parsed[q].block = b}}
             \cup {<<"response", r>> : r \in {x \in {response} : /\ x # NULL
                                                                 /\ x.block = b}}

OneOwner ==
  pc \notin Ended \ {"done"} =>
    /\ \A b \in heap : Cardinality(Owners(b)) = 1
    /\ \A b \in Block \ heap : Owners(b) = {}

(* While collecting, the counter that ends the loop is the number of       *)
(* probes holding a reply, and never passes the number awaited: the loop   *)
(* cannot end early on a reply counted twice, nor wait for one already     *)
(* recorded (src/src/scan.c:278-291,326).                                  *)
MatchedIsReceived ==
  pc \in Collecting \cup {"fingerprint"} =>
    /\ matched_count = Cardinality({p \in Probe : status[p] = "RECEIVED"})
    /\ pending_count = matched_count + Cardinality(Pending)

(* Once every probe has its reply nothing more is received: the program    *)
(* does not sit out the time limit after the last answer                   *)
(* (src/src/scan.c:291).                                                   *)
NoReceiveWhenComplete == pc \in {"receive", "match"} => Pending # {}

(* Each probe keeps the first reply read that matches it: a duplicate, a   *)
(* late or a foreign packet never replaces it, and no matching reply that  *)
(* was read is thrown away (src/src/probe_matcher.c:120-139).              *)
FirstReplyWins ==
  pc \in Collecting \cup {"fingerprint"} =>
    \A p \in Probe : /\ parsed[p] = first_match[p]
                     /\ status[p] = "RECEIVED" <=> first_match[p] # NULL

(* When collection ends normally every probe has been sent, and a probe    *)
(* without a reply has been given the full time limit since it was sent    *)
(* (src/src/scan.c:284-301).                                               *)
NoReplyMeansTimeout ==
  pc = "fingerprint" =>
    \A p \in Probe : \/ status[p] = "RECEIVED"
                     \/ /\ status[p] = "NO_RESPONSE"
                        /\ clock >= sent_at[p] + Timeout

(* Send times never decrease along the order of sending, and are taken for *)
(* exactly the probes sent: the sequence tests divide by their differences *)
(* (src/src/scan.c:209-265, src/src/fingerprint.c:66-85).                  *)
SendTimesInOrder ==
  pc \notin {"cleanup"} \cup Ended =>
    \A i, j \in 1 .. SendCount :
      i < j => IF j <= sent
               THEN sent_at[SendOrder[i]] <= sent_at[SendOrder[j]]
               ELSE sent_at[SendOrder[j]] = 0 /\ status[SendOrder[j]] = "NOT_SENT"

(* However main ends, on success or after any failure, the socket and the  *)
(* capture handle are closed and no block of the scan is left              *)
(* (src/src/main.c:167-175, src/src/network.c:139-226).                    *)
ReleasedAtEnd ==
  pc = "done" => sock = "closed" /\ pcap = "closed" /\ heap = {}

(* construct_TCP_packet reports failure to its caller: "@return A pointer  *)
(* to the constructed raw TCP packet, or NULL on failure"                  *)
(* (src/src/packet.c:22).                                                  *)
ConstructionReportsFailure == pc # "exit_in_construct"

-----------------------------------------------------------------------------
(* What makes the statements above inductive.                              *)

NetworkSteps  == {"network_init", "setsockopt", "pcap_open_live",
                  "pcap_setfilter"}
PrepareSteps  == {"prepare_seq", "prepare_ie", "prepare_ecn", "prepare_t",
                  "prepare_u1"}
BeforeCollect == NetworkSteps \cup PrepareSteps \cup {"send", "collect"}

(* Until collection the status of a probe says whether send_probes has     *)
(* reached it; from then on every probe has been sent.                     *)
SendProgress ==
  /\ pc \in NetworkSteps \cup PrepareSteps => sent = 0
  /\ pc = "collect" => sent = SendCount
  /\ pc \in BeforeCollect =>
       \A j \in 1 .. SendCount :
         status[SendOrder[j]] = IF j <= sent THEN "NO_RESPONSE" ELSE "NOT_SENT"
  /\ pc \in Collecting \cup {"fingerprint"} =>
       \A p \in Probe : status[p] # "NOT_SENT"

(* Nothing is recorded before collection, and the local response is in use *)
(* only between receiving and matching.                                    *)
ReplyProgress ==
  /\ pc \in BeforeCollect =>
       \A p \in Probe : parsed[p] = NULL /\ first_match[p] = NULL
  /\ response # NULL <=> pc = "match"

(* After network_init has succeeded the flag is up; while it is down a     *)
(* cleanup finds nothing to close.                                         *)
NetworkProgress ==
  /\ network_ready \/ pc \in NetworkSteps \cup {"cleanup", "done"}
  /\ pc \in {"network_init", "cleanup"} /\ ~network_ready
       => sock = "closed" /\ pcap = "closed"
  /\ pc = "done" => sock = "closed" /\ pcap = "closed"

(* Pointer by pointer: what may be pointed to, by whom, and that exactly   *)
(* the blocks pointed to are allocated.                                    *)
Ownership ==
  /\ \A p \in Probe : data[p] \in {NULL, PacketBlock(p)}
  /\ \A p \in IcmpProbe : payload[p] \in {NULL, PayloadBlock(p)}
  /\ \A p, q \in Probe :
       /\ parsed[p] # NULL /\ parsed[q] # NULL
       /\ parsed[p].block = parsed[q].block /\ parsed[p].block # NULL
       => p = q
  /\ \A p \in Probe :
       parsed[p] # NULL /\ response # NULL /\ response.block # NULL
         => parsed[p].block # response.block
  /\ pc \in {"exit_in_spec", "exit_in_construct"}
     \/ heap = ScanBlocks
               \cup (IF response = NULL THEN {} ELSE {response.block} \ {NULL})

ScanInv == TypeOK /\ SendProgress /\ ReplyProgress /\ NetworkProgress /\ Ownership
             /\ MatchedIsReceived /\ FirstReplyWins

-----------------------------------------------------------------------------
(* The process ends, whatever the network does: packets of others, ignored *)
(* packets and empty receive attempts cannot keep collect_responses        *)
(* running past its time limit (src/src/scan.c:291-327).                   *)
Terminates == <>(pc \in Ended)
=============================================================================
