--------------------------- MODULE MCFingerprint ---------------------------
(***************************************************************************)
(* Scans for Fingerprint: every probe answered, or none, but for one or    *)
(* two probes with results of their own.                                   *)
(***************************************************************************)
EXTENDS Fingerprint

Base == [received |-> TRUE, seq |-> 100, ip_id |-> 7,
         tsval |-> 5, sent_at |-> 0, ttl |-> 60, df |-> TRUE,
         flags |-> {"S", "A"}, reserved |-> FALSE, urg |-> FALSE,
         options |-> "M5B4", win |-> 512, ack |-> SENT_SEQ + 1,
         payload |-> 0, code |-> 0, quoted |-> [len |-> 28]]

(* Port unreachables: what the quote says of length, header and hops.      *)
MCQuotes ==
  {[len |-> l, version |-> v, ihl |-> h, proto |-> pr, frag |-> 0, ttl |-> t,
    src |-> SOURCE_IP, dst |-> TARGET_IP, src_port |-> 1013, dst_port |-> 81] :
     l \in {20, 27, 28, 31, 32, 356}, v \in {4, 6}, h \in {16, 20, 24, 60},
     pr \in {"UDP", "TCP"}, t \in {SENT_TTL - 5, SENT_TTL, SENT_TTL + 1}}

Config1 == [first |-> 1000, open |-> 80, closed |-> 81, ident |-> 0]

(* The matcher sees to it that only some of them get here.                 *)
U1Reply(q) == [src |-> TARGET_IP, dst |-> SOURCE_IP, proto |-> "ICMP",
               type |-> ICMP_DEST_UNREACH, code |-> ICMP_PORT_UNREACH,
               quoted |-> q]
U1Results == {[Base EXCEPT !.quoted = q] :
                q \in {r \in MCQuotes :
                         response_matches_probe(Config1, U1, U1Reply(r))}}

Lost == [Base EXCEPT !.received = FALSE]

TcpResults ==
  {Lost, [Base EXCEPT !.options = REFUSED],
   [Base EXCEPT !.flags = {"R", "A"}, !.payload = 65515, !.seq = SENT_ACK],
   [Base EXCEPT !.flags = {"E", "C", "U"}, !.ip_id = 40000, !.seq = 0],
   [Base EXCEPT !.ttl = 255, !.urg = TRUE, !.ip_id = 9]}

IcmpResults == {Lost, [Base EXCEPT !.code = 9, !.ttl = 128, !.ip_id = 3],
                [Base EXCEPT !.df = FALSE, !.ip_id = 8]}

ResultsOf(p) == IF p = U1 THEN U1Results \cup {Lost}
                ELSE IF p \in IcmpProbe THEN IcmpResults ELSE TcpResults

AllOf(hops_away) ==
  [p \in Probe |-> [Base EXCEPT !.sent_at = p, !.seq = 100 + p, !.ip_id = 7 + p,
     !.quoted = CHOOSE q \in MCQuotes :
                  /\ response_matches_probe(Config1, U1, U1Reply(q))
                  /\ q.ttl = SENT_TTL - hops_away]]
None == [p \in Probe |-> Lost]

TwoOf(scan) == UNION {UNION {{[scan EXCEPT ![p] = r, ![q] = s] :
                 r \in ResultsOf(p), s \in ResultsOf(q)} :
                 p \in {SEQ1, SEQ1 + 1, SEQ6, ECN, IE1, T2, T4, T5, T7}} :
                 q \in {SEQ1 + 2, IE2, T2 + 1, T5 + 1, U1}}

MCScans(call) == IF call = 1 THEN {AllOf(5), AllOf(-1), None}
                 ELSE TwoOf(AllOf(5)) \cup TwoOf(AllOf(0)) \cup TwoOf(None)
=============================================================================
