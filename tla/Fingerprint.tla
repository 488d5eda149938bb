---------------------------- MODULE Fingerprint ----------------------------
(***************************************************************************)
(* calculate_os_fingerprint (src/src/fingerprint.c): the sixteen results   *)
(* of a scan become the lines of a fingerprint, one calculator after the   *)
(* other; each step below is one call.  The hop count U1 finds is kept in  *)
(* a variable of the file, T_hops, which every later calculator reads and  *)
(* which outlives the call; the first calculator that fails leaves a       *)
(* half-filled fingerprint that is not valid.                              *)
(*                                                                         *)
(* A result is a record with the fields SeqTests wants and                 *)
(*   ttl, df, flags (a set of letters, as in the F test), reserved, urg,   *)
(*   options, win, ack, payload (its length), code, quoted (what a port    *)
(*   unreachable quotes: the record of Probes and its ttl).                *)
(* options is a model value, REFUSED when generate_ops_string returns NULL *)
(* (OptionWalk says when).                                                 *)
(***************************************************************************)
EXTENDS Probes, SeqTests

CONSTANTS
  Scans(_),      \* results that the n-th call may be given
  MaxCalls,      \* how often the calculation is called in one process
  SENT_TTL,      \* time to live of the U1 probe
  SENT_SEQ,      \* sequence and
  SENT_ACK,      \* acknowledgment number of every TCP probe
  REFUSED        \* an option list generate_ops_string refuses

VARIABLES
  probes,        \* results of the scan this call is about
  pc,            \* calculator that comes next
  n,             \* index of the loop that runs
  T_hops,        \* hop count, for the T test of every line
  fp,            \* lines calculated so far
  valid,         \* fingerprint.valid
  calls          \* calls begun

vars == <<probes, pc, n, T_hops, fp, valid, calls>>

UNAVAILABLE_SIG_16 == UINT16 - 1
ERROR              == [R |-> "error"]
T_LINE             == <<"T1", "T2", "T3", "T4", "T5", "T6", "T7">>
O_LINE             == <<"O1", "O2", "O3", "O4", "O5", "O6">>
NOT_RECEIVED       == [R |-> "N"]

(* What the parser and the matcher let through: a time to live of a byte,  *)
(* a payload that fits the total length of a datagram, and in the reply to *)
(* U1 a quote that matched U1 under the configuration of the scan.         *)
Matched(scan) ==
  LET q   == scan[U1].quoted
      cfg == [first  |-> (q.src_port - port_offset(U1)) % UINT16, open |-> 1,
              closed |-> q.dst_port, ident |-> 0]
  IN  /\ DOMAIN scan = Probe
      /\ \A p \in Probe : /\ scan[p].received \in BOOLEAN /\ scan[p].ttl \in 0 .. 255
                           /\ scan[p].payload \in 0 .. UINT16 - 1
      /\ scan[U1].received => matches_quoted_udp(cfg, q) /\ q.ttl \in 0 .. 255

ASSUME ScanAssumption ==
  /\ MaxCalls \in Nat \ {0} /\ SENT_TTL \in 0 .. 255
  /\ \A call \in 1 .. MaxCalls : \A scan \in Scans(call) : Matched(scan)

-----------------------------------------------------------------------------
(* The tests shared by several lines.                                      *)

(* The guess of the initial time to live.                                  *)
TG_test(ttl) == IF ttl <= 32 THEN 32 ELSE IF ttl <= 64 THEN 64
                ELSE IF ttl <= 128 THEN 128 ELSE 255

(* T is the time to live the reply started with, when the hops are known.  *)
T_or_TG(ttl) == IF T_hops # UNAVAILABLE_SIG_16 THEN [T |-> ttl + T_hops]
                ELSE [TG |-> TG_test(ttl)]

Q_test(p) == (IF p.reserved THEN {"R"} ELSE {}) \cup
             (IF p.urg /\ "U" \notin p.flags THEN {"U"} ELSE {})

calculate_ops_test(p) == p.options # REFUSED

calculate_tcp_common_fingerprint(p) ==
  IF ~p.received THEN NOT_RECEIVED
  ELSE IF ~calculate_ops_test(p) THEN ERROR
  ELSE [R |-> "Y", DF |-> p.df, O |-> p.options, W |-> p.win,
        ttl |-> T_or_TG(p.ttl), Q |-> Q_test(p)]

S_test(p) == IF p.seq = 0 THEN "Z"
             ELSE IF p.seq = SENT_ACK THEN "A"
             ELSE IF p.seq = (SENT_ACK + 1) % UINT32 THEN "A+" ELSE "O"

A_test(p) == IF p.ack = 0 THEN "Z"
             ELSE IF p.ack = SENT_SEQ THEN "S"
             ELSE IF p.ack = (SENT_SEQ + 1) % UINT32 THEN "S+" ELSE "O"

(* Mutant: a reset may carry at most one segment of the usual size.        *)
RD_error_above_a_segment(p) == "R" \in p.flags /\ p.payload > 1460

(* The payload of a reset is summed up by its CRC32, here by its length.   *)
RD_error(p) == "R" \in p.flags /\ p.payload > UINT16 - 1
RD_test(p)  == IF "R" \in p.flags THEN p.payload ELSE 0

calculate_t_tests(p) ==
  LET common == calculate_tcp_common_fingerprint(p)
  IN  IF common.R # "Y" THEN common
      ELSE IF RD_error(p) THEN ERROR
      ELSE [common |-> common, R |-> "Y", S |-> S_test(p), A |-> A_test(p),
            F |-> p.flags \ {"C"}, RD |-> RD_test(p)]

CC_test(p) == CASE "E" \in p.flags /\ "C" \notin p.flags    -> "Y"
                [] "E" \notin p.flags /\ "C" \notin p.flags -> "N"
                [] "E" \in p.flags /\ "C" \in p.flags       -> "S"
                [] OTHER                                    -> "O"

calculate_ecn_fingerprint(p) ==
  LET common == calculate_tcp_common_fingerprint(p)
  IN  IF common.R # "Y" THEN common
      ELSE [common |-> common, R |-> "Y", CC |-> CC_test(p)]

DFI_test(a, b) == CASE ~a.df /\ ~b.df -> "N" [] a.df /\ b.df -> "Y"
                    [] a.df /\ ~b.df  -> "S" [] OTHER        -> "O"

CD_test(a, b) == CASE a.code = 0 /\ b.code = 0             -> "Z"
                   [] a.code = 9 /\ b.code = 0             -> "S"
                   [] a.code = b.code /\ a.code # 0        -> a.code
                   [] OTHER                                -> "O"

calculate_ie_fingerprint(a, b) ==
  IF ~(a.received /\ b.received) THEN NOT_RECEIVED
  ELSE [R |-> "Y", DFI |-> DFI_test(a, b), ttl |-> T_or_TG(a.ttl),
        CD |-> CD_test(a, b)]

-----------------------------------------------------------------------------
(* U1.                                                                     *)

(* The quote is checked once more, after the parser and the matcher.       *)
u1_quote_ok(q) == /\ q.len >= 20 /\ q.version = 4 /\ q.proto = "UDP"
                  /\ q.ihl >= 20 /\ q.ihl <= q.len /\ q.len - q.ihl >= 8

hops(p) == SENT_TTL - p.quoted.ttl

(* The time to live of U1 itself: T when the quote gives a hop count.      *)
calculate_u1_fingerprint(p) ==
  IF ~p.received THEN NOT_RECEIVED
  ELSE IF ~u1_quote_ok(p.quoted) THEN ERROR
  ELSE [R |-> "Y", DF |-> p.df,
        ttl |-> IF hops(p) >= 0 THEN [T |-> p.ttl + hops(p)]
                ELSE [TG |-> TG_test(p.ttl)]]

T_hops_after_u1(p) ==
  IF p.received /\ u1_quote_ok(p.quoted) /\ hops(p) >= 0 THEN hops(p) ELSE T_hops

-----------------------------------------------------------------------------
(* Mutant: the variable of the file keeps the value of the last call.      *)
T_hops_at_entry_kept == T_hops

T_hops_at_entry == UNAVAILABLE_SIG_16

EMPTY == [g \in {} |-> ERROR]

(* Results as SeqTests reads them.                                         *)
sample(p) == [received |-> p.received, seq |-> p.seq, ip_id |-> p.ip_id,
              tsval |-> p.tsval, sent_at |-> p.sent_at,
              syn_ack |-> {"S", "A"} \subseteq p.flags /\ "R" \notin p.flags]

samples_of(first, count) == [k \in 1 .. count |-> sample(probes[first + k - 1])]

(* Mutant: the replies of T4, T5 and T6.                                   *)
ci_first_one_early == T4

(* CI looks at the last three of the six T probes, &t_probes[3].           *)
ci_first == T2 + 3

Init == /\ probes \in Scans(1) /\ calls = 1
        /\ pc = "u1" /\ n = 0 /\ T_hops = UNAVAILABLE_SIG_16
        /\ fp = EMPTY /\ valid = FALSE

(* Another call of the same process.                                       *)
CallAgain ==
  /\ pc = "done" /\ calls < MaxCalls
  /\ calls' = calls + 1 /\ probes' \in Scans(calls')
  /\ pc' = "u1" /\ n' = 0 /\ T_hops' = T_hops_at_entry
  /\ fp' = EMPTY /\ valid' = FALSE

(* A calculator's result becomes a line, or its error ends the call.       *)
Line(name, result, next, m) ==
  /\ IF result = ERROR THEN pc' = "done" /\ UNCHANGED <<fp, n>>
     ELSE /\ fp' = [g \in DOMAIN fp \cup {name} |-> IF g = name THEN result ELSE fp[g]]
          /\ pc' = next /\ n' = m
  /\ UNCHANGED <<probes, valid, calls>>

CalculateU1 ==
  /\ pc = "u1"
  /\ T_hops' = T_hops_after_u1(probes[U1])
  /\ Line("U1", calculate_u1_fingerprint(probes[U1]), "seq", 0)

CalculateSeq ==
  /\ pc = "seq"
  /\ LET s == samples_of(SEQ1, 6)
     IN  Line("SEQ", [R |-> "Y", metrics_present |-> metrics_present(s),
                      TS |-> calculate_timestamp_fingerprint(s)], "t1", 0)
  /\ UNCHANGED T_hops

CalculateT1 ==
  /\ pc = "t1"
  /\ Line(T_LINE[1], calculate_t_tests(probes[SEQ1]), "ops", 0)
  /\ UNCHANGED T_hops

(* O1-O6 and W1-W6.                                                        *)
CalculateOpsWin ==
  /\ pc = "ops"
  /\ LET p == probes[n]
     IN  Line(O_LINE[n + 1],
              IF ~p.received THEN NOT_RECEIVED
              ELSE IF ~calculate_ops_test(p) THEN ERROR
              ELSE [R |-> "Y", O |-> p.options, W |-> p.win],
              IF n = SEQ6 THEN "ie" ELSE "ops", IF n = SEQ6 THEN 0 ELSE n + 1)
  /\ UNCHANGED T_hops

CalculateIE ==
  /\ pc = "ie"
  /\ Line("IE", calculate_ie_fingerprint(probes[IE1], probes[IE2]), "ecn", 0)
  /\ UNCHANGED T_hops

CalculateECN ==
  /\ pc = "ecn"
  /\ Line("ECN", calculate_ecn_fingerprint(probes[ECN]), "t", 0)
  /\ UNCHANGED T_hops

CalculateT ==
  /\ pc = "t"
  /\ Line(T_LINE[n + 2], calculate_t_tests(probes[T2 + n]),
          IF n = 5 THEN "ipid" ELSE "t", IF n = 5 THEN 0 ELSE n + 1)
  /\ UNCHANGED T_hops

(* TI, CI and II, then SS, then the fingerprint is valid.                  *)
CalculateIpIds ==
  /\ pc = "ipid"
  /\ LET seq == samples_of(SEQ1, 6)
         ie  == samples_of(IE1, 2)
         ti  == calculate_ip_id_fingerprints("TI", seq)
         ii  == calculate_ip_id_fingerprints("II", ie)
     IN  fp' = [fp EXCEPT !["SEQ"] =
                  [R |-> "Y", metrics_present |-> @.metrics_present, TS |-> @.TS,
                   TI |-> ti, II |-> ii,
                   CI |-> calculate_ip_id_fingerprints("CI", samples_of(ci_first, 3)),
                   SS |-> calculate_shared_sequence(seq, ie, ti, ii)]]
  /\ valid' = TRUE /\ pc' = "done"
  /\ UNCHANGED <<probes, n, T_hops, calls>>

Next == \/ CallAgain \/ CalculateU1 \/ CalculateSeq \/ CalculateT1
        \/ CalculateOpsWin \/ CalculateIE \/ CalculateECN \/ CalculateT
        \/ CalculateIpIds

Spec == Init /\ [][Next]_vars

-----------------------------------------------------------------------------
Answered(P) == {p \in P : probes[p].received}

(* A fingerprint is refused for one reason only: a TCP reply whose options *)
(* the program does not understand.  A quote the matcher accepted, a long  *)
(* reset, too few samples or missing replies never cost the fingerprint.   *)
RefusedOnlyForOptions ==
  pc = "done" =>
    (valid <=> \A p \in Answered(TcpProbe) : probes[p].options # REFUSED)

TtlOf(l) == CASE "common" \in DOMAIN l -> {DOMAIN l.common.ttl}
              [] "ttl" \in DOMAIN l    -> {DOMAIN l.ttl}
              [] OTHER                 -> {}

(* The lines of one fingerprint fit together. Each gives its time to live  *)
(* the same way, from the U1 reply of the same scan: T counts its hops, and*)
(* TG stands in when there is no such reply, whatever an earlier call of   *)
(* the process found. And CI, in the SEQ line, is about the closed port:   *)
(* the kind of the identifiers of the replies to the TCP probes that Probes*)
(* sends there, and to no others.                                          *)
LinesFitTogether ==
  pc = "done" /\ valid =>
    LET known  == probes[U1].received /\ hops(probes[U1]) >= 0
        cfg    == [first |-> 1000, open |-> 80, closed |-> 81, ident |-> 0]
        closed == {p \in TcpProbe : dest_port(cfg, p) = cfg.closed}
    IN  /\ \A g \in DOMAIN fp : TtlOf(fp[g]) \subseteq {IF known THEN {"T"} ELSE {"TG"}}
        /\ \A p \in Answered(TProbe) : LET l == fp[T_LINE[p - T2 + 2]] IN
             known => l.common.ttl.T = probes[p].ttl + SENT_TTL - probes[U1].quoted.ttl
        /\ closed = T5 .. T7
        /\ fp["SEQ"].CI = calculate_ip_id_fingerprints("CI", samples_of(T5, 3))
=============================================================================
