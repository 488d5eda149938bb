------------------------- MODULE FingerprintProofs -------------------------
(***************************************************************************)
(* A fingerprint is refused for the options of a TCP reply and for nothing *)
(* else, and the lines of one fingerprint agree on how many hops away the  *)
(* host is: for every number of calls, and all results that the parser and *)
(* the matcher let through.  The tests on numbers that count up decide as  *)
(* they would without overflow: for any number of samples and any numbers  *)
(* that fit their fields.  And the tests of U1 blame a host for what it    *)
(* changed in its quote of the probe and for nothing else: for every       *)
(* probe, route and quote.                                                 *)
(***************************************************************************)
EXTENDS MCTests, NaturalRecursion, SequenceTheorems

(* U1 gives the hop count.                                                 *)
Known == probes[U1].received /\ hops(probes[U1]) >= 0

(* The TCP replies whose options have been looked at when calculator c, at *)
(* index m of its loop, comes next.                                        *)
LookedAt(c, m) ==
  CASE c \in {"u1", "seq", "t1"} -> {}
    [] c = "ops"                 -> {SEQ1} \cup SEQ1 .. m - 1
    [] c \in {"ie", "ecn"}       -> SeqProbe
    [] c = "t"                   -> SeqProbe \cup {ECN} \cup T2 .. T2 + m - 1
    [] OTHER                     -> TcpProbe

Understood(p) == probes[p].received => probes[p].options # REFUSED

CallInv ==
  /\ calls \in 1 .. MaxCalls /\ Matched(probes)
  /\ pc \in {"u1", "seq", "t1", "ops", "ie", "ecn", "t", "ipid", "done"}
  /\ pc \in {"ops", "t"} => n \in 0 .. 5
  /\ valid \in BOOLEAN /\ (valid => pc = "done")

RefusalInv ==
  /\ pc # "done" \/ valid => \A p \in LookedAt(pc, n) : Understood(p)
  /\ pc = "done" /\ ~valid => \E p \in TcpProbe : ~Understood(p)

LEMMA ScanFacts ==
  /\ MaxCalls \in Nat \ {0} /\ SENT_TTL \in 0 .. 255
  /\ \A call \in 1 .. MaxCalls : \A scan \in Scans(call) : Matched(scan)
BY ScanAssumption

(* What can fail in a calculator.                                          *)
LEMMA TTestError ==
  ASSUME Matched(probes), NEW p \in Probe
  PROVE  calculate_t_tests(probes[p]) = ERROR <=> ~Understood(p)
<1>1. /\ probes[p].received \in BOOLEAN /\ probes[p].payload \in 0 .. UINT16 - 1
  BY DEF Matched
<1>2. ~RD_error(probes[p])
  <2>1. \A k \in 0 .. UINT16 - 1 : ~(k > UINT16 - 1)
    BY DEF UINT16
  <2>2. QED
    BY <1>1, <2>1 DEF RD_error
<1>3. QED
  BY <1>1, <1>2 DEF calculate_t_tests, calculate_tcp_common_fingerprint,
     calculate_ops_test, Understood, ERROR, NOT_RECEIVED

LEMMA EcnError ==
  ASSUME Matched(probes), NEW p \in Probe
  PROVE  calculate_ecn_fingerprint(probes[p]) = ERROR <=> ~Understood(p)
BY DEF Matched, calculate_ecn_fingerprint, calculate_tcp_common_fingerprint,
   calculate_ops_test, Understood, ERROR, NOT_RECEIVED

LEMMA OpsError ==
  ASSUME Matched(probes), NEW p \in Probe
  PROVE  LET result == IF ~probes[p].received THEN NOT_RECEIVED
                       ELSE IF ~calculate_ops_test(probes[p]) THEN ERROR
                       ELSE [R |-> "Y", O |-> probes[p].options, W |-> probes[p].win]
         IN  result = ERROR <=> ~Understood(p)
BY DEF Matched, calculate_ops_test, Understood, ERROR, NOT_RECEIVED

(* The quote the matcher accepted is never refused a second time.          *)
LEMMA U1NeverFails ==
  ASSUME Matched(probes)
  PROVE  calculate_u1_fingerprint(probes[U1]) # ERROR
<1>1. probes[U1].received => u1_quote_ok(probes[U1].quoted)
  BY DEF Matched, matches_quoted_udp, u1_quote_ok
<1>2. QED
  BY <1>1 DEF calculate_u1_fingerprint, ERROR, NOT_RECEIVED

LEMMA IENeverFails ==
  \A a, b : calculate_ie_fingerprint(a, b) # ERROR
BY DEF calculate_ie_fingerprint, ERROR, NOT_RECEIVED

-----------------------------------------------------------------------------
LEMMA CallInit == Init => CallInv /\ RefusalInv
<1> SUFFICES ASSUME Init PROVE CallInv /\ RefusalInv
  OBVIOUS
<1>1. pc = "u1" /\ valid = FALSE /\ calls = 1 /\ 1 \in 1 .. MaxCalls
  BY ScanFacts DEF Init
<1>2. Matched(probes)
  BY <1>1, ScanFacts DEF Init
<1>3. QED
  BY <1>1, <1>2 DEF CallInv, RefusalInv, LookedAt

LEMMA CallKept == CallInv /\ [Next]_vars => CallInv'
<1> SUFFICES ASSUME CallInv, [Next]_vars PROVE CallInv'
  OBVIOUS
<1>1. CASE CallAgain
  <2>1. calls' \in 1 .. MaxCalls
    BY <1>1, ScanFacts DEF CallAgain, CallInv
  <2>2. Matched(probes')
    BY <1>1, <2>1, ScanFacts DEF CallAgain
  <2>3. QED
    BY <1>1, <2>1, <2>2 DEF CallAgain, CallInv
<1>2. CASE CalculateU1 \/ CalculateSeq \/ CalculateT1 \/ CalculateIE \/ CalculateECN
  BY <1>2 DEF CalculateU1, CalculateSeq, CalculateT1, CalculateIE, CalculateECN,
     Line, CallInv
<1>3. CASE CalculateOpsWin \/ CalculateT
  BY <1>3 DEF CalculateOpsWin, CalculateT, Line, CallInv, SEQ6
<1>4. CASE CalculateIpIds
  <2>1. pc' = "done" /\ valid' = TRUE /\ UNCHANGED <<probes, calls>>
    BY <1>4 DEF CalculateIpIds
  <2>2. QED
    BY <2>1 DEF CallInv, Matched
<1>5. CASE UNCHANGED vars
  BY <1>5 DEF vars, CallInv, Matched
<1>6. QED
  BY <1>1, <1>2, <1>3, <1>4, <1>5 DEF Next

(* A calculator that can fail looks at one TCP reply.                      *)
LEMMA LooksAt ==
  ASSUME RefusalInv, pc # "done", ~valid, UNCHANGED <<probes, valid>>,
         NEW q \in TcpProbe,
         IF Understood(q)
         THEN pc' # "done" /\ LookedAt(pc', n') \subseteq LookedAt(pc, n) \cup {q}
         ELSE pc' = "done"
  PROVE  RefusalInv'
<1>1. \A p : Understood(p)' <=> Understood(p)
  BY DEF Understood
<1>2. CASE Understood(q)
  BY <1>1, <1>2 DEF RefusalInv
<1>3. CASE ~Understood(q)
  BY <1>1, <1>3 DEF RefusalInv
<1>4. QED
  BY <1>2, <1>3

LEMMA ProbeSets ==
  /\ TcpProbe = SeqProbe \cup {ECN} \cup TProbe /\ TcpProbe \subseteq Probe
  /\ SeqProbe = 0 .. 5 /\ ECN = 6 /\ TProbe = 9 .. 14 /\ SEQ1 = 0 /\ SEQ6 = 5
  /\ T2 = 9
BY DEF TcpProbe, SeqProbe, TProbe, Probe, SEQ1, SEQ6, ECN, T2, T7, U1

LEMMA RefusalKept ==
  CallInv /\ RefusalInv /\ [Next]_vars => RefusalInv'
<1> SUFFICES ASSUME CallInv, RefusalInv, [Next]_vars PROVE RefusalInv'
  OBVIOUS
<1>0. Matched(probes) /\ (pc # "done" => ~valid) /\ (pc \in {"ops", "t"} => n \in 0 .. 5)
  BY DEF CallInv
<1>1. CASE CallAgain
  BY <1>1 DEF CallAgain, RefusalInv, LookedAt
<1>2. CASE CalculateU1
  <2>1. pc' = "seq" /\ UNCHANGED valid /\ ~valid
    BY <1>0, <1>2, U1NeverFails DEF CalculateU1, Line
  <2>2. QED
    BY <2>1 DEF RefusalInv, LookedAt
<1>3. CASE CalculateSeq
  <2>1. pc' = "t1" /\ UNCHANGED valid /\ ~valid
    BY <1>0, <1>3 DEF CalculateSeq, Line, ERROR
  <2>2. QED
    BY <2>1 DEF RefusalInv, LookedAt
<1>4. CASE CalculateT1
  <2>1. /\ IF Understood(SEQ1) THEN pc' = "ops" /\ n' = 0 ELSE pc' = "done"
        /\ UNCHANGED <<probes, valid>> /\ pc = "t1"
    BY <1>0, <1>4, TTestError, ProbeSets DEF CalculateT1, Line
  <2>2. LookedAt("ops", 0) \subseteq {SEQ1}
    BY ProbeSets DEF LookedAt
  <2>3. QED
    BY <1>0, <2>1, <2>2, LooksAt, ProbeSets
<1>5. CASE CalculateOpsWin
  <2>1. /\ IF Understood(n)
           THEN IF n = SEQ6 THEN pc' = "ie" ELSE pc' = "ops" /\ n' = n + 1
           ELSE pc' = "done"
        /\ UNCHANGED <<probes, valid>> /\ pc = "ops" /\ n \in SeqProbe
    BY <1>0, <1>5, OpsError, ProbeSets DEF CalculateOpsWin, Line
  <2>2. /\ n = SEQ6 => LookedAt("ie", n') \subseteq LookedAt("ops", n) \cup {n}
        /\ LookedAt("ops", n + 1) \subseteq LookedAt("ops", n) \cup {n}
    BY <2>1, ProbeSets DEF LookedAt
  <2>3. QED
    BY <1>0, <2>1, <2>2, LooksAt, ProbeSets
<1>6. CASE CalculateIE
  <2>1. pc' = "ecn" /\ pc = "ie" /\ UNCHANGED <<probes, valid>>
    BY <1>6, IENeverFails DEF CalculateIE, Line
  <2>2. QED
    BY <1>0, <2>1 DEF RefusalInv, LookedAt, Understood
<1>7. CASE CalculateECN
  <2>1. /\ IF Understood(ECN) THEN pc' = "t" /\ n' = 0 ELSE pc' = "done"
        /\ UNCHANGED <<probes, valid>> /\ pc = "ecn"
    BY <1>0, <1>7, EcnError, ProbeSets DEF CalculateECN, Line
  <2>2. LookedAt("t", 0) \subseteq LookedAt("ecn", n) \cup {ECN}
    BY ProbeSets DEF LookedAt
  <2>3. QED
    BY <1>0, <2>1, <2>2, LooksAt, ProbeSets
<1>8. CASE CalculateT
  <2>1. /\ IF Understood(T2 + n)
           THEN IF n = 5 THEN pc' = "ipid" ELSE pc' = "t" /\ n' = n + 1
           ELSE pc' = "done"
        /\ UNCHANGED <<probes, valid>> /\ pc = "t" /\ T2 + n \in TcpProbe /\ n \in 0 .. 5
    BY <1>0, <1>8, TTestError, ProbeSets DEF CalculateT, Line
  <2>2. /\ n = 5 => LookedAt("ipid", n') \subseteq LookedAt("t", n) \cup {T2 + n}
        /\ LookedAt("t", n + 1) \subseteq LookedAt("t", n) \cup {T2 + n}
    BY <2>1, ProbeSets DEF LookedAt
  <2>3. QED
    BY <1>0, <2>1, <2>2, LooksAt, ProbeSets
<1>9. CASE CalculateIpIds
  BY <1>0, <1>9 DEF CalculateIpIds, RefusalInv, LookedAt, Understood
<1>10. CASE UNCHANGED vars
  BY <1>10 DEF vars, RefusalInv, Understood
<1>11. QED
  BY <1>1, <1>2, <1>3, <1>4, <1>5, <1>6, <1>7, <1>8, <1>9, <1>10 DEF Next

LEMMA RefusalInvariant == Spec => [](CallInv /\ RefusalInv)
BY CallInit, CallKept, RefusalKept, PTL DEF Spec

(* A fingerprint is refused for one reason only: a TCP reply whose options *)
(* the program does not understand (src/src/fingerprint.c:43-180).         *)
THEOREM OptionsAloneRefuse == Spec => []RefusedOnlyForOptions
<1>1. CallInv /\ RefusalInv => RefusedOnlyForOptions
  BY DEF CallInv, RefusalInv, RefusedOnlyForOptions, Answered, Understood, LookedAt
<1>2. QED
  BY <1>1, RefusalInvariant, PTL
-----------------------------------------------------------------------------
(* The lines fit together.                                                 *)

(* How a line gives its time to live, once U1 is done.                     *)
Kind == IF Known THEN {"T"} ELSE {"TG"}

(* The T probes that have a line when calculator c, at index m, comes next.*)
TestedBefore(c, m) == IF c = "t" THEN T2 .. T2 + m - 1
                      ELSE IF c \in {"ipid", "done"} THEN TProbe ELSE {}

Traces(l, p) == Known => l.common.ttl.T = probes[p].ttl + hops(probes[U1])

HopsInv ==
  T_hops = IF pc # "u1" /\ Known THEN hops(probes[U1]) ELSE UNAVAILABLE_SIG_16

KindInv == \A g \in DOMAIN fp : TtlOf(fp[g]) \subseteq {Kind}

TraceInv ==
  pc # "done" \/ valid =>
    \A p \in TestedBefore(pc, n) :
      /\ T_LINE[p - T2 + 2] \in DOMAIN fp
      /\ probes[p].received => Traces(fp[T_LINE[p - T2 + 2]], p)

CIInv ==
  /\ pc \notin {"u1", "seq", "done"} => "SEQ" \in DOMAIN fp
  /\ pc = "done" /\ valid =>
       fp["SEQ"].CI = calculate_ip_id_fingerprints("CI", samples_of(T5, 3))

LEMMA HopsAreFew ==
  ASSUME Matched(probes), Known
  PROVE  /\ hops(probes[U1]) \in 0 .. 255 /\ hops(probes[U1]) # UNAVAILABLE_SIG_16
         /\ u1_quote_ok(probes[U1].quoted)
<1>1. probes[U1].quoted.ttl \in 0 .. 255 /\ u1_quote_ok(probes[U1].quoted)
  BY DEF Matched, Known, matches_quoted_udp, u1_quote_ok
<1>2. hops(probes[U1]) \in 0 .. 255
  <2>1. SENT_TTL - probes[U1].quoted.ttl >= 0 /\ SENT_TTL \in 0 .. 255
    BY ScanFacts DEF hops, Known
  <2>2. \A a, b \in 0 .. 255 : a - b >= 0 => a - b \in 0 .. 255
    OBVIOUS
  <2>3. QED
    BY <1>1, <2>1, <2>2 DEF hops
<1>3. QED
  BY <1>1, <1>2 DEF UNAVAILABLE_SIG_16, UINT16

(* What T_hops makes of a time to live.                                    *)
LEMMA TtlKind ==
  ASSUME Matched(probes), HopsInv, pc # "u1", NEW ttl
  PROVE  /\ DOMAIN T_or_TG(ttl) = Kind
         /\ Known => T_or_TG(ttl).T = ttl + hops(probes[U1])
<1>1. CASE Known
  <2>1. T_hops = hops(probes[U1]) /\ T_hops # UNAVAILABLE_SIG_16
    BY <1>1, HopsAreFew DEF HopsInv
  <2>2. T_or_TG(ttl) = [T |-> ttl + hops(probes[U1])]
    BY <2>1 DEF T_or_TG
  <2>3. QED
    BY <1>1, <2>2 DEF Kind
<1>2. CASE ~Known
  <2>1. T_or_TG(ttl) = [TG |-> TG_test(ttl)]
    BY <1>2 DEF T_or_TG, HopsInv
  <2>2. QED
    BY <1>2, <2>1 DEF Kind
<1>3. QED
  BY <1>1, <1>2

(* The kinds of the lines, calculator by calculator.                       *)
LEMMA LineKinds ==
  ASSUME Matched(probes), HopsInv, pc # "u1"
  PROVE  /\ \A p : TtlOf(calculate_t_tests(p)) \subseteq {Kind}
         /\ \A p : TtlOf(calculate_ecn_fingerprint(p)) \subseteq {Kind}
         /\ \A a, b : TtlOf(calculate_ie_fingerprint(a, b)) \subseteq {Kind}
<1>1. TtlOf(NOT_RECEIVED) = {} /\ TtlOf(ERROR) = {}
  BY DEF TtlOf, NOT_RECEIVED, ERROR
<1>2. \A p : LET common == calculate_tcp_common_fingerprint(p)
             IN  IF common.R = "Y" THEN DOMAIN common.ttl = Kind
                 ELSE common = NOT_RECEIVED \/ common = ERROR
  BY TtlKind DEF calculate_tcp_common_fingerprint, NOT_RECEIVED, ERROR
<1>3. ASSUME NEW p PROVE TtlOf(calculate_t_tests(p)) \subseteq {Kind}
  <2> DEFINE common == calculate_tcp_common_fingerprint(p)
             line   == [common |-> common, R |-> "Y", S |-> S_test(p), A |-> A_test(p),
                        F |-> p.flags \ {"C"}, RD |-> RD_test(p)]
  <2>1. common.R = "Y" => DOMAIN common.ttl = Kind
    BY <1>2
  <2>2. TtlOf(line) = {DOMAIN common.ttl}
    BY DEF TtlOf
  <2>3. \/ calculate_t_tests(p) \in {NOT_RECEIVED, ERROR}
        \/ common.R = "Y" /\ calculate_t_tests(p) = line
    BY <1>2 DEF calculate_t_tests
  <2>4. QED
    BY <1>1, <2>1, <2>2, <2>3
<1>4. ASSUME NEW p PROVE TtlOf(calculate_ecn_fingerprint(p)) \subseteq {Kind}
  <2> DEFINE common == calculate_tcp_common_fingerprint(p)
             line   == [common |-> common, R |-> "Y", CC |-> CC_test(p)]
  <2>1. common.R = "Y" => DOMAIN common.ttl = Kind
    BY <1>2
  <2>2. TtlOf(line) = {DOMAIN common.ttl}
    BY DEF TtlOf
  <2>3. \/ calculate_ecn_fingerprint(p) \in {NOT_RECEIVED, ERROR}
        \/ common.R = "Y" /\ calculate_ecn_fingerprint(p) = line
    BY <1>2 DEF calculate_ecn_fingerprint
  <2>4. QED
    BY <1>1, <2>1, <2>2, <2>3
<1>5. ASSUME NEW a, NEW b PROVE TtlOf(calculate_ie_fingerprint(a, b)) \subseteq {Kind}
  <2> DEFINE line == [R |-> "Y", DFI |-> DFI_test(a, b), ttl |-> T_or_TG(a.ttl),
                      CD |-> CD_test(a, b)]
  <2>1. TtlOf(line) = {Kind}
    BY TtlKind DEF TtlOf
  <2>2. calculate_ie_fingerprint(a, b) \in {NOT_RECEIVED, line}
    BY DEF calculate_ie_fingerprint
  <2>3. QED
    BY <1>1, <2>1, <2>2
<1>6. QED
  BY <1>3, <1>4, <1>5

LEMMA U1Kind ==
  ASSUME Matched(probes)
  PROVE  TtlOf(calculate_u1_fingerprint(probes[U1])) \subseteq {Kind}
<1> DEFINE p == probes[U1]
           line(t) == [R |-> "Y", DF |-> p.df, ttl |-> t]
<1>1. TtlOf(NOT_RECEIVED) = {} /\ \A t : TtlOf(line(t)) = {DOMAIN t}
  BY DEF TtlOf, NOT_RECEIVED
<1>2. CASE ~p.received
  BY <1>1, <1>2 DEF calculate_u1_fingerprint
<1>3. CASE p.received /\ hops(p) >= 0
  <2>1. Kind = {"T"} /\ u1_quote_ok(p.quoted)
    BY <1>3, HopsAreFew DEF Kind, Known
  <2>2. calculate_u1_fingerprint(p) = line([T |-> p.ttl + hops(p)])
    BY <1>3, <2>1 DEF calculate_u1_fingerprint
  <2>3. QED
    BY <1>1, <2>1, <2>2
<1>4. CASE p.received /\ ~(hops(p) >= 0)
  <2>1. Kind = {"TG"} /\ u1_quote_ok(p.quoted)
    BY <1>4 DEF Kind, Known, Matched, matches_quoted_udp, u1_quote_ok
  <2>2. calculate_u1_fingerprint(p) = line([TG |-> TG_test(p.ttl)])
    BY <1>4, <2>1 DEF calculate_u1_fingerprint
  <2>3. QED
    BY <1>1, <2>1, <2>2
<1>5. QED
  BY <1>2, <1>3, <1>4

(* The line of a T probe whose options are understood.                     *)
LEMMA TLineTraces ==
  ASSUME Matched(probes), HopsInv, pc # "u1", NEW p \in Probe,
         probes[p].received, Understood(p)
  PROVE  Traces(calculate_t_tests(probes[p]), p)
<1> DEFINE common == calculate_tcp_common_fingerprint(probes[p])
<1>1. common.R = "Y" /\ common.ttl = T_or_TG(probes[p].ttl)
  BY DEF calculate_tcp_common_fingerprint, calculate_ops_test, Understood
<1>2. calculate_t_tests(probes[p]) # ERROR
  BY TTestError
<1>3. calculate_t_tests(probes[p]).common = common
  BY <1>1, <1>2 DEF calculate_t_tests
<1>4. QED
  BY <1>1, <1>3, TtlKind DEF Traces

-----------------------------------------------------------------------------
(* A step that keeps the results and adds a line of the right kind.        *)
LEMMA LineKeepsKinds ==
  ASSUME KindInv, UNCHANGED probes, NEW name, NEW result, NEW next, NEW m,
         Line(name, result, next, m), TtlOf(result) \subseteq {Kind}
  PROVE  KindInv'
<1>1. Kind' = Kind
  BY DEF Kind, Known, hops
<1>2. CASE UNCHANGED fp
  BY <1>1, <1>2 DEF KindInv, TtlOf
<1>3. CASE fp' = [g \in DOMAIN fp \cup {name} |-> IF g = name THEN result ELSE fp[g]]
  <2>1. ASSUME NEW g \in DOMAIN fp'
        PROVE  fp'[g] = result \/ (g \in DOMAIN fp /\ fp'[g] = fp[g])
    <3>1. /\ DOMAIN fp' = DOMAIN fp \cup {name}
          /\ fp'[g] = IF g = name THEN result ELSE fp[g]
      BY ONLY <1>3, <2>1
    <3>2. QED
      BY ONLY <2>1, <3>1
  <2>2. \A g \in DOMAIN fp' : TtlOf(fp'[g]) \subseteq {Kind}
    BY <2>1 DEF KindInv
  <2>3. QED
    BY <1>1, <2>2 DEF KindInv, TtlOf
<1>4. QED
  BY <1>2, <1>3 DEF Line

LEMMA HopsKept == CallInv /\ HopsInv /\ [Next]_vars => HopsInv'
<1> SUFFICES ASSUME CallInv, HopsInv, [Next]_vars PROVE HopsInv'
  OBVIOUS
<1>1. CASE CallAgain
  BY <1>1 DEF CallAgain, HopsInv, T_hops_at_entry
<1>2. CASE CalculateU1
  <2>1. pc' = "seq" /\ UNCHANGED probes /\ T_hops' = T_hops_after_u1(probes[U1])
    BY <1>2, U1NeverFails DEF CalculateU1, Line, CallInv
  <2>2. T_hops_after_u1(probes[U1]) =
          IF Known THEN hops(probes[U1]) ELSE UNAVAILABLE_SIG_16
    BY <1>2, HopsAreFew DEF CalculateU1, HopsInv, CallInv, T_hops_after_u1, Known
  <2>3. QED
    BY <2>1, <2>2 DEF HopsInv, Known, hops
<1>3. CASE UNCHANGED <<probes, T_hops>> /\ (pc = "u1" <=> pc' = "u1")
  BY <1>3 DEF HopsInv, Known, hops
<1>4. CASE CalculateSeq \/ CalculateT1 \/ CalculateIE \/ CalculateECN \/ CalculateIpIds
  BY <1>3, <1>4 DEF CalculateSeq, CalculateT1, CalculateIE, CalculateECN,
     CalculateIpIds, Line
<1>5. CASE CalculateOpsWin \/ CalculateT \/ UNCHANGED vars
  BY <1>3, <1>5 DEF CalculateOpsWin, CalculateT, Line, vars
<1>6. QED
  BY <1>1, <1>2, <1>4, <1>5 DEF Next

LEMMA KindKept == CallInv /\ HopsInv /\ KindInv /\ [Next]_vars => KindInv'
<1> SUFFICES ASSUME CallInv, HopsInv, KindInv, [Next]_vars PROVE KindInv'
  OBVIOUS
<1> USE DEF CallInv
<1>1. CASE CallAgain
  BY <1>1 DEF CallAgain, KindInv, EMPTY
<1>2. CASE CalculateU1
  <2>1. Line("U1", calculate_u1_fingerprint(probes[U1]), "seq", 0) /\ UNCHANGED probes
    BY <1>2 DEF CalculateU1, Line
  <2>2. QED
    BY <2>1, U1Kind, LineKeepsKinds
<1>3. CASE CalculateSeq
  <2> DEFINE s == samples_of(SEQ1, 6)
             line == [R |-> "Y", metrics_present |-> metrics_present(s),
                      TS |-> calculate_timestamp_fingerprint(s)]
  <2>1. Line("SEQ", line, "t1", 0) /\ UNCHANGED probes
    BY <1>3 DEF CalculateSeq, Line
  <2>2. TtlOf(line) = {}
    BY DEF TtlOf
  <2>3. QED
    BY <2>1, <2>2, LineKeepsKinds
<1>4. CASE CalculateT1
  <2>1. Line(T_LINE[1], calculate_t_tests(probes[SEQ1]), "ops", 0) /\ UNCHANGED probes
    BY <1>4 DEF CalculateT1, Line
  <2>2. pc # "u1"
    BY <1>4 DEF CalculateT1
  <2>3. QED
    BY <2>1, <2>2, LineKinds, LineKeepsKinds
<1>5. CASE CalculateOpsWin
  <2> DEFINE p == probes[n]
             line == IF ~p.received THEN NOT_RECEIVED
                     ELSE IF ~calculate_ops_test(p) THEN ERROR
                     ELSE [R |-> "Y", O |-> p.options, W |-> p.win]
  <2>1. /\ Line(O_LINE[n + 1], line, IF n = SEQ6 THEN "ie" ELSE "ops",
                IF n = SEQ6 THEN 0 ELSE n + 1)
        /\ UNCHANGED probes
    BY <1>5 DEF CalculateOpsWin, Line
  <2>2. TtlOf(line) = {}
    BY DEF TtlOf, NOT_RECEIVED, ERROR
  <2> HIDE DEF line
  <2>3. QED
    BY <2>1, <2>2, LineKeepsKinds
<1>6. CASE CalculateIE
  <2>1. /\ Line("IE", calculate_ie_fingerprint(probes[IE1], probes[IE2]), "ecn", 0)
        /\ UNCHANGED probes /\ pc # "u1"
    BY <1>6 DEF CalculateIE, Line
  <2>2. QED
    BY <2>1, LineKinds, LineKeepsKinds
<1>7. CASE CalculateECN
  <2>1. /\ Line("ECN", calculate_ecn_fingerprint(probes[ECN]), "t", 0)
        /\ UNCHANGED probes /\ pc # "u1"
    BY <1>7 DEF CalculateECN, Line
  <2>2. QED
    BY <2>1, LineKinds, LineKeepsKinds
<1>8. CASE CalculateT
  <2>1. /\ Line(T_LINE[n + 2], calculate_t_tests(probes[T2 + n]),
                IF n = 5 THEN "ipid" ELSE "t", IF n = 5 THEN 0 ELSE n + 1)
        /\ UNCHANGED probes /\ pc # "u1"
    BY <1>8 DEF CalculateT, Line
  <2>2. QED
    BY <2>1, LineKinds, LineKeepsKinds
<1>9. CASE CalculateIpIds
  <2> DEFINE s6  == samples_of(SEQ1, 6)
             e2  == samples_of(IE1, 2)
             ti  == calculate_ip_id_fingerprints("TI", s6)
             ii  == calculate_ip_id_fingerprints("II", e2)
             line(l) == [R |-> "Y", metrics_present |-> l.metrics_present, TS |-> l.TS,
                         TI |-> ti, II |-> ii,
                         CI |-> calculate_ip_id_fingerprints("CI", samples_of(ci_first, 3)),
                         SS |-> calculate_shared_sequence(s6, e2, ti, ii)]
  <2>1. /\ DOMAIN fp' = DOMAIN fp /\ UNCHANGED probes
        /\ \A g \in DOMAIN fp : fp'[g] = IF g = "SEQ" THEN line(fp["SEQ"]) ELSE fp[g]
    BY <1>9 DEF CalculateIpIds
  <2>2. \A l : TtlOf(line(l)) = {}
    BY DEF TtlOf
  <2> HIDE DEF line
  <2>3. \A g \in DOMAIN fp' : TtlOf(fp'[g]) \subseteq {Kind}
    BY <2>1, <2>2 DEF KindInv
  <2>4. Kind' = Kind
    BY <2>1 DEF Kind, Known, hops
  <2>5. QED
    BY <2>3, <2>4 DEF KindInv, TtlOf
<1>10. CASE UNCHANGED vars
  BY <1>10 DEF vars, KindInv, TtlOf, Kind, Known, hops
<1>11. QED
  BY <1>1, <1>2, <1>3, <1>4, <1>5, <1>6, <1>7, <1>8, <1>9, <1>10 DEF Next

-----------------------------------------------------------------------------
(* The names of the lines of T2 to T7.                                     *)
LEMMA TLineNames ==
  /\ \A p, q \in TProbe : T_LINE[p - T2 + 2] = T_LINE[q - T2 + 2] => p = q
  /\ \A p \in TProbe : T_LINE[p - T2 + 2] # "SEQ"
<1>1. TProbe = 9 .. 14 /\ T2 = 9
  BY ProbeSets
<1>2. /\ T_LINE[2] = "T2" /\ T_LINE[3] = "T3" /\ T_LINE[4] = "T4"
      /\ T_LINE[5] = "T5" /\ T_LINE[6] = "T6" /\ T_LINE[7] = "T7"
  BY DEF T_LINE
<1>3. \A p \in 9 .. 14 :
        p = 9 \/ p = 10 \/ p = 11 \/ p = 12 \/ p = 13 \/ p = 14
  OBVIOUS
<1>4. \A p \in 9 .. 14 :
        T_LINE[p - 9 + 2] = IF p = 9 THEN "T2" ELSE IF p = 10 THEN "T3"
                            ELSE IF p = 11 THEN "T4" ELSE IF p = 12 THEN "T5"
                            ELSE IF p = 13 THEN "T6" ELSE "T7"
  BY <1>2, <1>3
<1>5. QED
  BY <1>1, <1>3, <1>4

LEMMA TraceKept ==
  CallInv /\ RefusalInv /\ HopsInv /\ TraceInv /\ [Next]_vars => TraceInv'
<1> SUFFICES ASSUME CallInv, RefusalInv, HopsInv, TraceInv, [Next]_vars
             PROVE  TraceInv'
  OBVIOUS
<1>1. CASE CallAgain
  BY <1>1 DEF CallAgain, TraceInv, TestedBefore
<1>2. CASE CalculateU1 \/ CalculateSeq \/ CalculateT1 \/ CalculateIE
  <2>1. pc' \in {"seq", "t1", "ops", "ecn"} \/ (pc' = "done" /\ ~valid')
    BY <1>2 DEF CalculateU1, CalculateSeq, CalculateT1, CalculateIE, Line, CallInv
  <2>2. QED
    BY <2>1 DEF TraceInv, TestedBefore
<1>3. CASE CalculateOpsWin
  <2>1. pc' \in {"ops", "ie"} \/ (pc' = "done" /\ ~valid')
    BY <1>3 DEF CalculateOpsWin, Line, CallInv
  <2>2. QED
    BY <2>1 DEF TraceInv, TestedBefore
<1>4. CASE CalculateECN
  <2>1. (pc' = "t" /\ n' = 0) \/ (pc' = "done" /\ ~valid')
    BY <1>4 DEF CalculateECN, Line, CallInv
  <2>2. T2 .. T2 + 0 - 1 = {}
    BY ProbeSets
  <2>3. QED
    BY <2>1, <2>2 DEF TraceInv, TestedBefore
<1>5. CASE CalculateT
  <2> DEFINE name == T_LINE[n + 2]
             line == calculate_t_tests(probes[T2 + n])
  <2>1. /\ Matched(probes) /\ pc = "t" /\ n \in 0 .. 5 /\ ~valid
        /\ UNCHANGED <<probes, valid>>
    BY <1>5 DEF CalculateT, Line, CallInv
  <2>2. CASE line = ERROR
    <3>1. pc' = "done" /\ ~valid'
      BY <1>5, <2>1, <2>2 DEF CalculateT, Line
    <3>2. QED
      BY <3>1 DEF TraceInv
  <2>3. CASE line # ERROR
    <3>1. /\ fp' = [g \in DOMAIN fp \cup {name} |-> IF g = name THEN line ELSE fp[g]]
          /\ IF n = 5 THEN pc' = "ipid" ELSE pc' = "t" /\ n' = n + 1
      BY <1>5, <2>3 DEF CalculateT, Line
    <3>2. TestedBefore(pc', n') \subseteq TestedBefore(pc, n) \cup {T2 + n}
      BY <2>1, <3>1, ProbeSets DEF TestedBefore
    <3>3. TestedBefore(pc, n) \subseteq TProbe /\ T2 + n \in TProbe /\ TProbe \subseteq Probe
          /\ \A p \in TestedBefore(pc, n) : p # T2 + n
      BY <2>1, ProbeSets DEF TestedBefore
    <3>4. \A p : p = T2 + n => name = T_LINE[p - T2 + 2]
      <4>1. \A p : p = T2 + n => p - T2 + 2 = n + 2
        BY <2>1, ProbeSets
      <4>2. QED
        BY <4>1
    <3>5. name \in DOMAIN fp' /\ fp'[name] = line
      BY <3>1
    <3>6. probes[T2 + n].received => Traces(line, T2 + n)
      BY <2>1, <2>3, <3>3, TTestError, TLineTraces
    <3> HIDE DEF name, line
    <3>7. ASSUME NEW p \in TestedBefore(pc, n)
          PROVE  /\ T_LINE[p - T2 + 2] \in DOMAIN fp'
                 /\ fp'[T_LINE[p - T2 + 2]] = fp[T_LINE[p - T2 + 2]]
      <4>1. T_LINE[p - T2 + 2] \in DOMAIN fp
        BY <2>1 DEF TraceInv
      <4>2. p \in TProbe /\ T2 + n \in TProbe /\ p # T2 + n
        BY <3>3
      <4>3. T_LINE[p - T2 + 2] # name
        <5>1. PICK q \in TProbe : q = T2 + n
          BY <4>2
        <5>2. QED
          BY <3>4, <4>2, <5>1, TLineNames
      <4>4. QED
        BY <3>1, <4>1, <4>3
    <3>8. \A l, p : Traces(l, p)' <=> Traces(l, p)
      BY <2>1 DEF Traces, Known, hops
    <3>9. \A p \in TestedBefore(pc, n) \cup {T2 + n} :
            /\ T_LINE[p - T2 + 2] \in DOMAIN fp'
            /\ probes[p].received => Traces(fp'[T_LINE[p - T2 + 2]], p)
      <4> SUFFICES ASSUME NEW p \in TestedBefore(pc, n) \cup {T2 + n}
                   PROVE  /\ T_LINE[p - T2 + 2] \in DOMAIN fp'
                          /\ probes[p].received => Traces(fp'[T_LINE[p - T2 + 2]], p)
        OBVIOUS
      <4>1. CASE p \in TestedBefore(pc, n)
        BY <2>1, <3>7, <4>1 DEF TraceInv
      <4>2. CASE p = T2 + n
        BY <3>4, <3>5, <3>6, <4>2
      <4>3. QED
        BY <4>1, <4>2
    <3>10. QED
      BY <2>1, <3>2, <3>8, <3>9 DEF TraceInv, Traces, Known, hops
  <2>4. QED
    BY <2>2, <2>3
<1>6. CASE CalculateIpIds
  <2>1. /\ DOMAIN fp' = DOMAIN fp /\ UNCHANGED probes /\ pc = "ipid" /\ pc' = "done"
        /\ \A g \in DOMAIN fp : g # "SEQ" => fp'[g] = fp[g]
    BY <1>6 DEF CalculateIpIds
  <2>2. TestedBefore(pc', n') = TProbe /\ TestedBefore(pc, n) = TProbe
    BY <2>1 DEF TestedBefore
  <2>3. QED
    BY <2>1, <2>2, TLineNames DEF TraceInv, Traces, Known, hops
<1>7. CASE UNCHANGED vars
  BY <1>7 DEF vars, TraceInv, TestedBefore, Traces, Known, hops
<1>8. QED
  BY <1>1, <1>2, <1>3, <1>4, <1>5, <1>6, <1>7 DEF Next

LEMMA CIKept == CallInv /\ CIInv /\ [Next]_vars => CIInv'
<1> SUFFICES ASSUME CallInv, CIInv, [Next]_vars PROVE CIInv'
  OBVIOUS
<1>1. CASE CallAgain \/ CalculateU1
  <2>1. pc' = "u1" \/ pc' = "seq" \/ (pc' = "done" /\ ~valid')
    BY <1>1 DEF CallAgain, CalculateU1, Line, CallInv
  <2>2. QED
    BY <2>1 DEF CIInv
<1>2. CASE CalculateSeq
  <2>1. pc' = "t1" /\ "SEQ" \in DOMAIN fp'
    BY <1>2 DEF CalculateSeq, Line, ERROR
  <2>2. QED
    BY <2>1 DEF CIInv
<1>3. CASE CalculateT1 \/ CalculateIE \/ CalculateECN \/ CalculateOpsWin \/ CalculateT
  <2>1. \/ pc' = "done" /\ ~valid'
        \/ "SEQ" \in DOMAIN fp' /\ pc' # "done"
    BY <1>3 DEF CalculateT1, CalculateIE, CalculateECN, CalculateOpsWin, CalculateT,
       Line, CallInv, CIInv
  <2>2. QED
    BY <2>1 DEF CIInv
<1>4. CASE CalculateIpIds
  <2>1. /\ "SEQ" \in DOMAIN fp /\ pc' = "done" /\ UNCHANGED probes
        /\ fp'["SEQ"].CI = calculate_ip_id_fingerprints("CI", samples_of(ci_first, 3))
    BY <1>4 DEF CalculateIpIds, CIInv
  <2>2. ci_first = T5
    BY DEF ci_first, T2, T5
  <2>3. samples_of(T5, 3)' = samples_of(T5, 3)
    BY <2>1 DEF samples_of
  <2>4. QED
    BY <2>1, <2>2, <2>3 DEF CIInv
<1>5. CASE UNCHANGED vars
  <2>1. samples_of(T5, 3)' = samples_of(T5, 3) /\ UNCHANGED vars
    BY <1>5 DEF samples_of, vars
  <2>2. QED
    BY <2>1 DEF vars, CIInv
<1>6. QED
  BY <1>1, <1>2, <1>3, <1>4, <1>5 DEF Next

LEMMA LinesInit == Init => HopsInv /\ KindInv /\ TraceInv /\ CIInv
BY DEF Init, HopsInv, KindInv, TraceInv, CIInv, TestedBefore, EMPTY

LEMMA LinesInvariant ==
  Spec => [](CallInv /\ RefusalInv /\ HopsInv /\ KindInv /\ TraceInv /\ CIInv)
BY CallInit, LinesInit, CallKept, RefusalKept, HopsKept, KindKept, TraceKept,
   CIKept, PTL DEF Spec

(* The probes that go to the closed port.                                  *)
LEMMA ClosedPort ==
  LET cfg == [first |-> 1000, open |-> 80, closed |-> 81, ident |-> 0]
  IN  {p \in TcpProbe : dest_port(cfg, p) = cfg.closed} = T5 .. T7
<1>1. T5 = 12 /\ T7 = 14 /\ U1 = 15
  BY DEF T5, T7, U1
<1>2. QED
  BY <1>1, ProbeSets DEF dest_port

(* The lines of one fingerprint fit together: they give their times to     *)
(* live by the hop count of the U1 reply of the same scan and of no other, *)
(* and CI is about the closed port (src/src/fingerprint.c:43-260).         *)
THEOREM OneScanPerFingerprint == Spec => []LinesFitTogether
<1> DEFINE Inv == CallInv /\ RefusalInv /\ HopsInv /\ KindInv /\ TraceInv /\ CIInv
<1>1. ASSUME Inv, pc = "done", valid PROVE LinesFitTogether
  <2>1. \A g \in DOMAIN fp : TtlOf(fp[g]) \subseteq {Kind}
    BY <1>1 DEF KindInv
  <2>2. ASSUME NEW p \in Answered(TProbe), Known
        PROVE  fp[T_LINE[p - T2 + 2]].common.ttl.T
                 = probes[p].ttl + SENT_TTL - probes[U1].quoted.ttl
    <3>1. p \in TProbe /\ probes[p].received /\ p \in TestedBefore(pc, n)
      BY <1>1, <2>2 DEF Answered, TestedBefore
    <3>2. fp[T_LINE[p - T2 + 2]].common.ttl.T = probes[p].ttl + hops(probes[U1])
      BY <1>1, <2>2, <3>1 DEF TraceInv, Traces
    <3>3. /\ probes[p].ttl \in 0 .. 255 /\ probes[U1].quoted.ttl \in 0 .. 255
          /\ SENT_TTL \in 0 .. 255
      BY <1>1, <2>2, <3>1, ProbeSets, ScanFacts DEF CallInv, Matched, Known
    <3>4. \A a, b, c \in 0 .. 255 : a + (b - c) = a + b - c
      OBVIOUS
    <3>5. QED
      BY <3>2, <3>3, <3>4 DEF hops
  <2>3. fp["SEQ"].CI = calculate_ip_id_fingerprints("CI", samples_of(T5, 3))
    BY <1>1 DEF CIInv
  <2>4. QED
    BY <2>1, <2>2, <2>3, ClosedPort DEF LinesFitTogether, Kind, Known
<1>2. Inv => LinesFitTogether
  <2>1. CASE pc = "done" /\ valid
    BY <1>1, <2>1
  <2>2. CASE ~(pc = "done" /\ valid)
    BY <2>2 DEF LinesFitTogether
  <2>3. QED
    BY <2>1, <2>2
<1>3. QED
  BY <1>2, LinesInvariant, PTL

-----------------------------------------------------------------------------
(* The results that a test looks at are results.                           *)

(* The samples are the same whatever the width of the numbers.             *)
LEMMA SamplesOfIds ==
  /\ Ids!Samples = Selected(seq_probes, Sampled(seq_probes))
  /\ Ids!find_seq_samples(seq_probes) = Ids!Samples
BY DEF Ids!Samples, Ids!find_seq_samples, Ids!Selected, Selected, Ids!Sampled, Sampled

LEMMA SamplesOfNumbers ==
  /\ Numbers!Samples = Selected(seq_probes, Sampled(seq_probes))
  /\ Numbers!find_seq_samples(seq_probes) = Numbers!Samples
BY DEF Numbers!Samples, Numbers!find_seq_samples, Numbers!Selected, Selected,
   Numbers!Sampled, Sampled

LEMMA SamplesAreResults ==
  ASSUME NEW R, seq_probes \in Seq(R)
  PROVE  /\ Ids!Samples \in Seq(R) /\ Ids!find_seq_samples(seq_probes) = Ids!Samples
         /\ Numbers!Samples \in Seq(R)
         /\ Numbers!find_seq_samples(seq_probes) = Numbers!Samples
<1>1. Sampled(seq_probes) \in SUBSET DOMAIN seq_probes
  BY DEF Sampled
<1>2. Selected(seq_probes, Sampled(seq_probes)) \in Seq(R)
  BY <1>1, SelectedIsSeq
<1>3. QED
  BY <1>2, SamplesOfIds, SamplesOfNumbers

-----------------------------------------------------------------------------
(* Identifiers.                                                            *)

Identifiers == 0 .. ID_VALUES - 1

LEMMA IdSize == ID_VALUES \in Nat /\ ID_VALUES > 20000
BY DEF ID_VALUES

LEMMA UintSize == UINT32 \in Nat /\ UINT32 >= 4 * ID_VALUES
BY IdAssumption, UintAssumption

LEMMA FieldOfSeq ==
  ASSUME NEW s \in Seq(Ids!Result)
  PROVE  /\ [k \in DOMAIN s |-> s[k].ip_id] \in Seq(Identifiers)
         /\ Len([k \in DOMAIN s |-> s[k].ip_id]) = Len(s)
<1>1. Len(s) \in Nat /\ DOMAIN s = 1 .. Len(s)
  BY LenProperties
<1>2. \A k \in 1 .. Len(s) : s[k].ip_id \in Identifiers
  <2>0. Ids!ID_VALUES = ID_VALUES
    BY DEF Ids!ID_VALUES, ID_VALUES
  <2>1. \A r \in Ids!Result : r.ip_id \in Identifiers
    BY <2>0 DEF Ids!Result, Identifiers
  <2>2. \A k \in 1 .. Len(s) : s[k] \in Ids!Result
    BY ElementOfSeq
  <2>3. QED
    BY <2>1, <2>2
<1>3. PICK m \in Nat : m = Len(s)
  BY <1>1
<1>4. [k \in 1 .. m |-> s[k].ip_id] \in [1 .. m -> Identifiers]
  BY <1>2, <1>3
<1>5. \A f \in [1 .. m -> Identifiers] : f \in Seq(Identifiers) /\ Len(f) = m
  OBVIOUS
<1>6. QED
  BY <1>1, <1>3, <1>4, <1>5

(* A step that does not look random goes up.                               *)
LEMMA StepUp ==
  ASSUME NEW v \in Nat, NEW w \in Nat, v > 20000, w >= 4 * v,
         NEW x \in 0 .. v - 1, NEW y \in 0 .. v - 1, ~((x - y) % w > 20000)
  PROVE  y <= x /\ x - y <= 20000
<1>1. CASE y <= x
  <2>1. PICK d \in Int : d = x - y
    OBVIOUS
  <2>2. d = w * 0 + d /\ d \in 0 .. w - 1
    BY <1>1, <2>1
  <2>3. d % w = d
    BY <2>2, RemainderUnique
  <2>4. QED
    BY <1>1, <2>1, <2>3
<1>2. CASE x < y
  <2>1. PICK d \in Int, e \in Int : d = x - y /\ e = w + d
    OBVIOUS
  <2>2. d = w * (-1) + e /\ e \in 0 .. w - 1
    BY <1>2, <2>1
  <2>3. d % w = e
    BY <2>2, RemainderUnique
  <2>4. e > 20000
    BY <1>2, <2>1
  <2>5. QED
    BY <2>1, <2>3, <2>4
<1>3. QED
  BY <1>1, <1>2

LEMMA IdsOfSamples ==
  Ids!IpIds("TI", seq_probes) = [k \in DOMAIN Ids!Samples |-> Ids!Samples[k].ip_id]
<1>1. {k \in DOMAIN seq_probes :
         seq_probes[k].received /\ ("TI" = "TI" => seq_probes[k].syn_ack)}
      = Sampled(seq_probes)
  BY DEF Sampled
<1>2. Ids!Selected(seq_probes, Sampled(seq_probes)) = Ids!Samples
  BY SamplesOfIds DEF Ids!Selected, Selected
<1>3. QED
  BY <1>1, <1>2 DEF Ids!IpIds

(* The samples of a counter that counts go up.                             *)
GoesUp(s) ==
  \A i, k \in DOMAIN s :
    i < k => s[i].ip_id <= s[k].ip_id /\ s[k].ip_id - s[i].ip_id <= 20000 * (k - i)

LEMMA CountingGoesUp ==
  ASSUME seq_probes \in Seq(Ids!Result),
         Ids!calculate_ip_id_fingerprints("TI", seq_probes) \in Ids!Counting
  PROVE  Ids!Samples \in Seq(Ids!Result) /\ Len(Ids!Samples) >= 3 /\ GoesUp(Ids!Samples)
<1> DEFINE s   == Ids!Samples
           ids == [k \in DOMAIN s |-> s[k].ip_id]
<1>1. s \in Seq(Ids!Result)
  BY SamplesAreResults
<1>2. ids \in Seq(Identifiers) /\ Len(ids) = Len(s)
  BY <1>1, FieldOfSeq
<1>3. Len(s) \in Nat /\ DOMAIN s = 1 .. Len(s) /\ DOMAIN ids = 1 .. Len(s)
  BY <1>1, LenProperties
<1>4. Ids!IpIds("TI", seq_probes) = ids
  BY IdsOfSamples
<1>5. \A k \in 1 .. Len(s) : s[k].ip_id = ids[k] /\ ids[k] \in Identifiers
  <2>1. \A k \in 1 .. Len(ids) : ids[k] \in Identifiers
    BY <1>2, ElementOfSeq
  <2>2. QED
    BY <1>2, <1>3, <2>1
<1> HIDE DEF s, ids
<1>6. Len(ids) >= 3 /\ Ids!IpIdKind(ids) \in Ids!Counting
  <2>1. Ids!minimum_samples("TI") = 3 /\ "UNAVAILABLE" \notin Ids!Counting
    BY DEF Ids!minimum_samples, Ids!Counting
  <2>2. Len(ids) \in Nat
    BY <1>2, <1>3
  <2>3. QED
    BY <1>4, <2>1, <2>2 DEF Ids!calculate_ip_id_fingerprints
<1>7. ~Ids!IsRandom(ids)
  <2>1. "ZERO" \notin Ids!Counting /\ "RANDOM" \notin Ids!Counting
    BY DEF Ids!Counting
  <2>2. QED
    BY <1>6, <2>1 DEF Ids!IpIdKind
<1>8. \A k \in 1 .. Len(s) - 1 : ids[k] <= ids[k + 1] /\ ids[k + 1] - ids[k] <= 20000
  <2> SUFFICES ASSUME NEW k \in 1 .. Len(s) - 1
               PROVE  ids[k] <= ids[k + 1] /\ ids[k + 1] - ids[k] <= 20000
    OBVIOUS
  <2>1. ~((ids[k + 1] - ids[k]) % UINT32 > 20000)
    BY <1>2, <1>3, <1>6, <1>7 DEF Ids!IsRandom, Ids!Steps, Ids!raw_diff
  <2>2. ids[k] \in Identifiers /\ ids[k + 1] \in Identifiers
    BY <1>3, <1>5
  <2>3. PICK x \in Identifiers, y \in Identifiers : x = ids[k + 1] /\ y = ids[k]
    BY <2>2
  <2>4. PICK v \in Nat, w \in Nat :
          v = ID_VALUES /\ w = UINT32 /\ v > 20000 /\ w >= 4 * v
    BY IdSize, UintSize
  <2>5. x \in 0 .. v - 1 /\ y \in 0 .. v - 1 /\ ~((x - y) % w > 20000)
    BY <2>1, <2>3, <2>4 DEF Identifiers
  <2>6. y <= x /\ x - y <= 20000
    BY <2>4, <2>5, StepUp
  <2>7. QED
    BY <2>3, <2>6
<1> DEFINE T == {d \in Nat : \A i, k \in 1 .. Len(s) :
                   k = i + d => ids[i] <= ids[k] /\ ids[k] - ids[i] <= 20000 * d}
<1>9. \A k \in 1 .. Len(s) : ids[k] \in Int
  BY <1>5, IdSize DEF Identifiers
<1>10. 0 \in T
  BY <1>3, <1>9
<1>11. ASSUME NEW d \in Nat, d \in T PROVE d + 1 \in T
  <2> SUFFICES ASSUME NEW i \in 1 .. Len(s), NEW k \in 1 .. Len(s), k = i + (d + 1)
               PROVE  ids[i] <= ids[k] /\ ids[k] - ids[i] <= 20000 * (d + 1)
    OBVIOUS
  <2>1. PICK m \in 1 .. Len(s) - 1 : m = i + d /\ k = m + 1
    BY <1>3
  <2>2. m \in 1 .. Len(s)
    BY <1>3, <2>1
  <2>3. ids[i] <= ids[m] /\ ids[m] - ids[i] <= 20000 * d
    BY <1>11, <2>1, <2>2
  <2>4. ids[m] <= ids[k] /\ ids[k] - ids[m] <= 20000
    BY <1>8, <2>1
  <2>5. ids[i] \in Int /\ ids[m] \in Int /\ ids[k] \in Int
    BY <1>9, <2>2
  <2>6. QED
    BY <2>3, <2>4, <2>5
<1> HIDE DEF T
<1>12. \A d \in Nat : d \in T
  BY <1>10, <1>11, Induction
<1>13. GoesUp(s)
  <2> SUFFICES ASSUME NEW i \in DOMAIN s, NEW k \in DOMAIN s, i < k
               PROVE  s[i].ip_id <= s[k].ip_id /\ s[k].ip_id - s[i].ip_id <= 20000 * (k - i)
    BY DEF GoesUp
  <2>1. PICK d \in Nat : i \in 1 .. Len(s) /\ k \in 1 .. Len(s) /\ k = i + d /\ d = k - i
    BY <1>3
  <2>2. ids[i] <= ids[k] /\ ids[k] - ids[i] <= 20000 * (k - i)
    <3>1. d \in T
      BY <1>12
    <3>2. \A a \in 1 .. Len(s) : \A b \in 1 .. Len(s) :
            b = a + d => ids[a] <= ids[b] /\ ids[b] - ids[a] <= 20000 * d
      BY <3>1 DEF T
    <3>3. i \in 1 .. Len(s) /\ k \in 1 .. Len(s) /\ k = i + d
      BY <2>1
    <3>4. \A b \in 1 .. Len(s) :
            b = i + d => ids[i] <= ids[b] /\ ids[b] - ids[i] <= 20000 * d
      BY <3>2, <3>3
    <3>5. ids[i] <= ids[k] /\ ids[k] - ids[i] <= 20000 * d
      BY <3>3, <3>4
    <3>6. QED
      BY <2>1, <3>5
  <2>3. s[i].ip_id = ids[i] /\ s[k].ip_id = ids[k]
    BY <1>5, <2>1
  <2>4. QED
    BY <2>2, <2>3
<1>14. Len(s) >= 3
  BY <1>2, <1>6
<1>15. QED
  BY <1>1, <1>13, <1>14 DEF s

(* SS: nothing wraps between counting samples.                             *)
LEMMA AverageStep ==
  ASSUME NEW v \in Nat, NEW w \in Nat, w >= 4 * v, NEW c \in Nat, c > 0,
         NEW x \in 0 .. v - 1, NEW y \in 0 .. v - 1, x <= y
  PROVE  /\ (y - x) % w = y - x
         /\ (y - x) \div c \in Nat
         /\ (y + 3 * ((y - x) \div c)) % w = y + 3 * ((y - x) \div c)
<1>1. PICK d \in Nat : d = y - x /\ d < v
  OBVIOUS
<1>2. d = w * 0 + d /\ d \in 0 .. w - 1
  BY <1>1
<1>3. d % w = d
  BY <1>2, RemainderUnique
<1>4. PICK q \in Int, r \in 0 .. c - 1 : q = d \div c /\ d = c * q + r
  BY Division
<1>5. q >= 0 /\ q <= d
  <2>1. q >= 0
    BY <1>1, <1>4
  <2>2. c * q >= q
    BY <2>1
  <2>3. QED
    BY <1>4, <2>1, <2>2
<1>6. PICK e \in Int : e = y + 3 * q
  BY <1>5
<1>7. e = w * 0 + e /\ e \in 0 .. w - 1
  BY <1>1, <1>5, <1>6
<1>8. e % w = e
  BY <1>7, RemainderUnique
<1>9. QED
  BY <1>1, <1>3, <1>4, <1>5, <1>6, <1>8

LEMMA SharedExact ==
  ASSUME seq_probes \in Seq(Ids!Result),
         NEW ti, ti = Ids!calculate_ip_id_fingerprints("TI", seq_probes), NEW ii,
         Ids!ss_defined(seq_probes, ie, ti, ii)
  PROVE  LET s     == Ids!Samples
             first == s[1].ip_id
             last  == s[Len(s)].ip_id
         IN  Ids!calculate_shared_sequence(seq_probes, ie, ti, ii) =
               IF ie[1].ip_id < last + 3 * ((last - first) \div (Len(s) - 1))
               THEN "SAME" ELSE "OTHER"
<1> DEFINE s     == Ids!Samples
           first == s[1].ip_id
           last  == s[Len(s)].ip_id
<1>1. s \in Seq(Ids!Result) /\ Len(s) >= 3 /\ GoesUp(s)
  BY CountingGoesUp DEF Ids!ss_defined
<1>2. Len(s) \in Nat /\ DOMAIN s = 1 .. Len(s)
  BY <1>1, LenProperties
<1>3. 1 \in DOMAIN s /\ Len(s) \in DOMAIN s /\ 1 < Len(s) /\ Len(s) - 1 \in Nat /\ Len(s) - 1 > 0
  BY <1>1, <1>2
<1>4. first <= last
  BY <1>1, <1>3 DEF GoesUp
<1>5. first \in Identifiers /\ last \in Identifiers
  <2>1. [k \in DOMAIN s |-> s[k].ip_id] \in Seq(Identifiers)
        /\ Len([k \in DOMAIN s |-> s[k].ip_id]) = Len(s)
    BY <1>1, FieldOfSeq
  <2>2. \A k \in 1 .. Len(s) : [j \in DOMAIN s |-> s[j].ip_id][k] \in Identifiers
    BY <2>1, ElementOfSeq
  <2>3. QED
    BY <1>2, <1>3, <2>2
<1>6. /\ Ids!first_id(seq_probes) = first /\ Ids!last_id(seq_probes) = last
      /\ Ids!find_seq_samples(seq_probes) = s
  BY SamplesOfIds DEF Ids!first_id, Ids!last_id
<1> HIDE DEF s, first, last
<1>7. /\ \E v, w \in Nat : v = ID_VALUES /\ w = UINT32 /\ w >= 4 * v
      /\ \E c \in Nat : c = Len(s) - 1 /\ c > 0
  <2>1. \E v, w \in Nat : v = ID_VALUES /\ w = UINT32 /\ w >= 4 * v
    BY IdSize, UintSize
  <2>2. \E c \in Nat : c = Len(s) - 1 /\ c > 0
    BY <1>3
  <2>3. QED
    BY <2>1, <2>2
<1>8. PICK v \in Nat, w \in Nat, c \in Nat :
        /\ v = ID_VALUES /\ w = UINT32 /\ c = Len(s) - 1 /\ w >= 4 * v /\ c > 0
  BY <1>7
<1>9. PICK x \in 0 .. v - 1, y \in 0 .. v - 1 : x = first /\ y = last /\ x <= y
  BY <1>4, <1>5, <1>8 DEF Identifiers
<1>10. /\ (y - x) % w = y - x
      /\ (y + 3 * ((y - x) \div c)) % w = y + 3 * ((y - x) \div c)
  <2>1. w >= 4 * v /\ c > 0 /\ x <= y
    BY <1>8, <1>9
  <2>2. QED
    BY <2>1, AverageStep
<1>11. Ids!limit(seq_probes) = last + 3 * ((last - first) \div (Len(s) - 1))
  BY <1>6, <1>8, <1>9, <1>10 DEF Ids!limit, Ids!avg
<1>12. QED
  BY <1>11 DEF Ids!calculate_shared_sequence, s, first, last

(* What is kept of the SEQ tests on identifiers.                           *)
IdInv ==
  /\ seq_probes \in Seq(Ids!Result)
  /\ seq # NONE =>
       /\ seq.ti = Ids!calculate_ip_id_fingerprints("TI", seq_probes)
       /\ seq.ss = Ids!calculate_shared_sequence(seq_probes, ie, seq.ti, seq.ii)

LEMMA IdInit == Ids!InitIds => IdInv
BY IdAssumption DEF Ids!InitIds, IdInv

LEMMA IdKept == IdInv /\ [Ids!Calculate]_(Ids!vars) => IdInv'
<1>1. CASE Ids!Calculate
  BY <1>1 DEF Ids!Calculate, IdInv
<1>2. CASE UNCHANGED Ids!vars
  BY <1>2 DEF Ids!vars, IdInv
<1>3. QED
  BY <1>1, <1>2

LEMMA IdVerdicts == IdInv => Ids!CountingNeverWraps /\ Ids!SharedSequenceExact
<1> SUFFICES ASSUME IdInv PROVE Ids!CountingNeverWraps /\ Ids!SharedSequenceExact
  OBVIOUS
<1>1. Ids!CountingNeverWraps
  <2>1. seq # NONE /\ seq.ti \in Ids!Counting => GoesUp(Ids!Samples)
    BY CountingGoesUp DEF IdInv
  <2>2. QED
    BY <2>1 DEF GoesUp, Ids!CountingNeverWraps
<1>2. Ids!SharedSequenceExact
  <2> SUFFICES ASSUME seq # NONE, seq.ss # "UNAVAILABLE"
               PROVE  LET first == Ids!Samples[1].ip_id
                          last  == Ids!Samples[Len(Ids!Samples)].ip_id
                      IN  seq.ss = "SAME" <=>
                            ie[1].ip_id < last + 3 * ((last - first)
                                                        \div (Len(Ids!Samples) - 1))
    BY DEF Ids!SharedSequenceExact
  <2>1. Ids!ss_defined(seq_probes, ie, seq.ti, seq.ii)
    BY DEF IdInv, Ids!calculate_shared_sequence
  <2>2. QED
    BY <2>1, SharedExact DEF IdInv
<1>3. QED
  BY <1>1, <1>2

-----------------------------------------------------------------------------
(* Euclid's algorithm.                                                     *)

Pairs == Nat \X Nat

Euclid(f) == [p \in Nat \X Nat |-> IF p[2] = 0 THEN p[1] ELSE f[<<p[2], p[1] % p[2]>>]]

LEMMA GcdIsChosen == Numbers!gcd = CHOOSE f : f = Euclid(f)
BY Zenon DEF Numbers!gcd, Euclid

LEMMA EuclidAt ==
  ASSUME NEW f, NEW a \in Nat, NEW b \in Nat
  PROVE  Euclid(f)[<<a, b>>] = IF b = 0 THEN a ELSE f[<<b, a % b>>]
<1>1. \A p : p = <<a, b>> => p \in Nat \X Nat /\ p[1] = a /\ p[2] = b
  OBVIOUS
<1>2. QED
  BY <1>1 DEF Euclid

LEMMA Remainders ==
  ASSUME NEW a \in Nat, NEW b \in Nat, b # 0
  PROVE  a % b \in Nat /\ a % b < b
BY Division

(* The equation of the recursion has a solution: the iteration that stops  *)
(* after more steps than the second number.                                *)
LEMMA EuclidExists == \E f : f = Euclid(f)
<1> DEFINE S == [Pairs -> Nat]
           c == [p \in Pairs |-> 0]
           g == [x \in Nat \X S |-> Euclid(x[2])]
<1>1. c \in S
  OBVIOUS
<1>2. g \in StepOn(S)
  <2>1. ASSUME NEW f \in S PROVE Euclid(f) \in S
    <3>1. ASSUME NEW p \in Pairs
          PROVE  (IF p[2] = 0 THEN p[1] ELSE f[<<p[2], p[1] % p[2]>>]) \in Nat
      <4>1. p[1] \in Nat /\ p[2] \in Nat
        BY DEF Pairs
      <4>2. p[2] # 0 => p[1] % p[2] \in Nat
        BY <4>1, Remainders
      <4>3. p[2] # 0 => <<p[2], p[1] % p[2]>> \in Pairs
        BY <4>1, <4>2 DEF Pairs
      <4>4. QED
        BY <4>1, <4>3
    <3>2. QED
      BY <3>1 DEF Euclid, Pairs
  <2>2. \A x \in Nat \X S : x[2] \in S
    OBVIOUS
  <2>3. \A x \in Nat \X S : Euclid(x[2]) \in S
    BY <2>1, <2>2
  <2>4. QED
    BY <2>3 DEF StepOn
<1>3. \A j \in Nat, f \in S : g[<<j, f>>] = Euclid(f)
  OBVIOUS
<1> HIDE DEF S, c, g
<1>4. PICK h \in [Nat -> S] : h[0] = c /\ \A j \in Nat : h[j + 1] = g[<<j, h[j]>>]
  BY <1>1, <1>2, Recursion
<1>5. \A j \in Nat : h[j] \in S /\ h[j + 1] = Euclid(h[j])
  BY <1>3, <1>4
<1>6. \A j \in Nat : \A a, b \in Nat :
        h[j + 1][<<a, b>>] = IF b = 0 THEN a ELSE h[j][<<b, a % b>>]
  <2> SUFFICES ASSUME NEW j \in Nat, NEW a \in Nat, NEW b \in Nat
               PROVE  h[j + 1][<<a, b>>] = IF b = 0 THEN a ELSE h[j][<<b, a % b>>]
    OBVIOUS
  <2>1. \A f : Euclid(f)[<<a, b>>] = IF b = 0 THEN a ELSE f[<<b, a % b>>]
    BY EuclidAt
  <2>2. h[j + 1] = Euclid(h[j])
    BY <1>5
  <2>3. QED
    BY <2>1, <2>2
(* More steps change nothing.                                              *)
<1> DEFINE T == {j \in Nat : \A k \in Nat : \A a, b \in Nat :
                   b < j /\ j <= k => h[k][<<a, b>>] = h[j][<<a, b>>]}
<1>7. 0 \in T
  OBVIOUS
<1>8. ASSUME NEW j \in Nat, j \in T PROVE j + 1 \in T
  <2> SUFFICES ASSUME NEW k \in Nat, NEW a \in Nat, NEW b \in Nat, b < j + 1, j + 1 <= k
               PROVE  h[k][<<a, b>>] = h[j + 1][<<a, b>>]
    OBVIOUS
  <2>1. PICK m \in Nat : k = m + 1 /\ j <= m
    <3>1. k - 1 \in Nat /\ k = (k - 1) + 1 /\ j <= k - 1
      OBVIOUS
    <3>2. QED
      BY <3>1
  <2>2. h[k][<<a, b>>] = IF b = 0 THEN a ELSE h[m][<<b, a % b>>]
    BY <1>6, <2>1
  <2>3. h[j + 1][<<a, b>>] = IF b = 0 THEN a ELSE h[j][<<b, a % b>>]
    BY <1>6
  <2>4. ASSUME b # 0 PROVE h[m][<<b, a % b>>] = h[j][<<b, a % b>>]
    <3>1. PICK r \in Nat : r = a % b /\ r < b
      BY <2>4, Remainders
    <3>2. r < j
      BY <3>1
    <3>3. h[m][<<b, r>>] = h[j][<<b, r>>]
      BY <1>8, <2>1, <3>2
    <3>4. QED
      BY <3>1, <3>3
  <2>5. QED
    BY <2>2, <2>3, <2>4
<1> HIDE DEF T
<1>9. \A j \in Nat : j \in T
  BY <1>7, <1>8, Induction
<1> DEFINE W == [p \in Pairs |-> h[p[2] + 1][p]]
<1>10. \A a, b \in Nat : W[<<a, b>>] = h[b + 1][<<a, b>>]
  <2>1. \A a, b \in Nat : \A p : p = <<a, b>> => p \in Pairs /\ p[2] = b
    BY DEF Pairs
  <2>2. QED
    BY <2>1
<1>11. W = [p \in Pairs |-> W[p]]
  OBVIOUS
<1> HIDE DEF W
<1>12. \A f : f = W => f = Euclid(f)
  <2>1. ASSUME NEW a \in Nat, NEW b \in Nat
        PROVE  W[<<a, b>>] = Euclid(W)[<<a, b>>]
    <3>1. W[<<a, b>>] = IF b = 0 THEN a ELSE h[b][<<b, a % b>>]
      BY <1>6, <1>10
    <3>2. Euclid(W)[<<a, b>>] = IF b = 0 THEN a ELSE W[<<b, a % b>>]
      BY EuclidAt
    <3>3. ASSUME b # 0 PROVE h[b][<<b, a % b>>] = W[<<b, a % b>>]
      <4>1. PICK r \in Nat : r = a % b /\ r < b
        BY <3>3, Remainders
      <4>2. W[<<b, r>>] = h[r + 1][<<b, r>>]
        BY <1>10
      <4>3. PICK e \in Nat : e = r + 1 /\ e <= b /\ r < e
        BY <4>1
      <4>4. e \in T
        BY <1>9
      <4>5. h[b][<<b, r>>] = h[e][<<b, r>>]
        BY <4>3, <4>4 DEF T
      <4>6. QED
        BY <4>1, <4>2, <4>3, <4>5
    <3>4. QED
      BY <3>1, <3>2, <3>3
  <2>2. \A p \in Pairs : p = <<p[1], p[2]>> /\ p[1] \in Nat /\ p[2] \in Nat
    BY DEF Pairs
  <2>3. \A p \in Pairs : W[p] = Euclid(W)[p]
    BY <2>1, <2>2
  <2>4. Euclid(W) = [p \in Pairs |-> Euclid(W)[p]]
    BY DEF Euclid, Pairs
  <2>5. QED
    BY <1>11, <2>3, <2>4
<1>13. QED
  BY <1>12

LEMMA GcdEquation ==
  ASSUME NEW a \in Nat, NEW b \in Nat
  PROVE  Numbers!gcd[<<a, b>>] = IF b = 0 THEN a ELSE Numbers!gcd[<<b, a % b>>]
<1> DEFINE G == CHOOSE f : f = Euclid(f)
<1>1. G = Euclid(G)
  BY EuclidExists
<1>2. \A f : Euclid(f)[<<a, b>>] = IF b = 0 THEN a ELSE f[<<b, a % b>>]
  BY EuclidAt
<1> HIDE DEF G
<1>3. G[<<a, b>>] = IF b = 0 THEN a ELSE G[<<b, a % b>>]
  BY <1>1, <1>2
<1>4. Numbers!gcd = G
  BY GcdIsChosen DEF G
<1>5. QED
  BY <1>3, <1>4

(* c divides x.                                                            *)
Divides(c, x) == \E q \in Nat : x = c * q

LEMMA DividesRemainder ==
  ASSUME NEW c \in Nat, c # 0, NEW x \in Nat
  PROVE  Divides(c, x) <=> x % c = 0
<1>1. PICK q \in Int, r \in 0 .. c - 1 : q = x \div c /\ r = x % c /\ x = c * q + r
  BY Division
<1>2. r = 0 => q \in Nat /\ x = c * q
  BY <1>1
<1>3. ASSUME NEW e \in Nat, x = c * e PROVE r = 0
  <2>1. 0 \in 0 .. c - 1 /\ x = c * e + 0
    BY <1>3
  <2>2. x % c = 0
    BY <2>1, RemainderUnique
  <2>3. QED
    BY <1>1, <2>2
<1>4. QED
  BY <1>1, <1>2, <1>3 DEF Divides

LEMMA DividesStep ==
  ASSUME NEW c \in Nat, c # 0, NEW a \in Nat, NEW b \in Nat, b # 0
  PROVE  Divides(c, b) => (Divides(c, a % b) <=> Divides(c, a))
<1> SUFFICES ASSUME Divides(c, b) PROVE Divides(c, a % b) <=> Divides(c, a)
  OBVIOUS
<1>1. PICK q \in Int, r \in 0 .. b - 1 : q = a \div b /\ r = a % b /\ a = b * q + r
  BY Division
<1>2. PICK e \in Nat : b = c * e
  BY DEF Divides
<1>3. q \in Nat /\ r \in Nat
  BY <1>1
<1>4. b * q = c * (e * q)
  BY <1>2, <1>3
<1>5. PICK d \in Nat : d = e * q /\ a = c * d + r
  BY <1>1, <1>3, <1>4
<1>6. ASSUME NEW f \in Nat, r = c * f PROVE Divides(c, a)
  <2>1. a = c * (d + f) /\ d + f \in Nat
    BY <1>5, <1>6
  <2>2. QED
    BY <2>1 DEF Divides
<1>7. ASSUME NEW f \in Nat, a = c * f PROVE Divides(c, r)
  <2>1. r = c * (f - d) /\ f - d \in Int
    BY <1>3, <1>5, <1>7
  <2>2. f - d >= 0
    BY <1>3, <2>1
  <2>3. f - d \in Nat
    BY <2>1, <2>2
  <2>4. QED
    BY <2>1, <2>3 DEF Divides
<1>8. QED
  BY <1>1, <1>6, <1>7 DEF Divides

(* The common divisors of two numbers are the divisors of what the         *)
(* algorithm returns.                                                      *)
Common(g, a, b) ==
  g \in Nat /\ \A c \in Nat \ {0} : Divides(c, g) <=> Divides(c, a) /\ Divides(c, b)

LEMMA GcdIsCommon ==
  ASSUME NEW a \in Nat, NEW b \in Nat
  PROVE  Common(Numbers!gcd[<<a, b>>], a, b)
<1> DEFINE G == Numbers!gcd
           T == {j \in Nat : \A x \in Nat : Common(G[<<x, j>>], x, j)}
<1> HIDE DEF G
<1>1. \A x, y \in Nat : G[<<x, y>>] = IF y = 0 THEN x ELSE G[<<y, x % y>>]
  BY GcdEquation DEF G
<1>2. ASSUME NEW j \in Nat, \A k \in 0 .. j - 1 : k \in T PROVE j \in T
  <2> SUFFICES ASSUME NEW x \in Nat PROVE Common(G[<<x, j>>], x, j)
    OBVIOUS
  <2>1. CASE j = 0
    <3>1. G[<<x, j>>] = x
      BY <1>1, <2>1
    <3>2. \A c \in Nat \ {0} : Divides(c, 0)
      <4>1. \A c \in Nat : 0 = c * 0
        OBVIOUS
      <4>2. QED
        BY <4>1 DEF Divides
    <3>3. QED
      BY <2>1, <3>1, <3>2 DEF Common
  <2>2. CASE j # 0
    <3>1. PICK r \in 0 .. j - 1 : r = x % j
      BY <2>2, Remainders
    <3>2. G[<<x, j>>] = G[<<j, r>>]
      BY <1>1, <2>2, <3>1
    <3>3. Common(G[<<j, r>>], j, r)
      BY <1>2, <3>1
    <3>4. \A c \in Nat \ {0} : Divides(c, j) => (Divides(c, r) <=> Divides(c, x))
      BY <2>2, <3>1, DividesStep
    <3>5. QED
      BY <3>2, <3>3, <3>4 DEF Common
  <2>3. QED
    BY <2>1, <2>2
<1> HIDE DEF T
<1>3. b \in T
  BY <1>2, StrongInduction
<1>4. QED
  BY <1>3 DEF T, G

(* The loop over an array.                                                 *)
ArrayLoop(arr, f) ==
  [k \in 0 .. Len(arr) |->
     IF k = 0 THEN 0 ELSE IF f[k - 1] = 1 THEN 1 ELSE Numbers!gcd[<<f[k - 1], arr[k]>>]]

LEMMA ArrayIsChosen ==
  ASSUME NEW arr
  PROVE  Numbers!gcd_array(arr) =
           IF arr = <<>> THEN Numbers!UNAVAILABLE_SIG(SMALL)
           ELSE (CHOOSE f : f = ArrayLoop(arr, f))[Len(arr)]
BY Zenon DEF Numbers!gcd_array, ArrayLoop

LEMMA ArrayLoopExists ==
  ASSUME NEW arr \in Seq(Nat)
  PROVE  \E f : f = ArrayLoop(arr, f)
<1> DEFINE S == Nat
           c == 0
           G == Numbers!gcd
           e(k) == IF k \in DOMAIN arr THEN arr[k] ELSE 0
           g == [x \in Nat \X S |-> IF x[2] = 1 THEN 1 ELSE G[<<x[2], e(x[1] + 1)>>]]
<1>1. Len(arr) \in Nat /\ DOMAIN arr = 1 .. Len(arr)
  BY LenProperties
<1>2. \A k \in Nat : e(k) \in Nat
  <2>1. \A k \in DOMAIN arr : arr[k] \in Nat
    BY <1>1, ElementOfSeq
  <2>2. QED
    BY <2>1
<1>3. \A k \in 1 .. Len(arr) : e(k) = arr[k]
  BY <1>1
<1> HIDE DEF e, G
<1>4. \A a, b \in Nat : G[<<a, b>>] \in Nat
  BY GcdIsCommon DEF Common, G
<1>5. g \in StepOn(S)
  <2>1. ASSUME NEW x \in Nat \X S
        PROVE  (IF x[2] = 1 THEN 1 ELSE G[<<x[2], e(x[1] + 1)>>]) \in S
    <3>1. x[1] + 1 \in Nat /\ x[2] \in Nat
      OBVIOUS
    <3>2. e(x[1] + 1) \in Nat
      BY <1>2, <3>1
    <3>3. QED
      BY <1>4, <3>1, <3>2
  <2>2. QED
    BY <2>1 DEF StepOn
<1>6. \A j \in Nat, r \in Nat : g[<<j, r>>] = IF r = 1 THEN 1 ELSE G[<<r, e(j + 1)>>]
  OBVIOUS
<1>7. c \in S
  OBVIOUS
<1> HIDE DEF S, c, g
<1>8. PICK h \in [Nat -> S] : h[0] = c /\ \A j \in Nat : h[j + 1] = g[<<j, h[j]>>]
  BY <1>5, <1>7, Recursion
<1>9. h[0] = 0 /\ \A j \in Nat : h[j] \in Nat
  BY <1>8 DEF S, c
<1>10. \A j \in Nat : h[j + 1] = IF h[j] = 1 THEN 1 ELSE G[<<h[j], e(j + 1)>>]
  BY <1>6, <1>8, <1>9
<1> DEFINE W == [k \in 0 .. Len(arr) |-> h[k]]
<1>11. \A f : f = W => f = ArrayLoop(arr, f)
  <2>1. ASSUME NEW k \in 0 .. Len(arr)
        PROVE  W[k] = IF k = 0 THEN 0 ELSE IF W[k - 1] = 1 THEN 1 ELSE G[<<W[k - 1], arr[k]>>]
    <3>1. CASE k = 0
      BY <1>9, <3>1
    <3>2. CASE k # 0
      <4>1. PICK j \in Nat : k = j + 1 /\ k - 1 = j
        <5>1. k - 1 \in Nat /\ k = (k - 1) + 1
          BY <1>1, <3>2
        <5>2. QED
          BY <5>1
      <4>2. j \in 0 .. Len(arr) /\ k \in 1 .. Len(arr)
        BY <1>1, <4>1
      <4>3. W[k] = h[k] /\ W[j] = h[j]
        BY <4>2
      <4>4. h[k] = IF h[j] = 1 THEN 1 ELSE G[<<h[j], e(k)>>]
        BY <1>10, <4>1
      <4>5. e(k) = arr[k]
        BY <1>3, <4>2
      <4>6. QED
        BY <3>2, <4>1, <4>3, <4>4, <4>5
    <3>3. QED
      BY <3>1, <3>2
  <2>2. ArrayLoop(arr, W) =
          [k \in 0 .. Len(arr) |->
             IF k = 0 THEN 0 ELSE IF W[k - 1] = 1 THEN 1 ELSE G[<<W[k - 1], arr[k]>>]]
    BY DEF ArrayLoop, G
  <2>3. W = [k \in 0 .. Len(arr) |-> W[k]]
    OBVIOUS
  <2> HIDE DEF W
  <2>4. QED
    BY <2>1, <2>2, <2>3
<1> HIDE DEF W
<1>12. QED
  BY <1>11

LEMMA DividesOne ==
  /\ \A c \in Nat : Divides(c, 1) => c = 1
  /\ \A c \in Nat \ {0}, x \in Nat : c = 1 => Divides(c, x)
  /\ \A c \in Nat \ {0} : \A x : x = 0 => Divides(c, x)
<1>1. ASSUME NEW c \in Nat, NEW q \in Nat, NEW e, e = 1, e = c * q PROVE c = 1
  <2>1. c # 0 /\ q # 0
    BY <1>1
  <2>2. c * q >= c
    BY <2>1
  <2>3. QED
    BY <1>1, <2>1, <2>2
<1>2. \A c \in Nat : Divides(c, 1) => c = 1
  BY <1>1 DEF Divides
<1>3. \A c \in Nat, x \in Nat : c = 1 => x = c * x
  OBVIOUS
<1>4. \A c \in Nat : 0 = c * 0
  OBVIOUS
<1>5. \A c \in Nat \ {0}, x \in Nat : c = 1 => Divides(c, x)
  BY <1>3 DEF Divides
<1>6. \A c \in Nat \ {0} : \A x : x = 0 => Divides(c, x)
  BY <1>4 DEF Divides
<1>7. QED
  BY <1>2, <1>5, <1>6

(* The divisors of the result are the common divisors of the array.        *)
LEMMA ArrayGcd ==
  ASSUME NEW arr \in Seq(Nat), arr # <<>>
  PROVE  LET r == Numbers!gcd_array(arr)
         IN  /\ r \in Nat
             /\ \A c \in Nat \ {0} :
                  Divides(c, r) <=> \A k \in 1 .. Len(arr) : Divides(c, arr[k])
<1> DEFINE R == CHOOSE f : f = ArrayLoop(arr, f)
           G == Numbers!gcd
           T == {j \in Nat : j <= Len(arr) =>
                   /\ R[j] \in Nat
                   /\ \A c \in Nat \ {0} :
                        Divides(c, R[j]) <=> \A k \in 1 .. j : Divides(c, arr[k])}
<1>1. Len(arr) \in Nat /\ \A k \in 1 .. Len(arr) : arr[k] \in Nat
  BY LenProperties, ElementOfSeq
<1>2. R = ArrayLoop(arr, R)
  BY ArrayLoopExists
<1> HIDE DEF R, T
<1>3. \A k \in 0 .. Len(arr) :
        R[k] = IF k = 0 THEN 0 ELSE IF R[k - 1] = 1 THEN 1 ELSE G[<<R[k - 1], arr[k]>>]
  BY <1>2 DEF ArrayLoop
<1> HIDE DEF G
<1>4. \A a, b \in Nat : Common(G[<<a, b>>], a, b)
  BY GcdIsCommon DEF G
<1>5. 0 \in T
  <2>1. R[0] = 0
    <3>1. 0 \in 0 .. Len(arr)
      BY <1>1
    <3>2. QED
      BY <1>3, <3>1
  <2>2. \A c \in Nat \ {0} : Divides(c, R[0])
    BY <2>1, DividesOne
  <2>3. \A k \in 1 .. 0 : FALSE
    OBVIOUS
  <2>4. QED
    BY <2>1, <2>2, <2>3 DEF T
<1>6. ASSUME NEW j \in Nat, j \in T PROVE j + 1 \in T
  <2> SUFFICES ASSUME j + 1 <= Len(arr)
               PROVE  /\ R[j + 1] \in Nat
                      /\ \A c \in Nat \ {0} :
                           Divides(c, R[j + 1]) <=> \A k \in 1 .. j + 1 : Divides(c, arr[k])
    BY DEF T
  <2>1. PICK i \in 1 .. Len(arr) : i = j + 1 /\ i - 1 = j /\ i # 0 /\ i \in 0 .. Len(arr)
    <3>1. j + 1 \in 1 .. Len(arr) /\ (j + 1) - 1 = j /\ j + 1 # 0 /\ j + 1 \in 0 .. Len(arr)
      BY <1>1
    <3>2. QED
      BY <3>1
  <2>2. /\ R[j] \in Nat
        /\ \A c \in Nat \ {0} :
             Divides(c, R[j]) <=> \A k \in 1 .. j : Divides(c, arr[k])
    BY <1>1, <1>6 DEF T
  <2>3. R[i] = IF R[j] = 1 THEN 1 ELSE G[<<R[j], arr[i]>>]
    BY <1>3, <2>1
  <2>4. arr[i] \in Nat
    BY <1>1
  <2>5. \A c : (\A k \in 1 .. i : Divides(c, arr[k]))
               <=> (\A k \in 1 .. j : Divides(c, arr[k])) /\ Divides(c, arr[i])
    <3>1. \A k : k \in 1 .. i <=> k \in 1 .. j \/ k = i
      BY <2>1
    <3>2. QED
      BY <3>1
  <2>6. R[i] \in Nat /\ \A c \in Nat \ {0} :
                          Divides(c, R[i]) <=> Divides(c, R[j]) /\ Divides(c, arr[i])
    <3>1. CASE R[j] = 1
      <4>1. \A c \in Nat \ {0} : Divides(c, 1) => Divides(c, arr[i])
        BY <2>4, DividesOne
      <4>2. QED
        BY <2>3, <3>1, <4>1
    <3>2. CASE R[j] # 1
      BY <1>4, <2>2, <2>3, <2>4, <3>2 DEF Common
    <3>3. QED
      BY <3>1, <3>2
  <2>7. QED
    BY <2>1, <2>2, <2>5, <2>6
<1>7. \A j \in Nat : j \in T
  BY <1>5, <1>6, Induction
<1>8. Numbers!gcd_array(arr) = R[Len(arr)]
  BY ArrayIsChosen DEF R
<1>9. QED
  BY <1>1, <1>7, <1>8 DEF T

-----------------------------------------------------------------------------
(* Sequence numbers.                                                       *)

LEMMA SmallSize == SMALL \in Nat /\ SMALL >= 3
BY NumberAssumption

LEMMA ShorterWay ==
  ASSUME NEW w \in Nat, w > 0, NEW x \in Int, NEW y \in Int
  PROVE  /\ (x - y) % w \in Nat /\ (y - x) % w \in Nat
         /\ 2 * ((x - y) % w) <= w \/ 2 * ((y - x) % w) <= w
<1>1. PICK d \in Int, e \in Int : d = x - y /\ e = y - x /\ d + e = 0
  OBVIOUS
<1>2. PICK p \in Int, f \in 0 .. w - 1 : p = d \div w /\ f = d % w /\ d = w * p + f
  BY Division
<1>3. PICK q \in Int, b \in 0 .. w - 1 : q = e \div w /\ b = e % w /\ e = w * q + b
  BY Division
<1>4. PICK t \in Int : t = -(p + q)
  BY <1>2, <1>3
<1>5. f + b = w * t
  <2>1. w * p + w * q = w * (p + q)
    BY <1>2, <1>3
  <2>2. w * t = -(w * (p + q))
    BY <1>4
  <2>3. w * p \in Int /\ w * q \in Int
    BY <1>2, <1>3
  <2>4. QED
    BY <1>1, <1>2, <1>3, <2>1, <2>2, <2>3
<1>6. t < 2
  <2>1. w * t < w * 2
    BY <1>5
  <2>2. QED
    BY <2>1
<1>7. w * t <= w
  BY <1>6
<1>8. QED
  BY <1>1, <1>2, <1>3, <1>5, <1>7

LEMMA DiffsBounded ==
  ASSUME NEW s \in Seq(Numbers!Result), Len(s) >= 2
  PROVE  /\ Numbers!diffs(s) \in Seq(Nat) /\ Numbers!diffs(s) # <<>>
         /\ Len(Numbers!diffs(s)) = Len(s) - 1
         /\ \A k \in 1 .. Len(s) - 1 : 2 * Numbers!diffs(s)[k] <= SMALL
<1> DEFINE D == Numbers!diffs(s)
<1>1. Len(s) \in Nat /\ \A k \in 1 .. Len(s) : s[k] \in Numbers!Result
  BY LenProperties, ElementOfSeq
<1>2. \A k \in 1 .. Len(s) : s[k].seq \in Int
  <2>1. \A r \in Numbers!Result : r.seq \in Int
    BY SmallSize DEF Numbers!Result
  <2>2. QED
    BY <1>1, <2>1
<1>3. PICK m \in Nat : m = Len(s) - 1 /\ m > 0
  BY <1>1
<1>4. ASSUME NEW k \in 1 .. m
      PROVE  Numbers!seq_diff_calc(s[k + 1].seq, s[k].seq) \in Nat
             /\ 2 * Numbers!seq_diff_calc(s[k + 1].seq, s[k].seq) <= SMALL
  <2>1. k \in 1 .. Len(s) /\ k + 1 \in 1 .. Len(s)
    BY <1>1, <1>3
  <2>2. PICK x \in Int, y \in Int : x = s[k + 1].seq /\ y = s[k].seq
    BY <1>2, <2>1
  <2>3. /\ (x - y) % SMALL \in Nat /\ (y - x) % SMALL \in Nat
        /\ 2 * ((x - y) % SMALL) <= SMALL \/ 2 * ((y - x) % SMALL) <= SMALL
    <3>1. \A w \in Nat : w > 0 =>
            /\ (x - y) % w \in Nat /\ (y - x) % w \in Nat
            /\ 2 * ((x - y) % w) <= w \/ 2 * ((y - x) % w) <= w
      BY ShorterWay
    <3>2. SMALL \in Nat /\ SMALL > 0
      BY SmallSize
    <3>3. QED
      BY <3>1, <3>2
  <2>4. Numbers!seq_diff_calc(x, y) =
          IF (x - y) % SMALL < (y - x) % SMALL THEN (x - y) % SMALL ELSE (y - x) % SMALL
    BY DEF Numbers!seq_diff_calc
  <2>5. Numbers!seq_diff_calc(x, y) \in Nat /\ 2 * Numbers!seq_diff_calc(x, y) <= SMALL
    <3>1. PICK f \in Nat, b \in Nat : f = (x - y) % SMALL /\ b = (y - x) % SMALL
      BY <2>3
    <3>2. 2 * f <= SMALL \/ 2 * b <= SMALL
      BY <2>3, <3>1
    <3>3. Numbers!seq_diff_calc(x, y) = IF f < b THEN f ELSE b
      BY <2>4, <3>1
    <3>4. QED
      BY <3>2, <3>3, SmallSize
  <2>6. QED
    BY <2>2, <2>5
<1>5. D = [k \in 1 .. m |-> Numbers!seq_diff_calc(s[k + 1].seq, s[k].seq)]
  BY <1>3 DEF Numbers!diffs
<1> HIDE DEF D
<1>6. D \in [1 .. m -> Nat]
  BY <1>4, <1>5
<1>7. D \in Seq(Nat) /\ Len(D) = m /\ D # <<>>
  <2>1. \A f \in [1 .. m -> Nat] : f \in Seq(Nat) /\ Len(f) = m
    OBVIOUS
  <2>2. D \in Seq(Nat) /\ Len(D) = m
    BY <1>6, <2>1
  <2>3. QED
    BY <1>3, <2>2
<1>8. \A k \in 1 .. m : 2 * D[k] <= SMALL
  BY <1>4, <1>5
<1>9. QED
  BY <1>3, <1>7, <1>8 DEF D

(* A divisor is not greater than the number it divides, zero apart.        *)
LEMMA DivisorBound ==
  ASSUME NEW c \in Nat, NEW x \in Nat, x # 0, Divides(c, x)
  PROVE  c <= x
<1>1. PICK q \in Nat : x = c * q
  BY DEF Divides
<1>2. q # 0
  BY <1>1
<1>3. c * q >= c
  BY <1>2
<1>4. QED
  BY <1>1, <1>3

LEMMA GreatestOfDiffs ==
  ASSUME NEW arr \in Seq(Nat), arr # <<>>, \A k \in 1 .. Len(arr) : 2 * arr[k] <= SMALL,
         NEW r, r = Numbers!gcd_array(arr)
  PROVE  /\ r \in Nat /\ r # SMALL - 1
         /\ r = 0 <=> \A k \in 1 .. Len(arr) : arr[k] = 0
         /\ r # 0 => \A k \in 1 .. Len(arr) : arr[k] % r = 0
         /\ r # 0 => \A c \in Nat : c > r => \E k \in 1 .. Len(arr) : arr[k] % c # 0
<1>1. /\ r \in Nat
      /\ \A c \in Nat \ {0} :
           Divides(c, r) <=> \A k \in 1 .. Len(arr) : Divides(c, arr[k])
  BY ArrayGcd
<1>2. \A k \in 1 .. Len(arr) : arr[k] \in Nat
  BY LenProperties, ElementOfSeq
<1>3. \A c \in Nat \ {0}, x \in Nat : Divides(c, x) <=> x % c = 0
  BY DividesRemainder
<1>4. \A c, x \in Nat : Divides(c, x) => x = 0 \/ c <= x
  BY DivisorBound
<1>5. ASSUME r = 0 PROVE \A k \in 1 .. Len(arr) : arr[k] = 0
  <2> SUFFICES ASSUME NEW k \in 1 .. Len(arr), arr[k] # 0 PROVE FALSE
    OBVIOUS
  <2>1. PICK c \in Nat \ {0} : c = arr[k] + 1
    BY <1>2
  <2>2. Divides(c, r)
    BY <1>5, DividesOne
  <2>3. Divides(c, arr[k])
    BY <1>1, <2>2
  <2>4. QED
    BY <1>2, <1>4, <2>1, <2>3
<1>6. ASSUME \A k \in 1 .. Len(arr) : arr[k] = 0 PROVE r = 0
  <2>1. PICK c \in Nat \ {0} : c = r + 1
    BY <1>1
  <2>2. \A k \in 1 .. Len(arr) : Divides(c, arr[k])
    BY <1>6, DividesOne
  <2>3. Divides(c, r)
    BY <1>1, <2>2
  <2>4. QED
    BY <1>1, <1>4, <2>1, <2>3
<1>7. ASSUME r # 0 PROVE \A k \in 1 .. Len(arr) : Divides(r, arr[k])
  <2>1. r = r * 1
    BY <1>1
  <2>2. Divides(r, r)
    BY <2>1 DEF Divides
  <2>3. QED
    BY <1>1, <1>7, <2>2
<1>8. r # 0 => \A k \in 1 .. Len(arr) : arr[k] % r = 0
  BY <1>1, <1>2, <1>3, <1>7
<1>9. ASSUME r # 0, NEW c \in Nat, c > r PROVE \E k \in 1 .. Len(arr) : arr[k] % c # 0
  <2>1. c # 0 /\ ~Divides(c, r)
    BY <1>1, <1>4, <1>9
  <2>2. PICK k \in 1 .. Len(arr) : ~Divides(c, arr[k])
    BY <1>1, <2>1
  <2>3. QED
    BY <1>2, <1>3, <2>1, <2>2
<1>10. r # SMALL - 1
  <2>1. CASE r = 0
    BY <2>1, SmallSize
  <2>2. CASE r # 0
    <3>1. PICK k \in 1 .. Len(arr) : arr[k] # 0
      BY <1>6, <2>2
    <3>2. r <= arr[k] /\ arr[k] \in Nat /\ 2 * arr[k] <= SMALL
      BY <1>1, <1>2, <1>4, <1>7, <2>2, <3>1
    <3>3. QED
      BY <1>1, <3>2, SmallSize
  <2>3. QED
    BY <2>1, <2>2
<1>11. QED
  BY <1>1, <1>5, <1>6, <1>8, <1>9, <1>10

(* Send times that increase from sample to sample increase along all.      *)
LEMMA TimesIncrease ==
  ASSUME NEW s \in Seq(Numbers!Result)
  PROVE  (\A k \in 1 .. Len(s) - 1 : s[k].sent_at < s[k + 1].sent_at)
           <=> (\A i, k \in DOMAIN s : i < k => s[i].sent_at < s[k].sent_at)
<1>1. Len(s) \in Nat /\ DOMAIN s = 1 .. Len(s)
  BY LenProperties
<1>2. \A k \in 1 .. Len(s) : s[k].sent_at \in Nat
  <2>1. \A r \in Numbers!Result : r.sent_at \in Nat
    BY DEF Numbers!Result
  <2>2. \A k \in 1 .. Len(s) : s[k] \in Numbers!Result
    BY ElementOfSeq
  <2>3. QED
    BY <2>1, <2>2
<1>3. ASSUME \A k \in 1 .. Len(s) - 1 : s[k].sent_at < s[k + 1].sent_at
      PROVE  \A i, k \in DOMAIN s : i < k => s[i].sent_at < s[k].sent_at
  <2> DEFINE T == {d \in Nat : \A i, k \in 1 .. Len(s) :
                     k = i + (d + 1) => s[i].sent_at < s[k].sent_at}
  <2>1. 0 \in T
    <3> SUFFICES ASSUME NEW i \in 1 .. Len(s), NEW k \in 1 .. Len(s), k = i + (0 + 1)
                 PROVE  s[i].sent_at < s[k].sent_at
      OBVIOUS
    <3>1. i \in 1 .. Len(s) - 1 /\ k = i + 1
      BY <1>1
    <3>2. QED
      BY <1>3, <3>1
  <2>2. ASSUME NEW d \in Nat, d \in T PROVE d + 1 \in T
    <3> SUFFICES ASSUME NEW i \in 1 .. Len(s), NEW k \in 1 .. Len(s),
                        k = i + ((d + 1) + 1)
                 PROVE  s[i].sent_at < s[k].sent_at
      OBVIOUS
    <3>1. PICK m \in 1 .. Len(s) - 1 : m = i + (d + 1) /\ k = m + 1 /\ m \in 1 .. Len(s)
      BY <1>1
    <3>2. s[i].sent_at < s[m].sent_at
      BY <2>2, <3>1
    <3>3. s[m].sent_at < s[k].sent_at
      BY <1>3, <3>1
    <3>4. QED
      BY <1>2, <3>1, <3>2, <3>3
  <2> HIDE DEF T
  <2>3. \A d \in Nat : d \in T
    BY <2>1, <2>2, Induction
  <2>4. ASSUME NEW i \in 1 .. Len(s), NEW k \in 1 .. Len(s), i < k
        PROVE  s[i].sent_at < s[k].sent_at
    <3>1. PICK d \in Nat : k = i + (d + 1)
      <4>1. k - i - 1 \in Nat /\ k = i + ((k - i - 1) + 1)
        BY <1>1, <2>4
      <4>2. QED
        BY <4>1
    <3>2. d \in T
      BY <2>3
    <3>3. QED
      BY <3>1, <3>2 DEF T
  <2>5. QED
    BY <1>1, <2>4
<1>4. ASSUME \A i, k \in DOMAIN s : i < k => s[i].sent_at < s[k].sent_at,
             NEW k \in 1 .. Len(s) - 1
      PROVE  s[k].sent_at < s[k + 1].sent_at
  <2>1. k \in DOMAIN s /\ k + 1 \in DOMAIN s /\ k < k + 1
    BY <1>1
  <2>2. QED
    BY <1>4, <2>1
<1>5. QED
  BY <1>3, <1>4

NumberInv ==
  /\ seq_probes \in Seq(Numbers!Result)
  /\ seq # NONE => /\ seq.gcd = Numbers!calculate_gcd_test(seq_probes)
                   /\ seq.metrics_present = Numbers!metrics_present(seq_probes)

LEMMA NumberInit == Numbers!InitNumbers => NumberInv
BY NumberAssumption DEF Numbers!InitNumbers, NumberInv

LEMMA NumberKept == NumberInv /\ [Numbers!Calculate]_(Numbers!vars) => NumberInv'
<1>1. CASE Numbers!Calculate
  BY <1>1 DEF Numbers!Calculate, NumberInv
<1>2. CASE UNCHANGED Numbers!vars
  BY <1>2 DEF Numbers!vars, NumberInv
<1>3. QED
  BY <1>1, <1>2

LEMMA NumberVerdicts ==
  NumberInv => Numbers!GcdIsGreatest /\ Numbers!MetricsOfEverySampledHost
<1> SUFFICES ASSUME NumberInv, seq # NONE
             PROVE  Numbers!GcdIsGreatest /\ Numbers!MetricsOfEverySampledHost
  BY DEF Numbers!GcdIsGreatest, Numbers!MetricsOfEverySampledHost
<1> DEFINE s   == Numbers!Samples
           arr == Numbers!diffs(s)
           r   == Numbers!gcd_array(arr)
           enough == Numbers!EnoughForSeq(seq_probes)
<1>1. s \in Seq(Numbers!Result) /\ Numbers!find_seq_samples(seq_probes) = s
  BY SamplesAreResults DEF NumberInv
<1>2. Len(s) \in Nat /\ DOMAIN s = 1 .. Len(s)
  BY <1>1, LenProperties
<1>3. Numbers!UNAVAILABLE_SIG(SMALL) = SMALL - 1
  BY DEF Numbers!UNAVAILABLE_SIG
<1>4. seq.gcd = IF enough THEN r ELSE SMALL - 1
  BY <1>1, <1>3 DEF NumberInv, Numbers!calculate_gcd_test
<1>5. seq.metrics_present <=> enough /\ seq.gcd # SMALL - 1
  BY <1>3 DEF NumberInv, Numbers!metrics_present, Numbers!calculate_isr_test,
              Numbers!calculate_sp_test
<1>6. enough <=> /\ Len(s) >= 4
                 /\ \A k \in 1 .. Len(s) - 1 : s[k].sent_at < s[k + 1].sent_at
  BY <1>1, <1>2 DEF Numbers!EnoughForSeq, Numbers!calculate_diffs_and_rates
<1> HIDE DEF s, r, enough
<1>7. ASSUME enough
      PROVE  /\ r \in Nat /\ r # SMALL - 1 /\ Len(s) - 1 >= 3
             /\ r = 0 <=> \A k \in 1 .. Len(s) - 1 : arr[k] = 0
             /\ r # 0 => \A k \in 1 .. Len(s) - 1 : arr[k] % r = 0
             /\ r # 0 => \A c \in Nat : c > r => \E k \in 1 .. Len(s) - 1 : arr[k] % c # 0
  <2>1. Len(s) >= 4
    BY <1>6, <1>7
  <2>2. /\ arr \in Seq(Nat) /\ arr # <<>> /\ Len(arr) = Len(s) - 1
        /\ \A k \in 1 .. Len(s) - 1 : 2 * arr[k] <= SMALL
    <3>1. s \in Seq(Numbers!Result) /\ Len(s) >= 2
      BY <1>1, <1>2, <2>1
    <3>2. QED
      BY <3>1, DiffsBounded
  <2> HIDE DEF arr
  <2>3. \A x : x = r => x = Numbers!gcd_array(arr)
    BY DEF r
  <2>4. QED
    BY <1>2, <2>1, <2>2, <2>3, GreatestOfDiffs
<1>8. Numbers!GcdIsGreatest
  <2> SUFFICES ASSUME enough, seq.gcd = r, r # SMALL - 1
               PROVE  LET D == {arr[k] : k \in 1 .. Len(s) - 1}
                      IN  /\ r = 0 <=> D = {0}
                          /\ r # 0 => /\ \A d \in D : d % r = 0
                                      /\ \A c \in r + 1 .. SMALL : \E d \in D : d % c # 0
    BY <1>3, <1>4 DEF Numbers!GcdIsGreatest, s
  <2> DEFINE D == {arr[k] : k \in 1 .. Len(s) - 1}
  <2> HIDE DEF arr
  <2>1. r = 0 <=> D = {0}
    <3>1. 1 \in 1 .. Len(s) - 1
      BY <1>2, <1>7
    <3>2. D = {0} <=> \A k \in 1 .. Len(s) - 1 : arr[k] = 0
      BY <3>1
    <3>3. QED
      BY <1>7, <3>2
  <2>2. ASSUME r # 0 PROVE \A d \in D : d % r = 0
    BY <1>7, <2>2
  <2>3. ASSUME r # 0, NEW c \in r + 1 .. SMALL PROVE \E d \in D : d % c # 0
    <3>1. c \in Nat /\ c > r
      BY <1>7, SmallSize
    <3>2. QED
      BY <1>7, <2>3, <3>1
  <2>4. QED
    BY <2>1, <2>2, <2>3
<1>9. Numbers!MetricsOfEverySampledHost
  <2>1. seq.metrics_present <=> enough
    BY <1>4, <1>5, <1>7
  <2>2. enough <=> /\ Len(s) >= 4
                   /\ \A i, k \in DOMAIN s : i < k => s[i].sent_at < s[k].sent_at
    BY <1>1, <1>6, TimesIncrease
  <2>3. QED
    BY <2>1, <2>2 DEF Numbers!MetricsOfEverySampledHost, s
<1>10. QED
  BY <1>8, <1>9

-----------------------------------------------------------------------------
(* The way of a U1 probe.  A word and its bytes.                           *)

Octet  == 0 .. 255
Modulo == 65535
Word   == 0 .. Modulo

LEMMA ModuloFacts == Modulo \in Nat /\ Modulo = 65535 /\ Modulo > 6000
BY DEF Modulo

LEMMA BytesOfWord ==
  ASSUME NEW w \in Word
  PROVE  /\ Echo!bytes_of(w) \in Seq(Octet) /\ Len(Echo!bytes_of(w)) = 2
         /\ Echo!bytes_of(w)[1] \in Octet /\ Echo!bytes_of(w)[2] \in Octet
         /\ Echo!bytes_of(w)[1] * 256 + Echo!bytes_of(w)[2] = w
<1>0. w \in Nat /\ w <= 65535
  BY ModuloFacts DEF Word
<1>1. \A v \in Int : /\ v \div 256 \in Int /\ v % 256 \in 0 .. 256 - 1
                    /\ v = 256 * (v \div 256) + (v % 256)
  BY Division
<1>2. PICK high \in Int, low \in Int : high = w \div 256 /\ low = w % 256
  BY <1>0, <1>1
<1>3. low \in 0 .. 255 /\ w = 256 * high + low
  BY <1>0, <1>1, <1>2
<1>4. high \in 0 .. 255 /\ high * 256 + low = w
  BY <1>0, <1>3
<1>5. Echo!bytes_of(w) = <<high, low>>
  BY <1>2 DEF Echo!bytes_of
<1>6. QED
  <2>1. high \in Octet /\ low \in Octet
    BY <1>3, <1>4 DEF Octet
  <2>2. QED
    BY <1>4, <1>5, <2>1

(* The sum of a message, and of the header in front of it.                 *)
LEMMA EchoTotal ==
  ASSUME NEW m \in Seq(Octet)
  PROVE  Echo!Sum!Total(m) = SumTo(256, m)[Len(m)] /\ m \in Seq(Nat)
<1>1. Echo!Sum!Total(m) = (CHOOSE h : h = InHalves(256, m, h))[<<1, Len(m)>>]
  BY Zenon DEF Echo!Sum!Total, InHalves, Halves
<1>2. m \in Seq(Nat)
  <2>1. Octet = 0 .. 256 - 1
    BY DEF Octet
  <2>2. QED
    BY <2>1, OctetsAreNat
<1>3. QED
  BY <1>1, <1>2, HalvesSum

TwentyBytes(m) ==
    (m[1] + m[3] + m[5] + m[7] + m[9] + m[11] + m[13] + m[15] + m[17] + m[19]) * 256
  + (m[2] + m[4] + m[6] + m[8] + m[10] + m[12] + m[14] + m[16] + m[18] + m[20])

LEMMA NatsAdded == \A x, y, z \in Nat : (x + y) + z \in Nat
OBVIOUS

LEMMA SumOfTwenty ==
  ASSUME NEW m \in Seq(Octet), Len(m) >= 20
  PROVE  SumTo(256, m)[20] = TwentyBytes(m)
<1> DEFINE P == SumTo(256, m)
<1>0. Len(m) \in Nat /\ m \in Seq(Nat)
  BY EchoTotal, LenProperties
<1>1. \A k \in 1 .. 20 : k \in 1 .. Len(m)
  BY <1>0
<1>2. \A k \in 1 .. 20 : m[k] \in Nat
  BY <1>0, <1>1, ElementOfSeq
<1>3. P[0] = 0
  BY <1>0, SumToSteps
<1>4. \A k \in 1 .. 20 : P[k] = P[k - 1] + (IF k % 2 = 1 THEN m[k] * 256 ELSE m[k])
  <2>1. \A base \in Nat : \A k \in 1 .. Len(m) :
          /\ WordPart(base, m, k) = IF k % 2 = 1 THEN m[k] * base ELSE m[k]
          /\ SumTo(base, m)[k] = SumTo(base, m)[k - 1] + WordPart(base, m, k)
    BY <1>0, SumOfSequence
  <2>2. \A k \in 1 .. Len(m) :
          P[k] = P[k - 1] + (IF k % 2 = 1 THEN m[k] * 256 ELSE m[k])
    BY <2>1
  <2>3. QED
    BY <1>1, <2>2
<1> HIDE DEF P
<1>5. ASSUME NEW k \in 0 .. 16, k % 2 = 0, P[k] \in Nat
      PROVE  /\ P[k + 4] = P[k] + ((m[k + 1] + m[k + 3]) * 256 + (m[k + 2] + m[k + 4]))
             /\ P[k + 4] \in Nat
  <2>1. /\ k + 1 \in 1 .. 20 /\ (k + 1) % 2 = 1 /\ (k + 1) - 1 = k
        /\ k + 2 \in 1 .. 20 /\ (k + 2) % 2 = 0 /\ (k + 2) - 1 = k + 1
        /\ k + 3 \in 1 .. 20 /\ (k + 3) % 2 = 1 /\ (k + 3) - 1 = k + 2
        /\ k + 4 \in 1 .. 20 /\ (k + 4) % 2 = 0 /\ (k + 4) - 1 = k + 3
    BY <1>5
  <2>2. /\ P[k + 1] = P[k] + m[k + 1] * 256
        /\ P[k + 2] = P[k + 1] + m[k + 2]
        /\ P[k + 3] = P[k + 2] + m[k + 3] * 256
        /\ P[k + 4] = P[k + 3] + m[k + 4]
    <3>1. ASSUME NEW j \in 1 .. 20, j % 2 = 1 PROVE P[j] = P[j - 1] + m[j] * 256
      BY <1>4, <3>1
    <3>2. ASSUME NEW j \in 1 .. 20, j % 2 = 0 PROVE P[j] = P[j - 1] + m[j]
      <4>1. j % 2 # 1
        BY <3>2
      <4>2. P[j] = P[j - 1] + (IF j % 2 = 1 THEN m[j] * 256 ELSE m[j])
        BY <1>4
      <4>3. QED
        BY <4>1, <4>2
    <3>3. P[k + 1] = P[k] + m[k + 1] * 256
      BY <2>1, <3>1
    <3>4. P[k + 2] = P[k + 1] + m[k + 2]
      BY <2>1, <3>2
    <3>5. P[k + 3] = P[k + 2] + m[k + 3] * 256
      BY <2>1, <3>1
    <3>6. P[k + 4] = P[k + 3] + m[k + 4]
      BY <2>1, <3>2
    <3>7. QED
      BY <3>3, <3>4, <3>5, <3>6
  <2>3. PICK x \in Nat, y \in Nat : x = m[k + 1] /\ y = m[k + 2]
    BY <1>2, <2>1
  <2>4. PICK v \in Nat, w \in Nat : v = m[k + 3] /\ w = m[k + 4]
    BY <1>2, <2>1
  <2>5. PICK p \in Nat : p = P[k]
    BY <1>5
  <2>6. P[k + 4] = (((p + x * 256) + y) + v * 256) + w
    BY <2>2, <2>3, <2>4, <2>5
  <2>7. P[k + 4] = p + ((x + v) * 256 + (y + w)) /\ P[k + 4] \in Nat
    BY <2>6
  <2>8. QED
    BY <2>3, <2>4, <2>5, <2>7
<1>6. ASSUME NEW k \in 0 .. 16, k % 2 = 0, NEW high \in Nat, NEW low \in Nat,
             P[k] = high * 256 + low
      PROVE  P[k + 4] = ((high + m[k + 1]) + m[k + 3]) * 256 + ((low + m[k + 2]) + m[k + 4])
  <2>1. PICK p \in Nat : p = P[k] /\ p = high * 256 + low
    BY <1>6
  <2>2. P[k + 4] = p + ((m[k + 1] + m[k + 3]) * 256 + (m[k + 2] + m[k + 4]))
    BY <1>5, <1>6, <2>1
  <2>3. PICK x \in Nat, y \in Nat, v \in Nat, w \in Nat :
          x = m[k + 1] /\ y = m[k + 2] /\ v = m[k + 3] /\ w = m[k + 4]
    <3>1. /\ k + 1 \in 1 .. 20 /\ k + 2 \in 1 .. 20
          /\ k + 3 \in 1 .. 20 /\ k + 4 \in 1 .. 20
      OBVIOUS
    <3>2. QED
      BY <1>2, <3>1
  <2>4. P[k + 4] = p + ((x + v) * 256 + (y + w))
    BY <2>2, <2>3
  <2>5. P[k + 4] = ((high + x) + v) * 256 + ((low + y) + w)
    BY <2>1, <2>4
  <2>6. QED
    BY <2>3, <2>5
<1>7. /\ P[4] = (m[1] + m[3]) * 256 + (m[2] + m[4])
      /\ m[1] + m[3] \in Nat
      /\ m[2] + m[4] \in Nat
  <2>1. P[0 + 4] = ((0 + m[0 + 1]) + m[0 + 3]) * 256 + ((0 + m[0 + 2]) + m[0 + 4])
    BY <1>3, <1>6
  <2>2. m[1] \in Nat /\ m[2] \in Nat /\ m[3] \in Nat /\ m[4] \in Nat
    BY <1>2
  <2>3. QED
    BY <2>1, <2>2
<1>8. /\ P[8] = (m[1] + m[3] + m[5] + m[7]) * 256 + (m[2] + m[4] + m[6] + m[8])
      /\ m[1] + m[3] + m[5] + m[7] \in Nat
      /\ m[2] + m[4] + m[6] + m[8] \in Nat
  <2> DEFINE high == m[1] + m[3]
             low  == m[2] + m[4]
  <2>1. high \in Nat /\ low \in Nat /\ P[4] = high * 256 + low
    BY <1>7
  <2> HIDE DEF high, low
  <2>2. P[4 + 4] = ((high + m[4 + 1]) + m[4 + 3]) * 256 + ((low + m[4 + 2]) + m[4 + 4])
    <3>1. 4 \in 0 .. 16 /\ 4 % 2 = 0
      OBVIOUS
    <3>2. QED
      BY <1>6, <2>1, <3>1
  <2>3. m[5] \in Nat /\ m[6] \in Nat /\ m[7] \in Nat /\ m[8] \in Nat
    BY <1>2
  <2>4. P[8] = ((high + m[5]) + m[7]) * 256 + ((low + m[6]) + m[8])
    BY <2>2
  <2>5. (high + m[5]) + m[7] \in Nat /\ (low + m[6]) + m[8] \in Nat
    BY <2>1, <2>3, NatsAdded
  <2>6. QED
    BY <2>4, <2>5 DEF high, low
<1>9. /\ P[12] =
             (m[1] + m[3] + m[5] + m[7] + m[9] + m[11]) * 256
           + (m[2] + m[4] + m[6] + m[8] + m[10] + m[12])
      /\ m[1] + m[3] + m[5] + m[7] + m[9] + m[11] \in Nat
      /\ m[2] + m[4] + m[6] + m[8] + m[10] + m[12] \in Nat
  <2> DEFINE high == m[1] + m[3] + m[5] + m[7]
             low  == m[2] + m[4] + m[6] + m[8]
  <2>1. high \in Nat /\ low \in Nat /\ P[8] = high * 256 + low
    BY <1>8
  <2> HIDE DEF high, low
  <2>2. P[8 + 4] = ((high + m[8 + 1]) + m[8 + 3]) * 256 + ((low + m[8 + 2]) + m[8 + 4])
    <3>1. 8 \in 0 .. 16 /\ 8 % 2 = 0
      OBVIOUS
    <3>2. QED
      BY <1>6, <2>1, <3>1
  <2>3. m[9] \in Nat /\ m[10] \in Nat /\ m[11] \in Nat /\ m[12] \in Nat
    BY <1>2
  <2>4. P[12] = ((high + m[9]) + m[11]) * 256 + ((low + m[10]) + m[12])
    BY <2>2
  <2>5. (high + m[9]) + m[11] \in Nat /\ (low + m[10]) + m[12] \in Nat
    BY <2>1, <2>3, NatsAdded
  <2>6. QED
    BY <2>4, <2>5 DEF high, low
<1>10. /\ P[16] =
              (m[1] + m[3] + m[5] + m[7] + m[9] + m[11] + m[13] + m[15]) * 256
            + (m[2] + m[4] + m[6] + m[8] + m[10] + m[12] + m[14] + m[16])
      /\ m[1] + m[3] + m[5] + m[7] + m[9] + m[11] + m[13] + m[15] \in Nat
      /\ m[2] + m[4] + m[6] + m[8] + m[10] + m[12] + m[14] + m[16] \in Nat
  <2> DEFINE high == m[1] + m[3] + m[5] + m[7] + m[9] + m[11]
             low  == m[2] + m[4] + m[6] + m[8] + m[10] + m[12]
  <2>1. high \in Nat /\ low \in Nat /\ P[12] = high * 256 + low
    BY <1>9
  <2> HIDE DEF high, low
  <2>2. P[12 + 4] =   ((high + m[12 + 1]) + m[12 + 3]) * 256
                    + ((low + m[12 + 2]) + m[12 + 4])
    <3>1. 12 \in 0 .. 16 /\ 12 % 2 = 0
      OBVIOUS
    <3>2. QED
      BY <1>6, <2>1, <3>1
  <2>3. m[13] \in Nat /\ m[14] \in Nat /\ m[15] \in Nat /\ m[16] \in Nat
    BY <1>2
  <2>4. P[16] = ((high + m[13]) + m[15]) * 256 + ((low + m[14]) + m[16])
    BY <2>2
  <2>5. (high + m[13]) + m[15] \in Nat /\ (low + m[14]) + m[16] \in Nat
    BY <2>1, <2>3, NatsAdded
  <2>6. QED
    BY <2>4, <2>5 DEF high, low
<1>11. /\ P[20] =
              (m[1] + m[3] + m[5] + m[7] + m[9] + m[11] + m[13] + m[15] + m[17] + m[19]) * 256
            + (m[2] + m[4] + m[6] + m[8] + m[10] + m[12] + m[14] + m[16] + m[18] + m[20])
      /\ m[1] + m[3] + m[5] + m[7] + m[9] + m[11] + m[13] + m[15] + m[17] + m[19] \in Nat
      /\ m[2] + m[4] + m[6] + m[8] + m[10] + m[12] + m[14] + m[16] + m[18] + m[20] \in Nat
  <2> DEFINE high == m[1] + m[3] + m[5] + m[7] + m[9] + m[11] + m[13] + m[15]
             low  == m[2] + m[4] + m[6] + m[8] + m[10] + m[12] + m[14] + m[16]
  <2>1. high \in Nat /\ low \in Nat /\ P[16] = high * 256 + low
    BY <1>10
  <2> HIDE DEF high, low
  <2>2. P[16 + 4] =   ((high + m[16 + 1]) + m[16 + 3]) * 256
                    + ((low + m[16 + 2]) + m[16 + 4])
    <3>1. 16 \in 0 .. 16 /\ 16 % 2 = 0
      OBVIOUS
    <3>2. QED
      BY <1>6, <2>1, <3>1
  <2>3. m[17] \in Nat /\ m[18] \in Nat /\ m[19] \in Nat /\ m[20] \in Nat
    BY <1>2
  <2>4. P[20] = ((high + m[17]) + m[19]) * 256 + ((low + m[18]) + m[20])
    BY <2>2
  <2>5. (high + m[17]) + m[19] \in Nat /\ (low + m[18]) + m[20] \in Nat
    BY <2>1, <2>3, NatsAdded
  <2>6. QED
    BY <2>4, <2>5 DEF high, low
<1>12. QED
  BY <1>11 DEF P, TwentyBytes

(* A message that is not all zeros verifies if and only if its sum is a    *)
(* multiple of 65535, which the checksum makes of it.                      *)
Multiple(t) == \E q \in Int : t = Modulo * q

LEMMA ChecksumCompletes ==
  ASSUME NEW m \in Seq(Octet), NEW t \in Nat, t = Echo!Sum!Total(m), t > 0
  PROVE  /\ Echo!calculate_checksum(m) \in 0 .. Modulo - 1
         /\ Echo!calculate_checksum(m) = 0 <=> Multiple(t)
         /\ Multiple(t + Echo!calculate_checksum(m))
<1>1. Echo!calculate_checksum(m) = (-t) % Modulo
  <2>1. 256 * 256 - 1 = Modulo
    BY ModuloFacts
  <2>2. QED
    BY <2>1 DEF Echo!calculate_checksum, Echo!Sum!InternetChecksum, Echo!Sum!WORD
<1>2. \A v \in Int : /\ v \div Modulo \in Int /\ v % Modulo \in 0 .. Modulo - 1
                    /\ v = Modulo * (v \div Modulo) + (v % Modulo)
  <2>1. Modulo \in Nat /\ Modulo > 0
    BY ModuloFacts
  <2>2. QED
    BY <2>1, Division
<1>3. PICK v \in Int : v = -t
  OBVIOUS
<1>4. PICK c \in Int, q \in Int : c = v % Modulo /\ q = v \div Modulo
  <2>1. v % Modulo \in Int /\ v \div Modulo \in Int
    BY <1>2, ModuloFacts
  <2>2. QED
    BY <2>1
<1>5. c \in 0 .. Modulo - 1 /\ v = Modulo * q + c
  BY <1>2, <1>4
<1>6. PICK p \in Int : p = -q
  OBVIOUS
<1>7. t + c = Modulo * p
  <2>1. Modulo * p = -(Modulo * q)
    BY <1>6, ModuloFacts
  <2>2. Modulo * q \in Int
    BY ModuloFacts
  <2>3. QED
    BY <1>3, <1>5, <2>1, <2>2
<1>8. c = 0 <=> Multiple(t)
  <2>1. ASSUME c = 0 PROVE t = Modulo * p
    BY <1>7, <2>1
  <2>2. ASSUME NEW r \in Int, t = Modulo * r PROVE c = 0
    <3>1. /\ Modulo * (p - r) = Modulo * p - Modulo * r /\ Modulo * r \in Int
          /\ Modulo * p \in Int
      BY ModuloFacts
    <3>2. c = Modulo * (p - r)
      BY <1>7, <2>2, <3>1
    <3>3. PICK d \in Int : d = p - r
      OBVIOUS
    <3>4. c = Modulo * d /\ 0 <= c /\ c < Modulo
      <4>1. c = Modulo * d
        BY <3>2, <3>3
      <4>2. 0 <= c /\ c < Modulo
        BY <1>5, ModuloFacts
      <4>3. QED
        BY <4>1, <4>2
    <3>5. d = 0
      BY <3>4, ModuloFacts
    <3>6. QED
      BY <3>4, <3>5, ModuloFacts
  <2>3. QED
    BY <2>1, <2>2 DEF Multiple
<1>9. Multiple(t + c)
  BY <1>7 DEF Multiple
<1>10. QED
  BY <1>1, <1>3, <1>4, <1>5, <1>8, <1>9

(* A probe that the fields of the headers hold.                            *)
IsProbe(s) == /\ s.source_port \in Word /\ s.dest_port \in Word
              /\ s.saddr \in Address /\ s.daddr \in Address

LEMMA FunctionIsSeq ==
  ASSUME NEW len \in Nat, NEW S, NEW f \in [1 .. len -> S]
  PROVE  f \in Seq(S) /\ Len(f) = len
<1>1. f \in Seq(S)
  BY IsASeq
<1>2. DOMAIN f = 1 .. len
  OBVIOUS
<1>3. QED
  BY <1>1, <1>2, LenProperties

LEMMA AddressIsOctets ==
  ASSUME NEW a \in Address
  PROVE  a \in Seq(Octet) /\ Len(a) = 4
<1>1. a \in [1 .. 4 -> Octet]
  BY DEF Address, Octet
<1>2. \A len \in Nat : a \in [1 .. len -> Octet] => a \in Seq(Octet) /\ Len(a) = len
  BY FunctionIsSeq
<1>3. QED
  BY <1>1, <1>2

LEMMA PairIsOctets ==
  ASSUME NEW a \in Octet, NEW b \in Octet
  PROVE  <<a, b>> \in Seq(Octet) /\ Len(<<a, b>>) = 2
OBVIOUS

LEMMA PayloadIsOctets ==
  /\ Echo!payload \in Seq(Octet) /\ Len(Echo!payload) = 300
  /\ \A k \in 1 .. 300 : Echo!payload[k] = 67
<1>1. Echo!payload \in [1 .. 300 -> Octet] /\ \A k \in 1 .. 300 : Echo!payload[k] = 67
  BY DEF Echo!payload, Octet
<1>2. PICK len \in Nat : len = 300
  OBVIOUS
<1>3. Echo!payload \in [1 .. len -> Octet]
  BY <1>1, <1>2
<1>4. Echo!payload \in Seq(Octet) /\ Len(Echo!payload) = len
  BY <1>3, FunctionIsSeq
<1>5. QED
  BY <1>1, <1>2, <1>4

(* One part after another.                                                 *)
Follows(x, y, z) == /\ z \in Seq(Octet) /\ Len(z) = Len(x) + Len(y)
                    /\ \A k \in 1 .. Len(x) : z[k] = x[k]
                    /\ \A k \in 1 .. Len(y) : z[Len(x) + k] = y[k]

LEMMA Joined ==
  ASSUME NEW x \in Seq(Octet), NEW y \in Seq(Octet)
  PROVE  Follows(x, y, x \o y)
<1>1. /\ x \o y \in Seq(Octet) /\ Len(x \o y) = Len(x) + Len(y)
      /\ \A i \in 1 .. Len(x) + Len(y) :
           (x \o y)[i] = IF i <= Len(x) THEN x[i] ELSE y[i - Len(x)]
  BY ConcatProperties
<1>2. Len(x) \in Nat /\ Len(y) \in Nat
  BY LenProperties
<1>3. ASSUME NEW k \in 1 .. Len(x) PROVE (x \o y)[k] = x[k]
  <2>1. k \in 1 .. Len(x) + Len(y) /\ k <= Len(x)
    BY <1>2
  <2>2. QED
    BY <1>1, <2>1
<1>4. ASSUME NEW k \in 1 .. Len(y) PROVE (x \o y)[Len(x) + k] = y[k]
  <2>1. PICK i \in Nat : i = Len(x) + k
    BY <1>2
  <2>2. i \in 1 .. Len(x) + Len(y) /\ ~(i <= Len(x)) /\ i - Len(x) = k
    BY <1>2, <2>1
  <2>3. QED
    BY <1>1, <2>1, <2>2
<1>5. QED
  BY <1>1, <1>3, <1>4 DEF Follows

LEMMA UdpLength == Echo!udp_len = 308 /\ Echo!total_len = 328 /\ 308 \in Word /\ 328 \in Word
<1>1. Echo!udp_len = 308 /\ Echo!total_len = 328
  BY PayloadIsOctets DEF Echo!udp_len, Echo!total_len
<1>2. QED
  BY <1>1, ModuloFacts DEF Word

(* The segment: ports and length, checksum, data.                          *)
Ports(s) == Echo!bytes_of(s.source_port) \o Echo!bytes_of(s.dest_port)
              \o Echo!bytes_of(Echo!udp_len)

LEMMA PortsAreOctets ==
  ASSUME NEW s, IsProbe(s)
  PROVE  Ports(s) \in Seq(Octet) /\ Len(Ports(s)) = 6
<1> DEFINE a == Echo!bytes_of(s.source_port)
           b == Echo!bytes_of(s.dest_port)
           c == Echo!bytes_of(Echo!udp_len)
<1>1. s.source_port \in Word /\ s.dest_port \in Word /\ Echo!udp_len \in Word
  BY UdpLength DEF IsProbe
<1>2. /\ a \in Seq(Octet) /\ Len(a) = 2 /\ b \in Seq(Octet) /\ Len(b) = 2
      /\ c \in Seq(Octet) /\ Len(c) = 2
  BY <1>1, BytesOfWord
<1> HIDE DEF a, b, c
<1>3. a \o b \in Seq(Octet) /\ Len(a \o b) = 4
  BY <1>2, Joined DEF Follows
<1>4. (a \o b) \o c \in Seq(Octet) /\ Len((a \o b) \o c) = 6
  BY <1>2, <1>3, Joined DEF Follows
<1>5. QED
  BY <1>4 DEF a, b, c, Ports

IsSegment(g, s, check) ==
  /\ g \in Seq(Octet) /\ Len(g) = 308
  /\ \A k \in 1 .. 6 : g[k] = Ports(s)[k]
  /\ g[7] = Echo!bytes_of(check)[1] /\ g[8] = Echo!bytes_of(check)[2]
  /\ \A k \in 9 .. 308 : g[k] = 67

LEMMA SegmentIs ==
  ASSUME NEW s, IsProbe(s), NEW check \in Word
  PROVE  IsSegment(Echo!udp_segment(s, check), s, check)
<1> DEFINE p == Ports(s)
           c == Echo!bytes_of(check)
           h == p \o c
           d == Echo!payload
           g == h \o d
<1>1. p \in Seq(Octet) /\ Len(p) = 6 /\ c \in Seq(Octet) /\ Len(c) = 2
  BY PortsAreOctets, BytesOfWord
<1>2. d \in Seq(Octet) /\ Len(d) = 300 /\ \A k \in 1 .. 300 : d[k] = 67
  BY PayloadIsOctets
<1>3. Echo!udp_segment(s, check) = g
  BY DEF Echo!udp_segment, Ports
<1> HIDE DEF p, c, d
<1>4. Follows(p, c, h)
  BY <1>1, Joined
<1>5. Len(h) = 8 /\ h \in Seq(Octet) /\ (\A k \in 1 .. 6 : h[k] = p[k]) /\ h[7] = c[1] /\ h[8] = c[2]
  <2>1. \A k \in 1 .. Len(c) : h[Len(p) + k] = c[k]
    BY <1>4 DEF Follows
  <2>2. h[6 + 1] = c[1] /\ h[6 + 2] = c[2]
    <3>1. 1 \in 1 .. Len(c) /\ 2 \in 1 .. Len(c)
      BY <1>1
    <3>2. h[Len(p) + 1] = c[1] /\ h[Len(p) + 2] = c[2]
      BY <2>1, <3>1
    <3>3. QED
      BY <1>1, <3>2
  <2>3. QED
    BY <1>1, <1>4, <2>2 DEF Follows
<1> HIDE DEF h
<1>6. Follows(h, d, g)
  BY <1>2, <1>5, Joined
<1> HIDE DEF g
<1>7. /\ Len(g) = 308 /\ g \in Seq(Octet) /\ \A k \in 1 .. 8 : g[k] = h[k]
      /\ \A k \in 1 .. 300 : g[8 + k] = d[k]
  BY <1>2, <1>5, <1>6 DEF Follows
<1>8. ASSUME NEW k \in 9 .. 308 PROVE g[k] = 67
  <2>1. PICK j \in 1 .. 300 : k = 8 + j
    <3>1. k - 8 \in 1 .. 300 /\ k = 8 + (k - 8)
      OBVIOUS
    <3>2. QED
      BY <3>1
  <2>2. g[8 + j] = d[j]
    BY <1>7
  <2>3. d[j] = 67
    BY <1>2
  <2>4. QED
    BY <2>1, <2>2, <2>3
<1>9. /\ \A k \in 1 .. 6 : g[k] = p[k]
      /\ g[7] = c[1] /\ g[8] = c[2]
  <2>1. \A k \in 1 .. 6 : k \in 1 .. 8
    OBVIOUS
  <2>2. QED
    BY <1>5, <1>7, <2>1
<1>10. QED
  BY <1>3, <1>7, <1>8, <1>9 DEF IsSegment, p, c

(* The header: the fields that U1 looks at.                                *)
Header(h, ttl) == /\ h[1] = 69 /\ h[3] = 1 /\ h[4] = 72 /\ h[5] = 16 /\ h[6] = 66
                  /\ h[9] = ttl

AddsPair(x, a, b, z) == /\ z \in Seq(Octet) /\ Len(z) = Len(x) + 2
                        /\ \A k \in 1 .. Len(x) : z[k] = x[k]
                        /\ z[Len(x) + 1] = a /\ z[Len(x) + 2] = b

LEMMA PairFollows ==
  ASSUME NEW x \in Seq(Octet), NEW a \in Octet, NEW b \in Octet
  PROVE  AddsPair(x, a, b, x \o <<a, b>>)
<1> DEFINE y == <<a, b>>
<1>1. y \in Seq(Octet) /\ Len(y) = 2 /\ y[1] = a /\ y[2] = b
  BY PairIsOctets
<1> HIDE DEF y
<1>2. Follows(x, y, x \o y)
  BY <1>1, Joined
<1>3. 1 \in 1 .. Len(y) /\ 2 \in 1 .. Len(y)
  BY <1>1
<1>4. AddsPair(x, a, b, x \o y)
  BY <1>1, <1>2, <1>3 DEF Follows, AddsPair
<1>5. QED
  BY <1>4 DEF y

LEMMA BytesOfFields ==
  /\ Echo!bytes_of(Echo!total_len) = <<1, 72>> /\ Echo!bytes_of(Echo!ip_id) = <<16, 66>>
  /\ Echo!bytes_of(Echo!total_len - 20) = <<1, 52>>
<1>1. Echo!total_len = 328 /\ Echo!ip_id = 4162 /\ Echo!total_len - 20 = 308
  BY UdpLength DEF Echo!ip_id
<1>2. /\ 328 \div 256 = 1 /\ 328 % 256 = 72 /\ 308 \div 256 = 1 /\ 308 % 256 = 52
      /\ 4162 \div 256 = 16 /\ 4162 % 256 = 66
  OBVIOUS
<1>3. QED
  BY <1>1, <1>2 DEF Echo!bytes_of

HeaderWords == <<69, 0>> \o <<1, 72>> \o <<16, 66>> \o <<0, 0>> \o <<64, 17>> \o <<0, 0>>

LEMMA HeaderWordsAre ==
  /\ HeaderWords \in Seq(Octet) /\ Len(HeaderWords) = 12
  /\ Header(HeaderWords, 64)
<1>0. /\ 69 \in Octet /\ 0 \in Octet /\ 1 \in Octet /\ 72 \in Octet /\ 16 \in Octet
      /\ 66 \in Octet /\ 64 \in Octet /\ 17 \in Octet
  BY DEF Octet
<1> DEFINE a == <<69, 0>>
           b == a \o <<1, 72>>
           c == b \o <<16, 66>>
           d == c \o <<0, 0>>
           e == d \o <<64, 17>>
           f == e \o <<0, 0>>
<1>1. a \in Seq(Octet) /\ Len(a) = 2 /\ a[1] = 69
  BY <1>0, PairIsOctets
<1> HIDE DEF a
<1>2. b \in Seq(Octet) /\ Len(b) = 4 /\ b[1] = 69 /\ b[3] = 1 /\ b[4] = 72
  <2>1. AddsPair(a, 1, 72, b)
    BY <1>0, <1>1, PairFollows
  <2> HIDE DEF b
  <2>2. 1 \in 1 .. Len(a)
    BY <1>1
  <2>3. /\ b \in Seq(Octet) /\ Len(b) = 4
        /\ b[3] = 1 /\ b[4] = 72
    BY <1>1, <2>1 DEF AddsPair
  <2>4. b[1] = a[1]
    BY <2>1, <2>2 DEF AddsPair
  <2>5. QED
    BY <1>1, <2>3, <2>4
<1> HIDE DEF b
<1>3. /\ c \in Seq(Octet) /\ Len(c) = 6 /\ c[1] = 69 /\ c[3] = 1 /\ c[4] = 72
      /\ c[5] = 16 /\ c[6] = 66
  <2>1. AddsPair(b, 16, 66, c)
    BY <1>0, <1>2, PairFollows
  <2> HIDE DEF c
  <2>2. 1 \in 1 .. Len(b) /\ 3 \in 1 .. Len(b) /\ 4 \in 1 .. Len(b)
    BY <1>2
  <2>3. /\ c \in Seq(Octet) /\ Len(c) = 6
        /\ c[5] = 16 /\ c[6] = 66
    BY <1>2, <2>1 DEF AddsPair
  <2>4. c[1] = b[1] /\ c[3] = b[3] /\ c[4] = b[4]
    BY <2>1, <2>2 DEF AddsPair
  <2>5. QED
    BY <1>2, <2>3, <2>4
<1> HIDE DEF c
<1>4. /\ d \in Seq(Octet) /\ Len(d) = 8 /\ d[1] = 69 /\ d[3] = 1 /\ d[4] = 72
      /\ d[5] = 16 /\ d[6] = 66
  <2>1. AddsPair(c, 0, 0, d)
    BY <1>0, <1>3, PairFollows
  <2> HIDE DEF d
  <2>2. /\ 1 \in 1 .. Len(c) /\ 3 \in 1 .. Len(c) /\ 4 \in 1 .. Len(c)
        /\ 5 \in 1 .. Len(c) /\ 6 \in 1 .. Len(c)
    BY <1>3
  <2>3. /\ d \in Seq(Octet) /\ Len(d) = 8
        /\ d[7] = 0 /\ d[8] = 0
    BY <1>3, <2>1 DEF AddsPair
  <2>4. d[1] = c[1] /\ d[3] = c[3] /\ d[4] = c[4] /\ d[5] = c[5] /\ d[6] = c[6]
    BY <2>1, <2>2 DEF AddsPair
  <2>5. QED
    BY <1>3, <2>3, <2>4
<1> HIDE DEF d
<1>5. /\ e \in Seq(Octet) /\ Len(e) = 10 /\ e[1] = 69 /\ e[3] = 1 /\ e[4] = 72
      /\ e[5] = 16 /\ e[6] = 66 /\ e[9] = 64
  <2>1. AddsPair(d, 64, 17, e)
    BY <1>0, <1>4, PairFollows
  <2> HIDE DEF e
  <2>2. /\ 1 \in 1 .. Len(d) /\ 3 \in 1 .. Len(d) /\ 4 \in 1 .. Len(d)
        /\ 5 \in 1 .. Len(d) /\ 6 \in 1 .. Len(d)
    BY <1>4
  <2>3. /\ e \in Seq(Octet) /\ Len(e) = 10
        /\ e[9] = 64 /\ e[10] = 17
    BY <1>4, <2>1 DEF AddsPair
  <2>4. e[1] = d[1] /\ e[3] = d[3] /\ e[4] = d[4] /\ e[5] = d[5] /\ e[6] = d[6]
    BY <2>1, <2>2 DEF AddsPair
  <2>5. QED
    BY <1>4, <2>3, <2>4
<1> HIDE DEF e
<1>6. /\ f \in Seq(Octet) /\ Len(f) = 12 /\ f[1] = 69 /\ f[3] = 1 /\ f[4] = 72
      /\ f[5] = 16 /\ f[6] = 66 /\ f[9] = 64
  <2>1. AddsPair(e, 0, 0, f)
    BY <1>0, <1>5, PairFollows
  <2> HIDE DEF f
  <2>2. /\ 1 \in 1 .. Len(e) /\ 3 \in 1 .. Len(e) /\ 4 \in 1 .. Len(e)
        /\ 5 \in 1 .. Len(e) /\ 6 \in 1 .. Len(e) /\ 9 \in 1 .. Len(e)
    BY <1>5
  <2>3. /\ f \in Seq(Octet) /\ Len(f) = 12
        /\ f[11] = 0 /\ f[12] = 0
    BY <1>5, <2>1 DEF AddsPair
  <2>4. /\ f[1] = e[1] /\ f[3] = e[3] /\ f[4] = e[4] /\ f[5] = e[5]
        /\ f[6] = e[6] /\ f[9] = e[9]
    BY <2>1, <2>2 DEF AddsPair
  <2>5. QED
    BY <1>5, <2>3, <2>4
<1> HIDE DEF f
<1>7. f = HeaderWords
  BY DEF HeaderWords, a, b, c, d, e, f
<1>8. Header(f, 64)
  BY <1>6 DEF Header
<1>9. QED
  BY <1>6, <1>7, <1>8

(* The datagram as it is built.                                            *)
IsDatagram(m, s, ttl) ==
  /\ m \in Seq(Octet) /\ Len(m) = 328 /\ Header(m, ttl)
  /\ \A k \in 1 .. 308 : m[20 + k] = Echo!udp_segment(s, Echo!udp_check(s))[k]

LEMMA HeaderIs ==
  ASSUME NEW s, IsProbe(s)
  PROVE  /\ Echo!ip_header(s) \in Seq(Octet) /\ Len(Echo!ip_header(s)) = 20
         /\ Header(Echo!ip_header(s), 64)
<1> DEFINE w == HeaderWords
           x == w \o s.saddr
           y == x \o s.daddr
<1>1. /\ s.saddr \in Seq(Octet) /\ Len(s.saddr) = 4
      /\ s.daddr \in Seq(Octet) /\ Len(s.daddr) = 4
  BY AddressIsOctets DEF IsProbe
<1>2. w \in Seq(Octet) /\ Len(w) = 12 /\ Header(w, 64)
  BY HeaderWordsAre
<1>3. Echo!ip_header(s) = y
  BY BytesOfFields DEF Echo!ip_header, HeaderWords, Echo!ip_ttl, Echo!IPPROTO_UDP
<1> HIDE DEF w
<1>4. Follows(w, s.saddr, x)
  BY <1>1, <1>2, Joined
<1> HIDE DEF x
<1>5. x \in Seq(Octet) /\ Len(x) = 16 /\ \A k \in 1 .. 12 : x[k] = w[k]
  BY <1>1, <1>2, <1>4 DEF Follows
<1>6. Follows(x, s.daddr, y)
  BY <1>1, <1>5, Joined
<1> HIDE DEF y
<1>7. y \in Seq(Octet) /\ Len(y) = 20 /\ \A k \in 1 .. 16 : y[k] = x[k]
  BY <1>1, <1>5, <1>6 DEF Follows
<1>8. \A k \in 1 .. 12 : y[k] = w[k]
  <2>1. \A k \in 1 .. 12 : k \in 1 .. 16
    OBVIOUS
  <2>2. QED
    BY <1>5, <1>7, <2>1
<1>9. Header(y, 64)
  <2>1. /\ y[1] = w[1] /\ y[3] = w[3] /\ y[4] = w[4] /\ y[5] = w[5]
        /\ y[6] = w[6] /\ y[9] = w[9]
    BY <1>8
  <2>2. QED
    BY <1>2, <2>1 DEF Header
<1>10. QED
  BY <1>3, <1>7, <1>9

LEMMA PseudoHeaderIs ==
  ASSUME NEW s, IsProbe(s)
  PROVE  /\ Echo!pseudo_header(s) \in Seq(Octet) /\ Len(Echo!pseudo_header(s)) = 12
         /\ Echo!pseudo_header(s)[10] = 17
<1> DEFINE x == s.saddr \o s.daddr
           y == x \o <<0, 17>>
           z == y \o Echo!bytes_of(Echo!udp_len)
<1>1. /\ s.saddr \in Seq(Octet) /\ Len(s.saddr) = 4
      /\ s.daddr \in Seq(Octet) /\ Len(s.daddr) = 4
  BY AddressIsOctets DEF IsProbe
<1>2. 0 \in Octet /\ 17 \in Octet
  BY DEF Octet
<1>3. Echo!bytes_of(Echo!udp_len) \in Seq(Octet) /\ Len(Echo!bytes_of(Echo!udp_len)) = 2
  BY UdpLength, BytesOfWord
<1>4. Echo!pseudo_header(s) = z
  BY DEF Echo!pseudo_header, Echo!IPPROTO_UDP
<1>5. Follows(s.saddr, s.daddr, x)
  BY <1>1, Joined
<1> HIDE DEF x
<1>6. x \in Seq(Octet) /\ Len(x) = 8
  BY <1>1, <1>5 DEF Follows
<1>7. AddsPair(x, 0, 17, y)
  BY <1>2, <1>6, PairFollows
<1> HIDE DEF y
<1>8. y \in Seq(Octet) /\ Len(y) = 10 /\ y[10] = 17
  BY <1>6, <1>7 DEF AddsPair
<1>9. Follows(y, Echo!bytes_of(Echo!udp_len), z)
  BY <1>3, <1>8, Joined
<1> HIDE DEF z
<1>10. 10 \in 1 .. Len(y)
  BY <1>8
<1>11. z \in Seq(Octet) /\ Len(z) = 12 /\ z[10] = y[10]
  BY <1>3, <1>8, <1>9, <1>10 DEF Follows
<1>12. QED
  BY <1>4, <1>8, <1>11

LEMMA OctetIsNat == \A v \in Octet : v \in Nat /\ v <= 255
BY DEF Octet

LEMMA ItsBytes ==
  ASSUME NEW m \in Seq(Octet)
  PROVE  /\ Len(m) \in Nat
         /\ \A k \in 1 .. Len(m) : m[k] \in Octet /\ m[k] \in 0 .. 255 /\ m[k] \in Nat
<1>1. \A k \in 1 .. Len(m) : m[k] \in Octet
  BY ElementOfSeq
<1>2. \A k \in 1 .. Len(m) : m[k] \in 0 .. 255
  BY <1>1 DEF Octet
<1>3. \A k \in 1 .. Len(m) : m[k] \in Nat
  BY <1>1, OctetIsNat, Zenon
<1>4. QED
  BY <1>1, <1>2, <1>3, LenProperties, Zenon

HighOthers(m) == m[1] + m[7] + m[13] + m[15] + m[17]
LowOthers(m)  == m[2] + m[8] + m[10] + m[14] + m[16] + m[18]

(* The sum of a header by the bytes that checksums and quotes change.      *)
SumByFields(m, high, low) ==
  TwentyBytes(m) =   (high + m[3] + m[5] + m[9] + m[11] + m[19]) * 256
                   + (low + m[4] + m[6] + m[12] + m[20])

LEMMA TwentyParts ==
  ASSUME NEW m \in Seq(Octet), Len(m) >= 20
  PROVE  /\ HighOthers(m) \in Nat /\ LowOthers(m) \in Nat
         /\ SumByFields(m, HighOthers(m), LowOthers(m))
         /\ TwentyBytes(m) \in Nat
<1>1. \A k \in 1 .. 20 : m[k] \in Nat
  BY ItsBytes
<1>2. PICK v1 \in Nat : v1 = m[1]
  <2>1. m[1] \in Nat
    BY <1>1
  <2>2. QED
    BY <2>1, Zenon
<1>3. PICK v2 \in Nat : v2 = m[2]
  <2>1. m[2] \in Nat
    BY <1>1
  <2>2. QED
    BY <2>1, Zenon
<1>4. PICK v3 \in Nat : v3 = m[3]
  <2>1. m[3] \in Nat
    BY <1>1
  <2>2. QED
    BY <2>1, Zenon
<1>5. PICK v4 \in Nat : v4 = m[4]
  <2>1. m[4] \in Nat
    BY <1>1
  <2>2. QED
    BY <2>1, Zenon
<1>6. PICK v5 \in Nat : v5 = m[5]
  <2>1. m[5] \in Nat
    BY <1>1
  <2>2. QED
    BY <2>1, Zenon
<1>7. PICK v6 \in Nat : v6 = m[6]
  <2>1. m[6] \in Nat
    BY <1>1
  <2>2. QED
    BY <2>1, Zenon
<1>8. PICK v7 \in Nat : v7 = m[7]
  <2>1. m[7] \in Nat
    BY <1>1
  <2>2. QED
    BY <2>1, Zenon
<1>9. PICK v8 \in Nat : v8 = m[8]
  <2>1. m[8] \in Nat
    BY <1>1
  <2>2. QED
    BY <2>1, Zenon
<1>10. PICK v9 \in Nat : v9 = m[9]
  <2>1. m[9] \in Nat
    BY <1>1
  <2>2. QED
    BY <2>1, Zenon
<1>11. PICK v10 \in Nat : v10 = m[10]
  <2>1. m[10] \in Nat
    BY <1>1
  <2>2. QED
    BY <2>1, Zenon
<1>12. PICK v11 \in Nat : v11 = m[11]
  <2>1. m[11] \in Nat
    BY <1>1
  <2>2. QED
    BY <2>1, Zenon
<1>13. PICK v12 \in Nat : v12 = m[12]
  <2>1. m[12] \in Nat
    BY <1>1
  <2>2. QED
    BY <2>1, Zenon
<1>14. PICK v13 \in Nat : v13 = m[13]
  <2>1. m[13] \in Nat
    BY <1>1
  <2>2. QED
    BY <2>1, Zenon
<1>15. PICK v14 \in Nat : v14 = m[14]
  <2>1. m[14] \in Nat
    BY <1>1
  <2>2. QED
    BY <2>1, Zenon
<1>16. PICK v15 \in Nat : v15 = m[15]
  <2>1. m[15] \in Nat
    BY <1>1
  <2>2. QED
    BY <2>1, Zenon
<1>17. PICK v16 \in Nat : v16 = m[16]
  <2>1. m[16] \in Nat
    BY <1>1
  <2>2. QED
    BY <2>1, Zenon
<1>18. PICK v17 \in Nat : v17 = m[17]
  <2>1. m[17] \in Nat
    BY <1>1
  <2>2. QED
    BY <2>1, Zenon
<1>19. PICK v18 \in Nat : v18 = m[18]
  <2>1. m[18] \in Nat
    BY <1>1
  <2>2. QED
    BY <2>1, Zenon
<1>20. PICK v19 \in Nat : v19 = m[19]
  <2>1. m[19] \in Nat
    BY <1>1
  <2>2. QED
    BY <2>1, Zenon
<1>21. PICK v20 \in Nat : v20 = m[20]
  <2>1. m[20] \in Nat
    BY <1>1
  <2>2. QED
    BY <2>1, Zenon
<1>22. TwentyBytes(m) =
             (v1 + v3 + v5 + v7 + v9 + v11 + v13 + v15 + v17 + v19) * 256
           + (v2 + v4 + v6 + v8 + v10 + v12 + v14 + v16 + v18 + v20)
  BY <1>2, <1>3, <1>4, <1>5, <1>6, <1>7, <1>8, <1>9, <1>10, <1>11, <1>12,
     <1>13, <1>14, <1>15, <1>16, <1>17, <1>18, <1>19, <1>20, <1>21
     DEF TwentyBytes
<1>23. PICK high \in Nat : high = v1 + v7 + v13 + v15 + v17
  OBVIOUS
<1>24. PICK low \in Nat : low = v2 + v8 + v10 + v14 + v16 + v18
  OBVIOUS
<1>25. HighOthers(m) = high /\ LowOthers(m) = low
  BY <1>2, <1>3, <1>4, <1>5, <1>6, <1>7, <1>8, <1>9, <1>10, <1>11, <1>12,
     <1>13, <1>14, <1>15, <1>16, <1>17, <1>18, <1>19, <1>20, <1>21, <1>23,
     <1>24 DEF HighOthers, LowOthers
<1>26. TwentyBytes(m) =   (high + v3 + v5 + v9 + v11 + v19) * 256
                        + (low + v4 + v6 + v12 + v20)
  BY <1>22, <1>23, <1>24
<1>27. TwentyBytes(m) \in Nat
  BY <1>26
<1>28. SumByFields(m, high, low)
  BY <1>26, <1>4, <1>6, <1>10, <1>12, <1>5, <1>7, <1>13, <1>20, <1>21 DEF SumByFields
<1>29. QED
  BY <1>25, <1>27, <1>28

(* A byte that is not zero makes the sum positive.                         *)
LEMMA PositiveSum ==
  ASSUME NEW m \in Seq(Octet), NEW k \in 1 .. Len(m), m[k] > 0
  PROVE  Echo!Sum!Total(m) \in Nat /\ Echo!Sum!Total(m) > 0
<1> DEFINE L == Len(m)
           P == SumTo(256, m)
<1>0. L \in Nat /\ m \in Seq(Nat) /\ m[k] \in Nat /\ m[k] > 0
  BY ItsBytes, EchoTotal
<1>1. \A base \in Nat :
        /\ \A j \in 0 .. L : SumTo(base, m)[j] \in Nat
        /\ \A j \in 1 .. L :
             /\ WordPart(base, m, j) = IF j % 2 = 1 THEN m[j] * base ELSE m[j]
             /\ SumTo(base, m)[j] = SumTo(base, m)[j - 1] + WordPart(base, m, j)
  BY <1>0, SumOfSequence
<1>2. /\ \A j \in 0 .. L : P[j] \in Nat
      /\ P[k] = P[k - 1] + (IF k % 2 = 1 THEN m[k] * 256 ELSE m[k])
  BY <1>1
<1>3. \A base \in Nat : \A j \in 0 .. L :
        \E rest \in Nat : SumTo(base, m)[L] = SumTo(base, m)[j] + rest
  BY <1>0, SameRest
<1>4. PICK rest \in Nat : P[L] = P[k] + rest
  <2>1. \A j \in 0 .. L : \E rest \in Nat : P[L] = P[j] + rest
    BY <1>3
  <2>2. k \in 0 .. L
    BY <1>0
  <2>3. QED
    BY <2>1, <2>2, Zenon
<1> HIDE DEF P
<1>5. PICK v \in Nat : v = m[k] /\ v > 0
  BY <1>0, Zenon
<1>6. PICK w \in Nat : w = IF k % 2 = 1 THEN v * 256 ELSE v
  <2>1. v * 256 \in Nat
    OBVIOUS
  <2>2. QED
    BY <2>1
<1>7. w > 0
  BY <1>5, <1>6
<1>8. PICK p \in Nat : p = P[k - 1]
  <2>1. k - 1 \in 0 .. L
    BY <1>0
  <2>2. QED
    BY <1>2, <2>1, Zenon
<1>9. P[L] = (p + w) + rest
  BY <1>2, <1>4, <1>5, <1>6, <1>8
<1>10. P[L] \in Nat /\ P[L] > 0
  BY <1>7, <1>9
<1>11. QED
  BY <1>10, EchoTotal DEF P

(* The header of a message, and its checksum.                              *)
IsSum(m, c) == /\ c \in 0 .. Modulo - 1
               /\ c = 0 <=> Multiple(TwentyBytes(m))
               /\ Multiple(TwentyBytes(m) + c)

LEMMA HeaderSum ==
  ASSUME NEW m \in Seq(Octet), Len(m) >= 20, m[1] = 69
  PROVE  IsSum(m, Echo!calculate_checksum(SubSeq(m, 1, 20)))
<1> DEFINE h == SubSeq(m, 1, 20)
<1>0. Len(m) \in Nat
  BY ItsBytes
<1>1. h \in Seq(Octet) /\ Len(h) = 20 /\ \A k \in 1 .. 20 : h[k] = m[k]
  <2>1. \A k \in 1 .. 20 : k \in 1 .. Len(m)
    BY <1>0
  <2>2. \A k \in 1 .. 20 : m[k] \in Octet
    BY <2>1, ItsBytes
  <2>3. h = [k \in 1 .. 20 |-> m[k]]
    BY <1>0, SubSeqProperties
  <2>4. QED
    BY <2>2, <2>3, FunctionIsSeq
<1> HIDE DEF h
<1>2. TwentyBytes(h) = TwentyBytes(m)
  <2>1. /\ h[1] = m[1] /\ h[2] = m[2] /\ h[3] = m[3] /\ h[4] = m[4]
        /\ h[5] = m[5] /\ h[6] = m[6] /\ h[7] = m[7] /\ h[8] = m[8]
        /\ h[9] = m[9] /\ h[10] = m[10] /\ h[11] = m[11] /\ h[12] = m[12]
        /\ h[13] = m[13] /\ h[14] = m[14] /\ h[15] = m[15] /\ h[16] = m[16]
        /\ h[17] = m[17] /\ h[18] = m[18] /\ h[19] = m[19] /\ h[20] = m[20]
    BY <1>1
  <2>2. QED
    BY <2>1, Zenon DEF TwentyBytes
<1>3. Echo!Sum!Total(h) = TwentyBytes(m)
  <2>1. Echo!Sum!Total(h) = SumTo(256, h)[20]
    <3>1. Echo!Sum!Total(h) = SumTo(256, h)[Len(h)] /\ Len(h) = 20
      BY <1>1, EchoTotal, Zenon
    <3>2. QED
      BY <3>1, Zenon
  <2>2. SumTo(256, h)[20] = TwentyBytes(h)
    <3>1. Len(h) >= 20
      BY <1>1
    <3>2. QED
      BY <1>1, <3>1, SumOfTwenty, Zenon
  <2>3. QED
    BY <1>2, <2>1, <2>2
<1>4. Echo!Sum!Total(h) \in Nat /\ Echo!Sum!Total(h) > 0
  <2>1. 1 \in 1 .. Len(h) /\ h[1] > 0
    BY <1>1
  <2>2. QED
    BY <1>1, <2>1, PositiveSum
<1>5. IsSum(m, Echo!calculate_checksum(h))
  BY <1>1, <1>3, <1>4, ChecksumCompletes DEF IsSum
<1>6. QED
  BY <1>5 DEF h

(* Two headers that differ in those bytes only.                            *)
Fields == {3, 4, 5, 6, 9, 11, 12, 19, 20}

LEMMA SameOthers ==
  ASSUME NEW m \in Seq(Octet), Len(m) >= 20, NEW o \in Seq(Octet), Len(o) >= 20,
         \A k \in 1 .. 20 : k \notin Fields => o[k] = m[k]
  PROVE  \E high \in Nat, low \in Nat : SumByFields(m, high, low) /\ SumByFields(o, high, low)
<1>1. /\ 1 \notin Fields /\ 2 \notin Fields /\ 7 \notin Fields /\ 8 \notin Fields
      /\ 10 \notin Fields /\ 13 \notin Fields /\ 14 \notin Fields /\ 15 \notin Fields
      /\ 16 \notin Fields /\ 17 \notin Fields /\ 18 \notin Fields
  BY DEF Fields
<1>2. /\ o[1] = m[1] /\ o[2] = m[2] /\ o[7] = m[7] /\ o[8] = m[8] /\ o[10] = m[10]
      /\ o[13] = m[13] /\ o[14] = m[14] /\ o[15] = m[15] /\ o[16] = m[16]
      /\ o[17] = m[17] /\ o[18] = m[18]
  BY <1>1
<1>3. HighOthers(o) = HighOthers(m) /\ LowOthers(o) = LowOthers(m)
  BY <1>2, Zenon DEF HighOthers, LowOthers
<1>4. /\ HighOthers(m) \in Nat /\ LowOthers(m) \in Nat
      /\ SumByFields(m, HighOthers(m), LowOthers(m))
  BY TwentyParts
<1>5. SumByFields(o, HighOthers(o), LowOthers(o))
  BY TwentyParts
<1>6. QED
  BY <1>3, <1>4, <1>5, Zenon

(* What a write leaves of a message.                                       *)
IsWritten(z, m, k, new) ==
  /\ z \in Seq(Octet) /\ Len(z) = Len(m)
  /\ \A j \in 1 .. Len(m) : z[j] = IF j \in k .. k + Len(new) - 1 THEN new[j - k + 1] ELSE m[j]

LEMMA WriteIs ==
  ASSUME NEW m \in Seq(Octet), NEW k \in Nat, NEW new \in Seq(Octet)
  PROVE  IsWritten(Echo!Write(m, k, new), m, k, new)
<1> DEFINE Byte(j) == IF j \in k .. k + Len(new) - 1 THEN new[j - k + 1] ELSE m[j]
           z == Echo!Write(m, k, new)
<1>0. Len(m) \in Nat /\ DOMAIN m = 1 .. Len(m) /\ Len(new) \in Nat
  BY LenProperties
<1>1. ASSUME NEW j \in 1 .. Len(m) PROVE Byte(j) \in Octet
  <2>1. CASE j \in k .. k + Len(new) - 1
    <3>1. j - k + 1 \in 1 .. Len(new)
      BY <1>0, <2>1
    <3>2. new[j - k + 1] \in Octet
      BY <3>1, ElementOfSeq
    <3>3. QED
      BY <2>1, <3>2
  <2>2. CASE j \notin k .. k + Len(new) - 1
    <3>1. m[j] \in Octet
      BY ElementOfSeq
    <3>2. QED
      BY <2>2, <3>1
  <2>3. QED
    BY <2>1, <2>2
<1>2. z = [j \in 1 .. Len(m) |-> Byte(j)]
  BY <1>0 DEF Echo!Write
<1> HIDE DEF z
<1>3. z \in [1 .. Len(m) -> Octet]
  <2> HIDE DEF Byte
  <2>1. QED
    BY <1>1, <1>2
<1>4. z \in Seq(Octet) /\ Len(z) = Len(m)
  BY <1>0, <1>3, FunctionIsSeq
<1>5. \A j \in 1 .. Len(m) : z[j] = Byte(j)
  BY <1>2
<1>6. QED
  BY <1>4, <1>5 DEF IsWritten, z

LEMMA WritesPair ==
  ASSUME NEW m \in Seq(Octet), Len(m) >= 20, NEW new \in Seq(Octet), Len(new) = 2
  PROVE  LET z == Echo!Write(m, 11, new)
         IN  /\ z \in Seq(Octet) /\ Len(z) = Len(m) /\ z[11] = new[1] /\ z[12] = new[2]
             /\ \A j \in 1 .. Len(m) : j \notin {11, 12} => z[j] = m[j]
<1> DEFINE z == Echo!Write(m, 11, new)
<1>0. Len(m) \in Nat
  BY ItsBytes
<1>1. IsWritten(z, m, 11, new)
  BY WriteIs
<1> HIDE DEF z
<1>2. /\ z \in Seq(Octet) /\ Len(z) = Len(m)
      /\ \A j \in 1 .. Len(m) : z[j] = IF j \in 11 .. 12 THEN new[j - 11 + 1] ELSE m[j]
  <2>1. 11 + Len(new) - 1 = 12
    OBVIOUS
  <2>2. QED
    BY <1>1, <2>1 DEF IsWritten
<1>3. z[11] = new[1] /\ z[12] = new[2]
  <2>1. /\ 11 \in 1 .. Len(m) /\ 11 \in 11 .. 12 /\ 11 - 11 + 1 = 1
        /\ 12 \in 1 .. Len(m) /\ 12 \in 11 .. 12 /\ 12 - 11 + 1 = 2
    BY <1>0
  <2>2. QED
    BY <1>2, <2>1
<1>4. \A j \in 1 .. Len(m) : j \notin {11, 12} => z[j] = m[j]
  <2>1. \A j \in 1 .. Len(m) : j \notin {11, 12} => j \notin 11 .. 12
    OBVIOUS
  <2>2. QED
    BY <1>2, <2>1
<1>5. QED
  BY <1>2, <1>3, <1>4 DEF z

OneWritten(z, m, a) == /\ z \in Seq(Octet) /\ Len(z) = Len(m) /\ z[9] = a
                       /\ \A j \in 1 .. Len(m) : j # 9 => z[j] = m[j]

LEMMA WritesOne ==
  ASSUME NEW m \in Seq(Octet), Len(m) >= 20, NEW a \in Octet
  PROVE  OneWritten(Echo!Write(m, 9, <<a>>), m, a)
<1> DEFINE new == <<a>>
           z == Echo!Write(m, 9, new)
<1>0. Len(m) \in Nat
  BY ItsBytes
<1>1. new \in Seq(Octet) /\ Len(new) = 1 /\ new[1] = a
  OBVIOUS
<1> HIDE DEF new
<1>2. IsWritten(z, m, 9, new)
  BY <1>1, WriteIs
<1> HIDE DEF z
<1>3. /\ z \in Seq(Octet) /\ Len(z) = Len(m)
      /\ \A j \in 1 .. Len(m) : z[j] = IF j \in 9 .. 9 THEN new[j - 9 + 1] ELSE m[j]
  <2>1. 9 + Len(new) - 1 = 9
    BY <1>1
  <2>2. QED
    BY <1>2, <2>1 DEF IsWritten
<1>4. z[9] = new[1]
  <2>1. 9 \in 1 .. Len(m) /\ 9 \in 9 .. 9 /\ 9 - 9 + 1 = 1
    BY <1>0
  <2>2. QED
    BY <1>3, <2>1
<1>5. \A j \in 1 .. Len(m) : j # 9 => z[j] = m[j]
  <2>1. \A j \in 1 .. Len(m) : j # 9 => j \notin 9 .. 9
    OBVIOUS
  <2>2. QED
    BY <1>3, <2>1
<1>6. QED
  BY <1>1, <1>3, <1>4, <1>5 DEF OneWritten, z, new

(* A sealed header verifies.                                               *)
IsSealed(z, m) ==
  /\ z \in Seq(Octet) /\ Len(z) = Len(m)
  /\ \A j \in 1 .. Len(m) : j \notin {11, 12} => z[j] = m[j]
  /\ Echo!calculate_checksum(SubSeq(z, 1, 20)) = 0

LEMMA SealedVerifies ==
  ASSUME NEW m \in Seq(Octet), Len(m) >= 20, m[1] = 69
  PROVE  IsSealed(Echo!Sealed(m), m)
<1> DEFINE zeros == <<0, 0>>
           y == Echo!Write(m, 11, zeros)
           c == Echo!calculate_checksum(SubSeq(y, 1, 20))
           new == Echo!bytes_of(c)
           z == Echo!Write(m, 11, new)
<1>0. Len(m) \in Nat
  BY ItsBytes
<1>1. zeros \in Seq(Octet) /\ Len(zeros) = 2 /\ zeros[1] = 0 /\ zeros[2] = 0
  <2>1. 0 \in Octet
    BY DEF Octet
  <2>2. QED
    BY <2>1, PairIsOctets
<1>2. Echo!Sealed(m) = z
  BY Zenon DEF Echo!Sealed
<1> HIDE DEF zeros
<1>3. /\ y \in Seq(Octet) /\ Len(y) = Len(m) /\ y[11] = 0 /\ y[12] = 0
      /\ \A j \in 1 .. Len(m) : j \notin {11, 12} => y[j] = m[j]
  BY <1>1, WritesPair
<1> HIDE DEF y
<1>4. y[1] = 69
  BY <1>0, <1>3
<1>5. IsSum(y, c)
  BY <1>3, <1>4, HeaderSum
<1> HIDE DEF c
<1>6. c \in 0 .. Modulo - 1 /\ Multiple(TwentyBytes(y) + c)
  BY <1>5 DEF IsSum
<1>7. c \in Word
  BY <1>6, ModuloFacts DEF Word
<1>8. /\ new \in Seq(Octet) /\ Len(new) = 2
      /\ new[1] \in Octet /\ new[2] \in Octet /\ new[1] * 256 + new[2] = c
  BY <1>7, BytesOfWord
<1> HIDE DEF new
<1>9. /\ z \in Seq(Octet) /\ Len(z) = Len(m) /\ z[11] = new[1] /\ z[12] = new[2]
      /\ \A j \in 1 .. Len(m) : j \notin {11, 12} => z[j] = m[j]
  BY <1>8, WritesPair
<1> HIDE DEF z
<1>10. TwentyBytes(z) = TwentyBytes(y) + c
  <2>1. \A k \in 1 .. 20 : k \notin {11, 12} => z[k] = y[k]
    <3>1. \A k \in 1 .. 20 : k \in 1 .. Len(m)
      BY <1>0
    <3>2. QED
      BY <1>3, <1>9, <3>1
  <2>2. \A k \in 1 .. 20 : k \notin Fields => z[k] = y[k]
    BY <2>1 DEF Fields
  <2>3. Len(y) >= 20 /\ Len(z) >= 20
    BY <1>3, <1>9
  <2>4. PICK high \in Nat, low \in Nat :
        SumByFields(y, high, low) /\ SumByFields(z, high, low)
    BY <1>3, <1>9, <2>2, <2>3, SameOthers
  <2>5. /\ z[3] = y[3] /\ z[5] = y[5] /\ z[9] = y[9] /\ z[4] = y[4] /\ z[6] = y[6]
        /\ z[19] = y[19] /\ z[20] = y[20]
    BY <2>1
  <2>6. /\ y[3] \in Nat /\ y[5] \in Nat /\ y[9] \in Nat /\ y[4] \in Nat /\ y[6] \in Nat
        /\ y[19] \in Nat /\ y[20] \in Nat
    <3>1. \A k \in 1 .. 20 : y[k] \in Nat
      BY <1>3, <2>3, ItsBytes
    <3>2. QED
      BY <3>1
  <2>7. PICK x \in Nat : x = y[3]
    BY <2>6, Zenon
  <2>8. PICK v \in Nat : v = y[5]
    BY <2>6, Zenon
  <2>9. PICK w \in Nat : w = y[9]
    BY <2>6, Zenon
  <2>10. PICK p \in Nat : p = y[4]
    BY <2>6, Zenon
  <2>11. PICK q \in Nat : q = y[6]
    BY <2>6, Zenon
  <2>12. PICK d \in Nat : d = y[19]
    BY <2>6, Zenon
  <2>13. PICK e \in Nat : e = y[20]
    BY <2>6, Zenon
  <2>14. new[1] \in Nat /\ new[2] \in Nat
    BY <1>8, OctetIsNat, Zenon
  <2>15. PICK a \in Nat : a = new[1]
    BY <2>14, Zenon
  <2>16. PICK b \in Nat : b = new[2]
    BY <2>14, Zenon
  <2>17. TwentyBytes(y) = (high + x + v + w + 0 + d) * 256 + (low + p + q + 0 + e)
    BY <1>3, <2>4, <2>7, <2>8, <2>9, <2>10, <2>11, <2>12, <2>13 DEF SumByFields
  <2>18. TwentyBytes(z) = (high + x + v + w + a + d) * 256 + (low + p + q + b + e)
    BY <1>9, <2>4, <2>5, <2>7, <2>8, <2>9, <2>10, <2>11, <2>12, <2>13, <2>15, <2>16
       DEF SumByFields
  <2>19. a * 256 + b = c
    BY <1>8, <2>15, <2>16
  <2>20. QED
    BY <2>17, <2>18, <2>19
<1>11. Echo!calculate_checksum(SubSeq(z, 1, 20)) = 0
  <2>1. z[1] = 69 /\ Len(z) >= 20
    BY <1>0, <1>9
  <2>2. IsSum(z, Echo!calculate_checksum(SubSeq(z, 1, 20)))
    BY <1>9, <2>1, HeaderSum
  <2>3. Multiple(TwentyBytes(z))
    BY <1>6, <1>10
  <2>4. QED
    BY <2>2, <2>3 DEF IsSum
<1>12. QED
  BY <1>2, <1>9, <1>11 DEF IsSealed

(* The segment behind the pseudo header: with a checksum in it, the sum is *)
(* greater by just that.                                                   *)
Summed(s, check) == Echo!pseudo_header(s) \o Echo!udp_segment(s, check)

IsSummed(m, s, check) ==
  /\ m \in Seq(Octet) /\ Len(m) = 320 /\ m[10] = 17
  /\ \A k \in 1 .. 12 : m[k] = Echo!pseudo_header(s)[k]
  /\ \A k \in 1 .. 6 : m[12 + k] = Ports(s)[k]
  /\ m[19] = Echo!bytes_of(check)[1] /\ m[20] = Echo!bytes_of(check)[2]
  /\ \A k \in 9 .. 308 : m[12 + k] = 67

LEMMA SummedIs ==
  ASSUME NEW s, IsProbe(s), NEW check \in Word
  PROVE  IsSummed(Summed(s, check), s, check)
<1> DEFINE x == Echo!pseudo_header(s)
           y == Echo!udp_segment(s, check)
           z == x \o y
<1>1. x \in Seq(Octet) /\ Len(x) = 12 /\ x[10] = 17
  BY PseudoHeaderIs
<1>2. IsSegment(y, s, check)
  BY SegmentIs
<1> HIDE DEF x, y
<1>3. y \in Seq(Octet) /\ Len(y) = 308
  BY <1>2 DEF IsSegment
<1>4. Follows(x, y, z)
  BY <1>1, <1>3, Joined
<1> HIDE DEF z
<1>5. /\ z \in Seq(Octet) /\ Len(z) = 320 /\ \A k \in 1 .. 12 : z[k] = x[k]
      /\ \A k \in 1 .. 308 : z[12 + k] = y[k]
  <2>1. Len(x) + Len(y) = 320
    BY <1>1, <1>3
  <2>2. QED
    BY <1>1, <1>3, <1>4, <2>1 DEF Follows
<1>6. z[10] = 17
  BY <1>1, <1>5
<1>7. \A k \in 1 .. 6 : z[12 + k] = Ports(s)[k]
  <2>1. \A k \in 1 .. 6 : k \in 1 .. 308
    OBVIOUS
  <2>2. \A k \in 1 .. 6 : y[k] = Ports(s)[k]
    BY <1>2 DEF IsSegment
  <2>3. ASSUME NEW k \in 1 .. 6 PROVE z[12 + k] = Ports(s)[k]
    <3>1. k \in 1 .. 308 /\ y[k] = Ports(s)[k]
      BY <2>1, <2>2
    <3>2. z[12 + k] = y[k]
      BY <1>5, <3>1
    <3>3. QED
      BY <3>1, <3>2
  <2>4. QED
    BY <2>3
<1>8. z[19] = y[7] /\ z[20] = y[8]
  <2>1. 7 \in 1 .. 308 /\ 8 \in 1 .. 308
    OBVIOUS
  <2>2. z[12 + 7] = y[7] /\ z[12 + 8] = y[8]
    BY <1>5, <2>1
  <2>3. 12 + 7 = 19 /\ 12 + 8 = 20
    OBVIOUS
  <2>4. QED
    BY <2>2, <2>3
<1>9. y[7] = Echo!bytes_of(check)[1] /\ y[8] = Echo!bytes_of(check)[2]
  BY <1>2 DEF IsSegment
<1>10. \A k \in 9 .. 308 : z[12 + k] = 67
  <2>1. \A k \in 9 .. 308 : k \in 1 .. 308
    OBVIOUS
  <2>2. \A k \in 9 .. 308 : y[k] = 67
    BY <1>2 DEF IsSegment
  <2>3. ASSUME NEW k \in 9 .. 308 PROVE z[12 + k] = 67
    <3>1. k \in 1 .. 308 /\ y[k] = 67
      BY <2>1, <2>2
    <3>2. z[12 + k] = y[k]
      BY <1>5, <3>1
    <3>3. QED
      BY <3>1, <3>2
  <2>4. QED
    BY <2>3
<1>11. IsSummed(z, s, check)
  BY <1>5, <1>6, <1>7, <1>8, <1>9, <1>10 DEF IsSummed, x
<1>12. QED
  BY <1>11 DEF Summed, x, y, z

LEMMA SumOfSegment ==
  ASSUME NEW s, IsProbe(s), NEW check \in Word
  PROVE  /\ Echo!Sum!Total(Summed(s, 0)) \in Nat /\ Echo!Sum!Total(Summed(s, 0)) > 0
         /\ Echo!Sum!Total(Summed(s, check)) = Echo!Sum!Total(Summed(s, 0)) + check
<1> DEFINE x == Summed(s, 0)
           z == Summed(s, check)
<1>0. 0 \in Word /\ check \in Nat
  BY ModuloFacts DEF Word
<1>1. IsSummed(x, s, 0) /\ IsSummed(z, s, check)
  BY <1>0, SummedIs
<1> HIDE DEF x, z
<1>2. /\ x \in Seq(Octet) /\ Len(x) = 320 /\ x[10] = 17
      /\ z \in Seq(Octet) /\ Len(z) = 320
  BY <1>1 DEF IsSummed
<1>3. Echo!Sum!Total(x) \in Nat /\ Echo!Sum!Total(x) > 0
  <2>1. 10 \in 1 .. Len(x) /\ x[10] > 0
    BY <1>2
  <2>2. QED
    BY <1>2, <2>1, PositiveSum
<1>4. /\ x[19] = 0 /\ x[20] = 0
      /\ z[19] = Echo!bytes_of(check)[1] /\ z[20] = Echo!bytes_of(check)[2]
  <2>1. Echo!bytes_of(0)[1] = 0 /\ Echo!bytes_of(0)[2] = 0
    BY DEF Echo!bytes_of
  <2>2. QED
    BY <1>1, <2>1 DEF IsSummed
<1>5. \A k \in 1 .. 18 : z[k] = x[k]
  <2>1. ASSUME NEW k \in 1 .. 12 PROVE z[k] = x[k]
    <3>1. z[k] = Echo!pseudo_header(s)[k] /\ x[k] = Echo!pseudo_header(s)[k]
      BY <1>1 DEF IsSummed
    <3>2. QED
      BY <3>1
  <2>2. ASSUME NEW k \in 13 .. 18 PROVE z[k] = x[k]
    <3>1. PICK j \in 1 .. 6 : k = 12 + j
      <4>1. k - 12 \in 1 .. 6 /\ k = 12 + (k - 12)
        OBVIOUS
      <4>2. QED
        BY <4>1
    <3>2. z[12 + j] = Ports(s)[j] /\ x[12 + j] = Ports(s)[j]
      BY <1>1 DEF IsSummed
    <3>3. QED
      BY <3>1, <3>2
  <2>3. \A k \in 1 .. 18 : k \in 1 .. 12 \/ k \in 13 .. 18
    OBVIOUS
  <2>4. QED
    BY <2>1, <2>2, <2>3
<1>6. \A k \in 20 + 1 .. Len(x) : z[k] = x[k]
  <2>1. ASSUME NEW k \in 20 + 1 .. Len(x) PROVE z[k] = x[k]
    <3>1. PICK j \in 9 .. 308 : k = 12 + j
      <4>1. k - 12 \in 9 .. 308 /\ k = 12 + (k - 12)
        BY <1>2
      <4>2. QED
        BY <4>1
    <3>2. z[12 + j] = 67 /\ x[12 + j] = 67
      BY <1>1 DEF IsSummed
    <3>3. QED
      BY <3>1, <3>2
  <2>2. QED
    BY <2>1
<1>7. /\ Echo!Sum!Total(x) = SumTo(256, x)[Len(x)] /\ x \in Seq(Nat)
      /\ Echo!Sum!Total(z) = SumTo(256, z)[Len(z)] /\ z \in Seq(Nat)
  BY <1>2, EchoTotal, Zenon
<1>8. PICK rest \in Nat : /\ Echo!Sum!Total(x) = TwentyBytes(x) + rest
                          /\ Echo!Sum!Total(z) = TwentyBytes(z) + rest
  <2>1. \A base \in Nat : \E rest \in Nat :
          /\ SumTo(base, x)[Len(x)] = SumTo(base, x)[20] + rest
          /\ SumTo(base, z)[Len(z)] = SumTo(base, z)[20] + rest
    <3>1. 20 \in 0 .. Len(x) /\ Len(z) = Len(x)
      BY <1>2
    <3>2. QED
      BY <1>6, <1>7, <3>1, SameRest
  <2>2. SumTo(256, x)[20] = TwentyBytes(x) /\ SumTo(256, z)[20] = TwentyBytes(z)
    <3>1. Len(x) >= 20 /\ Len(z) >= 20
      BY <1>2
    <3>2. QED
      BY <1>2, <3>1, SumOfTwenty, Zenon
  <2>3. 256 \in Nat
    OBVIOUS
  <2>4. PICK rest \in Nat : /\ SumTo(256, x)[Len(x)] = SumTo(256, x)[20] + rest
                            /\ SumTo(256, z)[Len(z)] = SumTo(256, z)[20] + rest
    BY <2>1, <2>3
  <2>5. QED
    BY <1>7, <2>2, <2>4, Zenon
<1>9. TwentyBytes(x) \in Nat /\ TwentyBytes(z) = TwentyBytes(x) + check
  <2>1. Len(x) >= 20 /\ Len(z) >= 20
    BY <1>2
  <2>2. \A k \in 1 .. 20 : k \notin Fields => z[k] = x[k]
    <3>1. \A k \in 1 .. 20 : k \notin Fields => k \in 1 .. 18
      BY DEF Fields
    <3>2. QED
      BY <1>5, <3>1
  <2>3. PICK high \in Nat, low \in Nat :
        SumByFields(x, high, low) /\ SumByFields(z, high, low)
    BY <1>2, <2>1, <2>2, SameOthers
  <2>4. /\ z[3] = x[3] /\ z[5] = x[5] /\ z[9] = x[9] /\ z[11] = x[11]
        /\ z[4] = x[4] /\ z[6] = x[6] /\ z[12] = x[12]
    BY <1>5
  <2>5. /\ x[3] \in Nat /\ x[5] \in Nat /\ x[9] \in Nat /\ x[11] \in Nat
        /\ x[4] \in Nat /\ x[6] \in Nat /\ x[12] \in Nat
    <3>1. ASSUME NEW k \in 1 .. 20 PROVE x[k] \in Nat
      <4>1. x \in Seq(Octet) /\ k \in 1 .. Len(x)
        BY <1>2
      <4>2. QED
        BY <4>1, ItsBytes, Zenon
    <3>2. QED
      BY <3>1
  <2>6. PICK a \in Nat : a = x[3]
    BY <2>5, Zenon
  <2>7. PICK b \in Nat : b = x[5]
    BY <2>5, Zenon
  <2>8. PICK c \in Nat : c = x[9]
    BY <2>5, Zenon
  <2>9. PICK d \in Nat : d = x[11]
    BY <2>5, Zenon
  <2>10. PICK e \in Nat : e = x[4]
    BY <2>5, Zenon
  <2>11. PICK f \in Nat : f = x[6]
    BY <2>5, Zenon
  <2>12. PICK g \in Nat : g = x[12]
    BY <2>5, Zenon
  <2>13. /\ Echo!bytes_of(check)[1] \in Nat /\ Echo!bytes_of(check)[2] \in Nat
         /\ Echo!bytes_of(check)[1] * 256 + Echo!bytes_of(check)[2] = check
    BY BytesOfWord, OctetIsNat, Zenon
  <2>14. PICK v \in Nat : v = Echo!bytes_of(check)[1]
    BY <2>13, Zenon
  <2>15. PICK w \in Nat : w = Echo!bytes_of(check)[2]
    BY <2>13, Zenon
  <2>16. TwentyBytes(x) = (high + a + b + c + d + 0) * 256 + (low + e + f + g + 0)
    BY <1>4, <2>3, <2>6, <2>7, <2>8, <2>9, <2>10, <2>11, <2>12 DEF SumByFields
  <2>17. TwentyBytes(z) = (high + a + b + c + d + v) * 256 + (low + e + f + g + w)
    BY <1>4, <2>3, <2>4, <2>6, <2>7, <2>8, <2>9, <2>10, <2>11, <2>12, <2>14, <2>15
       DEF SumByFields
  <2>18. v * 256 + w = check
    BY <2>13, <2>14, <2>15
  <2>19. QED
    BY <2>16, <2>17, <2>18
<1>10. Echo!Sum!Total(z) = Echo!Sum!Total(x) + check
  <2>1. PICK t \in Nat : t = TwentyBytes(x)
    BY <1>9, Zenon
  <2>2. QED
    BY <1>0, <1>8, <1>9, <2>1
<1>11. QED
  BY <1>3, <1>10 DEF x, z

(* What is sent verifies, and its checksum is never zero.                  *)
LEMMA CheckIs ==
  ASSUME NEW s, IsProbe(s)
  PROVE  /\ Echo!udp_check(s) \in Word /\ Echo!udp_check(s) # 0
         /\ Echo!calculate_checksum(Summed(s, Echo!udp_check(s))) = 0
<1> DEFINE x == Summed(s, 0)
           t == Echo!Sum!Total(x)
           c == Echo!calculate_checksum(x)
           d == Echo!udp_check(s)
           z == Summed(s, d)
           u == Echo!Sum!Total(z)
<1>0. 0 \in Word
  BY ModuloFacts DEF Word
<1>1. x \in Seq(Octet) /\ t \in Nat /\ t > 0
  <2>1. IsSummed(x, s, 0)
    BY <1>0, SummedIs
  <2>2. t \in Nat /\ t > 0
    BY <1>0, SumOfSegment
  <2> HIDE DEF t
  <2>3. QED
    BY <2>1, <2>2 DEF IsSummed
<1>2. c \in 0 .. Modulo - 1 /\ Multiple(t + c) /\ (c = 0 <=> Multiple(t))
  <2> HIDE DEF x
  <2>1. QED
    BY <1>1, ChecksumCompletes
<1>3. d = IF c = 0 THEN 65535 ELSE c
  <2>1. Echo!checksum(s) = c
    BY DEF Echo!checksum, Summed
  <2>2. QED
    BY <2>1 DEF Echo!udp_check
<1> HIDE DEF x, t, c, d
<1>4. d \in 0 .. Modulo /\ d # 0 /\ Multiple(t + d)
  <2>1. CASE c = 0
    <3>1. d = Modulo /\ Multiple(t)
      BY <1>2, <1>3, <2>1, ModuloFacts
    <3>2. PICK q \in Int : t = Modulo * q
      BY <3>1 DEF Multiple
    <3>3. PICK p \in Int : p = q + 1
      OBVIOUS
    <3>4. t + d = Modulo * p
      <4>1. Modulo * p = Modulo * q + Modulo
        BY <3>3, ModuloFacts
      <4>2. QED
        BY <3>1, <3>2, <4>1
    <3>5. Multiple(t + d)
      BY <3>4 DEF Multiple
    <3>6. QED
      BY <3>1, <3>5, ModuloFacts
  <2>2. CASE c # 0
    <3>1. d = c
      BY <1>3, <2>2
    <3>2. QED
      BY <1>2, <2>2, <3>1, ModuloFacts
  <2>3. QED
    BY <2>1, <2>2
<1>5. d \in Word
  BY <1>4 DEF Word
<1>6. u = t + d
  BY <1>5, SumOfSegment DEF t, x
<1>7. z \in Seq(Octet)
  BY <1>5, SummedIs DEF IsSummed
<1> HIDE DEF z
<1>8. u \in Nat /\ u > 0 /\ Multiple(u)
  <2>1. t + d \in Nat /\ t + d > 0
    BY <1>1, <1>4, ModuloFacts
  <2>2. QED
    BY <1>4, <1>6, <2>1
<1>9. Echo!calculate_checksum(z) = 0
  BY <1>7, <1>8, ChecksumCompletes
<1>10. QED
  BY <1>4, <1>5, <1>9 DEF z, d

-----------------------------------------------------------------------------
(* The datagram as it is built, sealed, and counted down.                  *)
LEMMA ConstructedIs ==
  ASSUME NEW s, IsProbe(s)
  PROVE  IsDatagram(Echo!ip_header(s) \o Echo!udp_segment(s, Echo!udp_check(s)), s, 64)
<1> DEFINE h == Echo!ip_header(s)
           g == Echo!udp_segment(s, Echo!udp_check(s))
           z == h \o g
<1>1. h \in Seq(Octet) /\ Len(h) = 20 /\ Header(h, 64)
  BY HeaderIs
<1>2. g \in Seq(Octet) /\ Len(g) = 308
  BY CheckIs, SegmentIs DEF IsSegment
<1> HIDE DEF h, g
<1>3. Follows(h, g, z)
  BY <1>1, <1>2, Joined
<1> HIDE DEF z
<1>4. z \in Seq(Octet) /\ Len(z) = 328
  BY <1>1, <1>2, <1>3 DEF Follows
<1>5. Header(z, 64)
  <2>1. ASSUME NEW k \in 1 .. 20 PROVE z[k] = h[k]
    BY <1>1, <1>3 DEF Follows
  <2>2. /\ z[1] = h[1] /\ z[3] = h[3] /\ z[4] = h[4] /\ z[5] = h[5]
        /\ z[6] = h[6] /\ z[9] = h[9]
    BY <2>1
  <2>3. QED
    BY <1>1, <2>2 DEF Header
<1>6. ASSUME NEW k \in 1 .. 308 PROVE z[20 + k] = g[k]
  <2>1. k \in 1 .. Len(g)
    BY <1>2
  <2>2. z[Len(h) + k] = g[k]
    BY <1>3, <2>1 DEF Follows
  <2>3. QED
    BY <1>1, <2>2
<1>7. QED
  BY <1>4, <1>5, <1>6 DEF IsDatagram, z, g, h

LEMMA SealedIs ==
  ASSUME NEW s, IsProbe(s), NEW ttl, NEW m, IsDatagram(m, s, ttl)
  PROVE  /\ IsDatagram(Echo!Sealed(m), s, ttl)
         /\ Echo!calculate_checksum(SubSeq(Echo!Sealed(m), 1, 20)) = 0
<1> DEFINE z == Echo!Sealed(m)
           g == Echo!udp_segment(s, Echo!udp_check(s))
<1>1. /\ m \in Seq(Octet) /\ Len(m) = 328 /\ Header(m, ttl)
      /\ \A k \in 1 .. 308 : m[20 + k] = g[k]
  BY DEF IsDatagram
<1>2. IsSealed(z, m)
  <2>1. m[1] = 69 /\ Len(m) >= 20
    BY <1>1 DEF Header
  <2>2. QED
    BY <1>1, <2>1, SealedVerifies, Zenon
<1> HIDE DEF z, g
<1>3. z \in Seq(Octet) /\ Len(z) = 328
  BY <1>1, <1>2 DEF IsSealed
<1>4. ASSUME NEW k \in 1 .. 328, k \notin {11, 12} PROVE z[k] = m[k]
  BY <1>1, <1>2, <1>4 DEF IsSealed
<1>5. Header(z, ttl)
  <2>1. /\ z[1] = m[1] /\ z[3] = m[3] /\ z[4] = m[4] /\ z[5] = m[5]
        /\ z[6] = m[6] /\ z[9] = m[9]
    BY <1>4
  <2>2. QED
    BY <1>1, <2>1 DEF Header
<1>6. ASSUME NEW k \in 1 .. 308 PROVE z[20 + k] = g[k]
  <2>1. 20 + k \in 1 .. 328 /\ 20 + k \notin {11, 12}
    OBVIOUS
  <2>2. z[20 + k] = m[20 + k]
    BY <1>4, <2>1
  <2>3. m[20 + k] = g[k]
    BY <1>1
  <2>4. QED
    BY <2>2, <2>3
<1>7. IsDatagram(z, s, ttl)
  BY <1>3, <1>5, <1>6 DEF IsDatagram, g
<1>8. QED
  BY <1>2, <1>7 DEF IsSealed, z

LEMMA CountedDownIs ==
  ASSUME NEW s, IsProbe(s), NEW ttl \in 1 .. 64, NEW m, IsDatagram(m, s, ttl)
  PROVE  IsDatagram(Echo!Write(m, 9, <<m[9] - 1>>), s, ttl - 1)
<1> DEFINE a == m[9] - 1
           z == Echo!Write(m, 9, <<a>>)
           g == Echo!udp_segment(s, Echo!udp_check(s))
<1>1. /\ m \in Seq(Octet) /\ Len(m) = 328 /\ Header(m, ttl)
      /\ \A k \in 1 .. 308 : m[20 + k] = g[k]
  BY DEF IsDatagram
<1>2. a \in Octet /\ a = ttl - 1
  <2>1. m[9] = ttl
    BY <1>1 DEF Header
  <2>2. QED
    BY <2>1 DEF Octet
<1> HIDE DEF a, g
<1>3. /\ z \in Seq(Octet) /\ Len(z) = Len(m) /\ z[9] = a
      /\ \A j \in 1 .. Len(m) : j # 9 => z[j] = m[j]
  <2>1. Len(m) >= 20
    BY <1>1
  <2>2. OneWritten(z, m, a)
    BY <1>1, <1>2, <2>1, WritesOne, Zenon
  <2>3. QED
    BY <2>2 DEF OneWritten
<1> HIDE DEF z
<1>4. ASSUME NEW k \in 1 .. 328, k # 9 PROVE z[k] = m[k]
  BY <1>1, <1>3, <1>4
<1>5. Header(z, ttl - 1)
  <2>1. z[1] = m[1] /\ z[3] = m[3] /\ z[4] = m[4] /\ z[5] = m[5] /\ z[6] = m[6]
    BY <1>4
  <2>2. QED
    BY <1>1, <1>2, <1>3, <2>1 DEF Header
<1>6. ASSUME NEW k \in 1 .. 308 PROVE z[20 + k] = g[k]
  <2>1. 20 + k \in 1 .. 328 /\ 20 + k # 9
    OBVIOUS
  <2>2. z[20 + k] = m[20 + k]
    BY <1>4, <2>1
  <2>3. m[20 + k] = g[k]
    BY <1>1
  <2>4. QED
    BY <2>2, <2>3
<1>7. QED
  BY <1>1, <1>3, <1>5, <1>6 DEF IsDatagram, g, z, a

(* Its segment is the one that was built, and verifies.                    *)
LEMMA DatagramVerifies ==
  ASSUME NEW s, IsProbe(s), NEW ttl, NEW m, IsDatagram(m, s, ttl)
  PROVE  Echo!calculate_checksum(Echo!pseudo_header(s) \o SubSeq(m, 21, Len(m))) = 0
<1> DEFINE g == Echo!udp_segment(s, Echo!udp_check(s))
           h == SubSeq(m, 21, Len(m))
<1>1. /\ m \in Seq(Octet) /\ Len(m) = 328
      /\ \A k \in 1 .. 308 : m[20 + k] = g[k]
  BY DEF IsDatagram
<1>2. g \in Seq(Octet) /\ Len(g) = 308
  BY CheckIs, SegmentIs DEF IsSegment
<1>3. h = g
  <2> HIDE DEF g
  <2>1. h = [k \in 1 .. 308 |-> m[20 + k]]
    <3>1. \A i, j \in Int : SubSeq(m, i, j) = [k \in 1 .. (j - i + 1) |-> m[k + i - 1]]
      BY DEF SubSeq
    <3>2. SubSeq(m, 21, 328) = [k \in 1 .. (328 - 21 + 1) |-> m[k + 21 - 1]]
      BY <3>1
    <3>3. 328 - 21 + 1 = 308 /\ \A k \in 1 .. 308 : k + 21 - 1 = 20 + k
      OBVIOUS
    <3>4. QED
      BY <1>1, <3>2, <3>3
  <2>2. g = [k \in 1 .. 308 |-> g[k]]
    <3>1. DOMAIN g = 1 .. 308 /\ g = [k \in DOMAIN g |-> g[k]]
      BY <1>2, LenProperties
    <3>2. QED
      BY <3>1
  <2>3. [k \in 1 .. 308 |-> m[20 + k]] = [k \in 1 .. 308 |-> g[k]]
    BY <1>1
  <2>4. QED
    BY <2>1, <2>2, <2>3
<1>4. QED
  BY <1>3, CheckIs DEF Summed

(* The checksum and the data in it.                                        *)
LEMMA DataOfDatagram ==
  ASSUME NEW s, IsProbe(s), NEW ttl, NEW m, IsDatagram(m, s, ttl)
  PROVE  /\ m[27] * 256 + m[28] = Echo!udp_check(s)
         /\ \A k \in 29 .. 328 : m[k] = 67
<1> DEFINE check == Echo!udp_check(s)
           g == Echo!udp_segment(s, check)
<1>1. \A k \in 1 .. 308 : m[20 + k] = g[k]
  BY DEF IsDatagram
<1>2. check \in Word
  BY CheckIs
<1> HIDE DEF check
<1>3. IsSegment(g, s, check)
  BY <1>2, SegmentIs
<1> HIDE DEF g
<1>4. m[27] = Echo!bytes_of(check)[1] /\ m[28] = Echo!bytes_of(check)[2]
  <2>1. 7 \in 1 .. 308 /\ 8 \in 1 .. 308 /\ 20 + 7 = 27 /\ 20 + 8 = 28
    OBVIOUS
  <2>2. m[20 + 7] = g[7] /\ m[20 + 8] = g[8]
    BY <1>1, <2>1
  <2>3. m[27] = g[7] /\ m[28] = g[8]
    BY <2>1, <2>2
  <2>4. QED
    BY <1>3, <2>3 DEF IsSegment
<1>5. m[27] * 256 + m[28] = check
  BY <1>2, <1>4, BytesOfWord
<1>6. ASSUME NEW k \in 29 .. 328 PROVE m[k] = 67
  <2>1. PICK j \in 9 .. 308 : k = 20 + j
    <3>1. k - 20 \in 9 .. 308 /\ k = 20 + (k - 20)
      OBVIOUS
    <3>2. QED
      BY <3>1
  <2>2. j \in 1 .. 308
    OBVIOUS
  <2>3. m[20 + j] = g[j]
    BY <1>1, <2>2
  <2>4. g[j] = 67
    BY <1>3 DEF IsSegment
  <2>5. QED
    BY <2>1, <2>3, <2>4
<1>7. QED
  BY <1>5, <1>6 DEF check

-----------------------------------------------------------------------------
(* The quote, byte by byte.                                                *)
QuotedByte(k, byte, len, ch) ==
  CASE k \in {3, 4}   /\ "length" \in ch       -> Echo!bytes_of(Echo!total_len - 20)[k - 2]
    [] k \in {5, 6}   /\ "id" \in ch           -> 0
    [] k = 9          /\ "ttl" \in ch          -> byte - 1
    [] k \in {11, 12} /\ "ip_checksum" \in ch  -> 0
    [] k \in {27, 28} /\ "udp_checksum" \in ch -> 0
    [] k = len        /\ "data" \in ch         -> 0
    [] OTHER                                   -> byte

Cleared(k, ch) == \/ k \in {5, 6} /\ "id" \in ch
                  \/ k \in {11, 12} /\ "ip_checksum" \in ch
                  \/ k \in {27, 28} /\ "udp_checksum" \in ch

IsQuoted(b, k, byte, len, ch) ==
  /\ (k = 3 /\ "length" \in ch) => b = 1
  /\ (k = 4 /\ "length" \in ch) => b = 52
  /\ (k = 9 /\ "ttl" \in ch) => b = byte - 1
  /\ (Cleared(k, ch) \/ (k = len /\ "data" \in ch)) => b = 0
  /\ ~(\/ k \in {3, 4} /\ "length" \in ch
       \/ k = 9 /\ "ttl" \in ch
       \/ Cleared(k, ch)
       \/ k = len /\ "data" \in ch) => b = byte

LEMMA QuotedByteIs ==
  ASSUME NEW len \in Nat, 28 <= len, len <= 328, NEW k \in 1 .. len, NEW byte \in Octet, NEW ch,
         "data" \in ch => len > 28, k = 9 => byte > 0
  PROVE  /\ IsQuoted(QuotedByte(k, byte, len, ch), k, byte, len, ch)
         /\ QuotedByte(k, byte, len, ch) \in Octet
<1> DEFINE b == QuotedByte(k, byte, len, ch)
<1>0. byte \in Nat /\ byte <= 255
  BY OctetIsNat
<1>1. CASE k \in {3, 4}
  <2>0. /\ k \notin {5, 6} /\ k # 9 /\ k \notin {11, 12} /\ k \notin {27, 28}
        /\ ~(k = len /\ "data" \in ch)
    BY <1>1
  <2>1. CASE "length" \in ch
    <3>1. b = Echo!bytes_of(Echo!total_len - 20)[k - 2]
      BY <1>1, <2>0, <2>1 DEF QuotedByte
    <3> HIDE DEF b
    <3>2. (k = 3 => b = 1) /\ (k = 4 => b = 52)
      <4>1. b = <<1, 52>>[k - 2]
        BY <3>1, BytesOfFields
      <4>2. QED
        BY <4>1
    <3>3. b \in Octet
      BY <1>1, <3>2 DEF Octet
    <3>4. IsQuoted(b, k, byte, len, ch)
      BY <1>1, <2>0, <2>1, <3>2 DEF IsQuoted, Cleared
    <3>5. QED
      BY <3>3, <3>4 DEF b
  <2>2. CASE "length" \notin ch
    <3>1. b = byte
      BY <1>1, <2>0, <2>2 DEF QuotedByte
    <3> HIDE DEF b
    <3>2. IsQuoted(b, k, byte, len, ch)
      BY <1>1, <2>0, <2>2, <3>1 DEF IsQuoted, Cleared
    <3>3. QED
      BY <3>1, <3>2 DEF b
  <2>3. QED
    BY <2>1, <2>2
<1>2. CASE k \in {5, 6}
  <2>0. /\ k \notin {3, 4} /\ k \notin {11, 12} /\ k \notin {27, 28} /\ k # 9 /\ k # 3 /\ k # 4
        /\ ~(k = len /\ "data" \in ch)
    BY <1>2
  <2>1. CASE "id" \in ch
    <3>1. b = 0
      BY <1>2, <2>0, <2>1 DEF QuotedByte
    <3> HIDE DEF b
    <3>2. b \in Octet
      BY <3>1 DEF Octet
    <3>3. IsQuoted(b, k, byte, len, ch)
      BY <1>2, <2>0, <2>1, <3>1 DEF IsQuoted, Cleared
    <3>4. QED
      BY <3>2, <3>3 DEF b
  <2>2. CASE "id" \notin ch
    <3>1. b = byte
      BY <1>2, <2>0, <2>2 DEF QuotedByte
    <3> HIDE DEF b
    <3>2. IsQuoted(b, k, byte, len, ch)
      BY <1>2, <2>0, <2>2, <3>1 DEF IsQuoted, Cleared
    <3>3. QED
      BY <3>1, <3>2 DEF b
  <2>3. QED
    BY <2>1, <2>2
<1>3. CASE k \in {11, 12}
  <2>0. /\ k \notin {3, 4} /\ k \notin {5, 6} /\ k \notin {27, 28} /\ k # 9 /\ k # 3 /\ k # 4
        /\ ~(k = len /\ "data" \in ch)
    BY <1>3
  <2>1. CASE "ip_checksum" \in ch
    <3>1. b = 0
      BY <1>3, <2>0, <2>1 DEF QuotedByte
    <3> HIDE DEF b
    <3>2. b \in Octet
      BY <3>1 DEF Octet
    <3>3. IsQuoted(b, k, byte, len, ch)
      BY <1>3, <2>0, <2>1, <3>1 DEF IsQuoted, Cleared
    <3>4. QED
      BY <3>2, <3>3 DEF b
  <2>2. CASE "ip_checksum" \notin ch
    <3>1. b = byte
      BY <1>3, <2>0, <2>2 DEF QuotedByte
    <3> HIDE DEF b
    <3>2. IsQuoted(b, k, byte, len, ch)
      BY <1>3, <2>0, <2>2, <3>1 DEF IsQuoted, Cleared
    <3>3. QED
      BY <3>1, <3>2 DEF b
  <2>3. QED
    BY <2>1, <2>2
<1>4. CASE k \in {27, 28}
  <2>0. /\ k \notin {3, 4} /\ k \notin {5, 6} /\ k \notin {11, 12} /\ k # 9 /\ k # 3 /\ k # 4
        /\ ~(k = len /\ "data" \in ch)
    BY <1>4
  <2>1. CASE "udp_checksum" \in ch
    <3>1. b = 0
      BY <1>4, <2>0, <2>1 DEF QuotedByte
    <3> HIDE DEF b
    <3>2. b \in Octet
      BY <3>1 DEF Octet
    <3>3. IsQuoted(b, k, byte, len, ch)
      BY <1>4, <2>0, <2>1, <3>1 DEF IsQuoted, Cleared
    <3>4. QED
      BY <3>2, <3>3 DEF b
  <2>2. CASE "udp_checksum" \notin ch
    <3>1. b = byte
      BY <1>4, <2>0, <2>2 DEF QuotedByte
    <3> HIDE DEF b
    <3>2. IsQuoted(b, k, byte, len, ch)
      BY <1>4, <2>0, <2>2, <3>1 DEF IsQuoted, Cleared
    <3>3. QED
      BY <3>1, <3>2 DEF b
  <2>3. QED
    BY <2>1, <2>2
<1>5. CASE k \notin {3, 4, 5, 6, 11, 12, 27, 28}
  <2>0. /\ k # 3 /\ k # 4 /\ k \notin {3, 4} /\ k \notin {5, 6}
        /\ k \notin {11, 12} /\ k \notin {27, 28}
    BY <1>5
  <2>1. CASE k = 9 /\ "ttl" \in ch
    <3>0. ~(k = len /\ "data" \in ch)
      BY <2>1
    <3>1. b = byte - 1
      BY <2>0, <2>1, <3>0 DEF QuotedByte
    <3> HIDE DEF b
    <3>2. b \in Octet
      BY <1>0, <2>1, <3>1 DEF Octet
    <3>3. IsQuoted(b, k, byte, len, ch)
      BY <2>0, <2>1, <3>0, <3>1 DEF IsQuoted, Cleared
    <3>4. QED
      BY <3>2, <3>3 DEF b
  <2>2. CASE k = len /\ "data" \in ch
    <3>0. k # 9
      BY <2>2
    <3>1. b = 0
      BY <2>0, <2>2, <3>0 DEF QuotedByte
    <3> HIDE DEF b
    <3>2. b \in Octet
      BY <3>1 DEF Octet
    <3>3. IsQuoted(b, k, byte, len, ch)
      BY <2>0, <2>2, <3>0, <3>1 DEF IsQuoted, Cleared
    <3>4. QED
      BY <3>2, <3>3 DEF b
  <2>3. CASE ~(k = 9 /\ "ttl" \in ch) /\ ~(k = len /\ "data" \in ch)
    <3>1. b = byte
      BY <2>0, <2>3 DEF QuotedByte
    <3> HIDE DEF b
    <3>2. IsQuoted(b, k, byte, len, ch)
      BY <2>0, <2>3, <3>1 DEF IsQuoted, Cleared
    <3>3. QED
      BY <3>1, <3>2 DEF b
  <2>4. QED
    BY <2>1, <2>2, <2>3
<1>6. QED
  BY <1>1, <1>2, <1>3, <1>4, <1>5

IsQuote(q, m, ch) ==
  /\ q \in Seq(Octet) /\ 28 <= Len(q) /\ Len(q) <= 328 /\ ("data" \in ch => Len(q) > 28)
  /\ \A k \in 1 .. Len(q) : IsQuoted(q[k], k, m[k], Len(q), ch)

LEMMA QuoteIs ==
  ASSUME NEW m \in Seq(Octet), Len(m) >= 328, m[9] > 0, NEW ch, NEW len \in Nat, 28 <= len, len <= 328,
         "data" \in ch => len > 28
  PROVE  IsQuote([k \in 1 .. len |-> QuotedByte(k, m[k], len, ch)], m, ch)
<1> DEFINE Byte(k) == QuotedByte(k, m[k], len, ch)
           q == [k \in 1 .. len |-> Byte(k)]
<1>1. ASSUME NEW k \in 1 .. len
      PROVE  Byte(k) \in Octet /\ IsQuoted(Byte(k), k, m[k], len, ch)
  <2>1. k \in 1 .. Len(m)
    BY ItsBytes
  <2>2. m[k] \in Octet
    BY <2>1, ElementOfSeq
  <2>3. k = 9 => m[k] > 0
    OBVIOUS
  <2>4. PICK byte \in Octet : byte = m[k] /\ (k = 9 => byte > 0)
    BY <2>2, <2>3, Zenon
  <2>5. /\ QuotedByte(k, byte, len, ch) \in Octet
        /\ IsQuoted(QuotedByte(k, byte, len, ch), k, byte, len, ch)
    BY <2>4, QuotedByteIs
  <2>6. QED
    BY <2>4, <2>5, Zenon
<1> HIDE DEF Byte
<1>2. q \in [1 .. len -> Octet] /\ \A k \in 1 .. len : q[k] = Byte(k)
  BY <1>1
<1> HIDE DEF q
<1>3. q \in Seq(Octet) /\ Len(q) = len
  BY <1>2, FunctionIsSeq
<1>4. ASSUME NEW k \in 1 .. len PROVE IsQuoted(q[k], k, m[k], len, ch)
  BY <1>1, <1>2
<1>5. IsQuote(q, m, ch)
  BY <1>3, <1>4 DEF IsQuote
<1>6. QED
  BY <1>5 DEF q, Byte

(* The fields of the quote.                                                *)
QuotedFields(q, m, ch) ==
  /\ q[1] = m[1]
  /\ q[3] = IF "length" \in ch THEN 1 ELSE m[3]
  /\ q[4] = IF "length" \in ch THEN 52 ELSE m[4]
  /\ q[5] = IF "id" \in ch THEN 0 ELSE m[5]
  /\ q[6] = IF "id" \in ch THEN 0 ELSE m[6]
  /\ q[9] = IF "ttl" \in ch THEN m[9] - 1 ELSE m[9]
  /\ q[11] = IF "ip_checksum" \in ch THEN 0 ELSE m[11]
  /\ q[12] = IF "ip_checksum" \in ch THEN 0 ELSE m[12]
  /\ q[27] = IF "udp_checksum" \in ch THEN 0 ELSE m[27]
  /\ q[28] = IF "udp_checksum" \in ch THEN 0 ELSE m[28]
  /\ \A k \in 1 .. 20 : k \notin {3, 4, 5, 6, 9, 11, 12} => q[k] = m[k]
  /\ \A k \in 29 .. Len(q) : q[k] = IF k = Len(q) /\ "data" \in ch THEN 0 ELSE m[k]

LEMMA QuotedFieldsAre ==
  ASSUME NEW q, NEW m, NEW ch, IsQuote(q, m, ch)
  PROVE  QuotedFields(q, m, ch)
<1>1. PICK len \in Nat : len = Len(q) /\ 28 <= len /\ ("data" \in ch => len > 28)
  BY ItsBytes DEF IsQuote
<1>2. ASSUME NEW k \in 1 .. 28 PROVE IsQuoted(q[k], k, m[k], len, ch) /\ ~(k = len /\ "data" \in ch)
  <2>1. k \in 1 .. len /\ ~(k = len /\ "data" \in ch)
    BY <1>1
  <2>2. QED
    BY <1>1, <2>1 DEF IsQuote
<1>3. q[1] = m[1]
  <2>1. IsQuoted(q[1], 1, m[1], len, ch) /\ ~(1 = len /\ "data" \in ch)
    BY <1>2
  <2>2. QED
    BY <2>1 DEF IsQuoted, Cleared
<1>4. q[3] = IF "length" \in ch THEN 1 ELSE m[3]
  <2>1. IsQuoted(q[3], 3, m[3], len, ch) /\ ~(3 = len /\ "data" \in ch)
    BY <1>2
  <2>2. QED
    BY <2>1 DEF IsQuoted, Cleared
<1>5. q[4] = IF "length" \in ch THEN 52 ELSE m[4]
  <2>1. IsQuoted(q[4], 4, m[4], len, ch) /\ ~(4 = len /\ "data" \in ch)
    BY <1>2
  <2>2. QED
    BY <2>1 DEF IsQuoted, Cleared
<1>6. q[5] = IF "id" \in ch THEN 0 ELSE m[5]
  <2>1. IsQuoted(q[5], 5, m[5], len, ch) /\ ~(5 = len /\ "data" \in ch)
    BY <1>2
  <2>2. QED
    BY <2>1 DEF IsQuoted, Cleared
<1>7. q[6] = IF "id" \in ch THEN 0 ELSE m[6]
  <2>1. IsQuoted(q[6], 6, m[6], len, ch) /\ ~(6 = len /\ "data" \in ch)
    BY <1>2
  <2>2. QED
    BY <2>1 DEF IsQuoted, Cleared
<1>8. q[9] = IF "ttl" \in ch THEN m[9] - 1 ELSE m[9]
  <2>1. IsQuoted(q[9], 9, m[9], len, ch) /\ ~(9 = len /\ "data" \in ch)
    BY <1>2
  <2>2. QED
    BY <2>1 DEF IsQuoted, Cleared
<1>9. q[11] = IF "ip_checksum" \in ch THEN 0 ELSE m[11]
  <2>1. IsQuoted(q[11], 11, m[11], len, ch) /\ ~(11 = len /\ "data" \in ch)
    BY <1>2
  <2>2. QED
    BY <2>1 DEF IsQuoted, Cleared
<1>10. q[12] = IF "ip_checksum" \in ch THEN 0 ELSE m[12]
  <2>1. IsQuoted(q[12], 12, m[12], len, ch) /\ ~(12 = len /\ "data" \in ch)
    BY <1>2
  <2>2. QED
    BY <2>1 DEF IsQuoted, Cleared
<1>11. q[27] = IF "udp_checksum" \in ch THEN 0 ELSE m[27]
  <2>1. IsQuoted(q[27], 27, m[27], len, ch) /\ ~(27 = len /\ "data" \in ch)
    BY <1>2
  <2>2. QED
    BY <2>1 DEF IsQuoted, Cleared
<1>12. q[28] = IF "udp_checksum" \in ch THEN 0 ELSE m[28]
  <2>1. IsQuoted(q[28], 28, m[28], len, ch) /\ ~(28 = len /\ "data" \in ch)
    BY <1>2
  <2>2. QED
    BY <2>1 DEF IsQuoted, Cleared
<1>13. ASSUME NEW k \in 1 .. 20, k \notin {3, 4, 5, 6, 9, 11, 12} PROVE q[k] = m[k]
  <2>1. k \in 1 .. 28 /\ k \notin {27, 28}
    OBVIOUS
  <2>2. IsQuoted(q[k], k, m[k], len, ch) /\ ~(k = len /\ "data" \in ch)
    BY <1>2, <2>1
  <2>3. QED
    BY <1>13, <2>1, <2>2 DEF IsQuoted, Cleared
<1>14. ASSUME NEW k \in 29 .. len PROVE q[k] = IF k = len /\ "data" \in ch THEN 0 ELSE m[k]
  <2>1. k \in 1 .. len /\ k \notin {3, 4, 5, 6, 11, 12, 27, 28} /\ k # 9
    OBVIOUS
  <2>2. IsQuoted(q[k], k, m[k], len, ch)
    BY <1>1, <2>1 DEF IsQuote
  <2>3. QED
    BY <2>1, <2>2 DEF IsQuoted, Cleared
<1>15. QED
  <2>1. \A k \in 1 .. 20 : k \notin {3, 4, 5, 6, 9, 11, 12} => q[k] = m[k]
    BY <1>13
  <2>2. \A k \in 29 .. Len(q) : q[k] = IF k = Len(q) /\ "data" \in ch THEN 0 ELSE m[k]
    BY <1>1, <1>14
  <2>3. QED
    BY <1>3, <1>4, <1>5, <1>6, <1>7, <1>8, <1>9, <1>10, <1>11, <1>12, <2>1, <2>2, Zenon
       DEF QuotedFields

(* What the changes take off the sum of the header.                        *)
Taken(ch) ==   (IF "length" \in ch THEN 20 ELSE 0)
             + (IF "id" \in ch THEN 4162 ELSE 0)
             + (IF "ttl" \in ch THEN 256 ELSE 0)

LEMMA TakenIs ==
  ASSUME NEW ch
  PROVE  /\ Taken(ch) \in Nat /\ Taken(ch) < 6000
         /\ Taken(ch) = 0 <=> ch \cap {"length", "id", "ttl"} = {}
<1>1. Taken(ch) \in Nat /\ Taken(ch) < 6000
  BY DEF Taken
<1>2. Taken(ch) = 0 <=> ("length" \notin ch /\ "id" \notin ch /\ "ttl" \notin ch)
  BY DEF Taken
<1>3. ch \cap {"length", "id", "ttl"} = {} <=>
        ("length" \notin ch /\ "id" \notin ch /\ "ttl" \notin ch)
  OBVIOUS
<1>4. QED
  BY <1>1, <1>2, <1>3

LEMMA SumOfQuote ==
  ASSUME NEW s, NEW ttl \in Nat, ttl > 0, NEW m, IsDatagram(m, s, ttl),
         NEW ch, NEW q, IsQuote(q, m, ch), "ip_checksum" \notin ch
  PROVE  TwentyBytes(q) \in Nat /\ TwentyBytes(m) = TwentyBytes(q) + Taken(ch)
<1>1. /\ m \in Seq(Octet) /\ Len(m) >= 20
      /\ m[3] = 1 /\ m[4] = 72 /\ m[5] = 16 /\ m[6] = 66 /\ m[9] = ttl
  BY DEF IsDatagram, Header
<1>2. q \in Seq(Octet) /\ Len(q) >= 20
  BY DEF IsQuote
<1>3. QuotedFields(q, m, ch)
  BY QuotedFieldsAre
<1>4. /\ q[3] = 1 /\ q[4] = (IF "length" \in ch THEN 52 ELSE 72)
      /\ q[5] = (IF "id" \in ch THEN 0 ELSE 16) /\ q[6] = (IF "id" \in ch THEN 0 ELSE 66)
      /\ q[9] = (IF "ttl" \in ch THEN ttl - 1 ELSE ttl)
      /\ q[11] = m[11] /\ q[12] = m[12]
  BY <1>1, <1>3 DEF QuotedFields
<1>5. \A k \in 1 .. 20 : k \notin {3, 4, 5, 6, 9, 11, 12} => q[k] = m[k]
  BY <1>3 DEF QuotedFields
<1>6. \A k \in 1 .. 20 : k \notin Fields => q[k] = m[k]
  <2>1. \A k \in 1 .. 20 : k \notin Fields => k \notin {3, 4, 5, 6, 9, 11, 12}
    BY DEF Fields
  <2>2. QED
    BY <1>5, <2>1
<1>7. q[19] = m[19] /\ q[20] = m[20]
  BY <1>5
<1>8. PICK high \in Nat, low \in Nat :
        SumByFields(m, high, low) /\ SumByFields(q, high, low)
  BY <1>1, <1>2, <1>6, SameOthers
<1>9. m[11] \in Nat /\ m[12] \in Nat /\ m[19] \in Nat /\ m[20] \in Nat
  <2>1. \A k \in 1 .. 20 : m[k] \in Nat
    BY <1>1, ItsBytes
  <2>2. QED
    BY <2>1
<1>10. PICK a \in Nat : a = m[11]
  BY <1>9, Zenon
<1>11. PICK b \in Nat : b = m[12]
  BY <1>9, Zenon
<1>12. PICK d \in Nat : d = m[19]
  BY <1>9, Zenon
<1>13. PICK e \in Nat : e = m[20]
  BY <1>9, Zenon
<1>14. PICK v4 \in Nat : v4 = IF "length" \in ch THEN 52 ELSE 72
  OBVIOUS
<1>15. PICK v5 \in Nat : v5 = IF "id" \in ch THEN 0 ELSE 16
  OBVIOUS
<1>16. PICK v6 \in Nat : v6 = IF "id" \in ch THEN 0 ELSE 66
  OBVIOUS
<1>17. PICK v9 \in Nat : v9 = IF "ttl" \in ch THEN ttl - 1 ELSE ttl
  OBVIOUS
<1>18. TwentyBytes(m) = (high + 1 + 16 + ttl + a + d) * 256 + (low + 72 + 66 + b + e)
  BY <1>1, <1>8, <1>10, <1>11, <1>12, <1>13 DEF SumByFields
<1>19. TwentyBytes(q) = (high + 1 + v5 + v9 + a + d) * 256 + (low + v4 + v6 + b + e)
  BY <1>4, <1>7, <1>8, <1>10, <1>11, <1>12, <1>13, <1>14, <1>15, <1>16, <1>17
     DEF SumByFields
<1>20. Taken(ch) = (72 - v4) + ((16 - v5) * 256 + (66 - v6)) + (ttl - v9) * 256
  BY <1>14, <1>15, <1>16, <1>17 DEF Taken
<1>21. TwentyBytes(q) \in Nat
  BY <1>19
<1>22. TwentyBytes(m) = TwentyBytes(q) + Taken(ch)
  BY <1>18, <1>19, <1>20
<1>23. QED
  BY <1>21, <1>22

LEMMA QuotedHeaderVerifies ==
  ASSUME NEW s, NEW ttl \in Nat, ttl > 0, NEW m, IsDatagram(m, s, ttl),
         Echo!calculate_checksum(SubSeq(m, 1, 20)) = 0,
         NEW ch, NEW q, IsQuote(q, m, ch), "ip_checksum" \notin ch
  PROVE  Echo!calculate_checksum(SubSeq(q, 1, 20)) = 0 <=> ch \cap {"length", "id", "ttl"} = {}
<1>1. m \in Seq(Octet) /\ Len(m) >= 20 /\ m[1] = 69
  BY DEF IsDatagram, Header
<1>2. q \in Seq(Octet) /\ Len(q) >= 20
  BY DEF IsQuote
<1>3. q[1] = 69
  BY <1>1, QuotedFieldsAre DEF QuotedFields
<1>4. Multiple(TwentyBytes(m))
  <2>1. IsSum(m, Echo!calculate_checksum(SubSeq(m, 1, 20)))
    BY <1>1, HeaderSum
  <2>2. QED
    BY <2>1 DEF IsSum
<1>5. Echo!calculate_checksum(SubSeq(q, 1, 20)) = 0 <=> Multiple(TwentyBytes(q))
  <2>1. IsSum(q, Echo!calculate_checksum(SubSeq(q, 1, 20)))
    BY <1>2, <1>3, HeaderSum
  <2>2. QED
    BY <2>1 DEF IsSum
<1>6. PICK t \in Nat, d \in Nat : t = TwentyBytes(q) /\ d = Taken(ch)
  BY SumOfQuote, TakenIs
<1>7. TwentyBytes(m) = t + d /\ d < 6000 /\ (d = 0 <=> ch \cap {"length", "id", "ttl"} = {})
  BY <1>6, SumOfQuote, TakenIs
<1>8. PICK p \in Int : t + d = Modulo * p
  BY <1>4, <1>7 DEF Multiple
<1>9. ASSUME NEW r \in Int, t = Modulo * r PROVE d = 0
  <2>1. PICK g \in Int : g = p - r
    OBVIOUS
  <2>2. Modulo * g = Modulo * p - Modulo * r
    BY <2>1, ModuloFacts
  <2>3. d = Modulo * g
    BY <1>8, <1>9, <2>2
  <2>4. 0 <= d /\ d < Modulo
    BY <1>7, ModuloFacts
  <2>5. g = 0
    BY <2>3, <2>4, ModuloFacts
  <2>6. QED
    BY <2>3, <2>5, ModuloFacts
<1>10. ASSUME d = 0 PROVE Multiple(t)
  <2>1. t = Modulo * p
    BY <1>8, <1>10
  <2>2. QED
    BY <2>1 DEF Multiple
<1>11. Multiple(t) <=> d = 0
  BY <1>9, <1>10 DEF Multiple
<1>12. QED
  BY <1>5, <1>6, <1>7, <1>11

(* What the tests make of a quote.                                         *)
QuoteVerdicts(q, m, s, ttl, ch) ==
  /\ 4 * (q[1] % 16) = 20
  /\ Echo!read_u16(q, 3) = 328 <=> "length" \notin ch
  /\ Echo!read_u16(q, 5) = Echo!ip_id <=> "id" \notin ch
  /\ Echo!read_u16(q, 27) = Echo!udp_check(s) <=> "udp_checksum" \notin ch
  /\ (\A k \in 29 .. Len(q) : q[k] = 67) <=> "data" \notin ch
  /\ Echo!ip_ttl - q[9] = (64 - ttl) + IF "ttl" \in ch THEN 1 ELSE 0
  /\ Echo!read_u16(q, 11) = 0 <=> ("ip_checksum" \in ch \/ Echo!read_u16(m, 11) = 0)
  /\ "ip_checksum" \notin ch =>
       (Echo!calculate_checksum(SubSeq(q, 1, 20)) = 0 <=> ch \cap {"length", "id", "ttl"} = {})

LEMMA QuoteIsJudged ==
  ASSUME NEW s, IsProbe(s), NEW ttl \in Nat, ttl > 0, NEW m, IsDatagram(m, s, ttl),
         Echo!calculate_checksum(SubSeq(m, 1, 20)) = 0,
         NEW ch, NEW q, IsQuote(q, m, ch)
  PROVE  QuoteVerdicts(q, m, s, ttl, ch)
<1>1. /\ m[1] = 69 /\ m[3] = 1 /\ m[4] = 72 /\ m[5] = 16 /\ m[6] = 66 /\ m[9] = ttl
  BY DEF IsDatagram, Header
<1>2. QuotedFields(q, m, ch)
  BY QuotedFieldsAre
<1>3. 4 * (q[1] % 16) = 20
  <2>1. q[1] = 69
    BY <1>1, <1>2 DEF QuotedFields
  <2>2. 69 % 16 = 5
    OBVIOUS
  <2>3. QED
    BY <2>1, <2>2
<1>4. Echo!read_u16(q, 3) = 328 <=> "length" \notin ch
  <2>1. q[3] = 1 /\ q[4] = IF "length" \in ch THEN 52 ELSE 72
    BY <1>1, <1>2 DEF QuotedFields
  <2>2. Echo!read_u16(q, 3) = q[3] * 256 + q[4]
    BY DEF Echo!read_u16
  <2>3. QED
    BY <2>1, <2>2
<1>5. Echo!read_u16(q, 5) = Echo!ip_id <=> "id" \notin ch
  <2>1. /\ q[5] = IF "id" \in ch THEN 0 ELSE 16
        /\ q[6] = IF "id" \in ch THEN 0 ELSE 66
    BY <1>1, <1>2 DEF QuotedFields
  <2>2. Echo!read_u16(q, 5) = q[5] * 256 + q[6]
    BY DEF Echo!read_u16
  <2>3. Echo!ip_id = 4162
    BY DEF Echo!ip_id
  <2>4. QED
    BY <2>1, <2>2, <2>3
<1>6. Echo!read_u16(q, 27) = Echo!udp_check(s) <=> "udp_checksum" \notin ch
  <2>1. /\ q[27] = IF "udp_checksum" \in ch THEN 0 ELSE m[27]
        /\ q[28] = IF "udp_checksum" \in ch THEN 0 ELSE m[28]
    BY <1>2 DEF QuotedFields
  <2>2. Echo!read_u16(q, 27) = q[27] * 256 + q[28]
    BY DEF Echo!read_u16
  <2>3. m[27] * 256 + m[28] = Echo!udp_check(s) /\ Echo!udp_check(s) # 0
    BY DataOfDatagram, CheckIs
  <2>4. CASE "udp_checksum" \in ch
    <3>1. Echo!read_u16(q, 27) = 0
      BY <2>1, <2>2, <2>4
    <3>2. QED
      BY <2>3, <2>4, <3>1
  <2>5. CASE "udp_checksum" \notin ch
    <3>1. Echo!read_u16(q, 27) = m[27] * 256 + m[28]
      BY <2>1, <2>2, <2>5
    <3>2. QED
      BY <2>3, <2>5, <3>1
  <2>6. QED
    BY <2>4, <2>5
<1>7. (\A k \in 29 .. Len(q) : q[k] = 67) <=> "data" \notin ch
  <2>1. PICK len \in Nat : len = Len(q) /\ len <= 328 /\ ("data" \in ch => len > 28)
    BY ItsBytes DEF IsQuote
  <2>2. ASSUME NEW k \in 29 .. len PROVE q[k] = IF k = len /\ "data" \in ch THEN 0 ELSE 67
    <3>1. q[k] = IF k = len /\ "data" \in ch THEN 0 ELSE m[k]
      BY <1>2, <2>1 DEF QuotedFields
    <3>2. k \in 29 .. 328
      BY <2>1
    <3>3. m[k] = 67
      BY <3>2, DataOfDatagram
    <3>4. QED
      BY <3>1, <3>3
  <2>3. CASE "data" \in ch
    <3>1. len \in 29 .. len
      BY <2>1, <2>3
    <3>2. q[len] = 0
      BY <2>2, <2>3, <3>1
    <3>3. QED
      BY <2>1, <2>3, <3>1, <3>2
  <2>4. CASE "data" \notin ch
    BY <2>1, <2>2, <2>4
  <2>5. QED
    BY <2>3, <2>4
<1>8. Echo!ip_ttl - q[9] = (64 - ttl) + IF "ttl" \in ch THEN 1 ELSE 0
  <2>1. q[9] = IF "ttl" \in ch THEN ttl - 1 ELSE ttl
    BY <1>1, <1>2 DEF QuotedFields
  <2>2. QED
    BY <2>1 DEF Echo!ip_ttl
<1>9. Echo!read_u16(q, 11) = 0 <=> ("ip_checksum" \in ch \/ Echo!read_u16(m, 11) = 0)
  <2>1. /\ q[11] = IF "ip_checksum" \in ch THEN 0 ELSE m[11]
        /\ q[12] = IF "ip_checksum" \in ch THEN 0 ELSE m[12]
    BY <1>2 DEF QuotedFields
  <2>2. /\ Echo!read_u16(q, 11) = q[11] * 256 + q[12]
        /\ Echo!read_u16(m, 11) = m[11] * 256 + m[12]
    BY DEF Echo!read_u16
  <2>3. QED
    BY <2>1, <2>2
<1>10. "ip_checksum" \notin ch =>
         (Echo!calculate_checksum(SubSeq(q, 1, 20)) = 0 <=> ch \cap {"length", "id", "ttl"} = {})
  BY QuotedHeaderVerifies
<1>11. QED
  BY <1>3, <1>4, <1>5, <1>6, <1>7, <1>8, <1>9, <1>10, Zenon DEF QuoteVerdicts

-----------------------------------------------------------------------------
(* The invariant: what is on its way is the datagram that was built, with  *)
(* as much less time to live as routers have passed, and what comes back   *)
(* is that datagram but for what the host changed.                         *)
EchoStages == {"construct", "kernel", "wire", "received", "done"}
OnItsWay   == {"wire", "received", "done"}

EchoTests(s) ==
  /\ tests.RIPL.is_good <=> "length" \notin changed
  /\ tests.RID.is_good  <=> "id" \notin changed
  /\ tests.RUCK.is_good <=> "udp_checksum" \notin changed
  /\ tests.RUD          <=> "data" \notin changed
  /\ tests.hops = hops_taken + IF "ttl" \in changed THEN 1 ELSE 0
  /\ tests.RIPCK = IF "ip_checksum" \in changed \/ Echo!read_u16(datagram, 11) = 0
                   THEN "Z"
                   ELSE IF changed \cap {"length", "id", "ttl"} = {}
                   THEN "G" ELSE "I"

EchoOf(s) ==
  /\ stage \in EchoStages
  /\ probe.spec = s
  /\ probe = [spec |-> s,
              udp_checksum |-> IF stage = "construct" THEN 0 ELSE Echo!udp_check(s)]
  /\ hops_taken \in 0 .. MaxHops
  /\ stage \notin OnItsWay => hops_taken = 0
  /\ stage # "construct" => IsDatagram(datagram, s, 64 - hops_taken)
  /\ stage \in OnItsWay => Echo!calculate_checksum(SubSeq(datagram, 1, 20)) = 0
  /\ stage \in {"received", "done"} => IsQuote(quote, datagram, changed)
  /\ stage = "done" => EchoTests(s)

EchoInv == \E s \in Specs : EchoOf(s)

LEMMA EchoConstants ==
  /\ \A s \in Specs : IsProbe(s)
  /\ \A len \in QuoteLengths : len \in Nat /\ 28 <= len /\ len <= 328
  /\ MaxHops \in Nat /\ MaxHops < 64
<1>0. /\ \A s \in Specs : /\ s.source_port \in Port /\ s.dest_port \in Port
                         /\ s.saddr \in Address /\ s.daddr \in Address
      /\ QuoteLengths \subseteq 28 .. Echo!total_len
      /\ MaxHops \in 0 .. Echo!ip_ttl - 1
  BY EchoAssumption, Zenon
<1>1. \A s \in Specs : IsProbe(s)
  <2>1. Port = Word
    <3>1. UINT16 - 1 = Modulo
      BY ModuloFacts DEF UINT16
    <3>2. QED
      BY <3>1, Zenon DEF Port, Word
  <2>2. QED
    BY <1>0, <2>1, Zenon DEF IsProbe
<1>2. \A len \in QuoteLengths : len \in Nat /\ 28 <= len /\ len <= 328
  <2>1. QuoteLengths \subseteq 28 .. Echo!total_len
    BY <1>0, Zenon
  <2>2. QED
    BY <2>1, UdpLength
<1>3. MaxHops \in Nat /\ MaxHops < 64
  <2>1. MaxHops \in 0 .. Echo!ip_ttl - 1
    BY <1>0, Zenon
  <2>2. QED
    BY <2>1 DEF Echo!ip_ttl
<1>4. QED
  BY <1>1, <1>2, <1>3

LEMMA EchoInit == Echo!Init => EchoInv
<1> SUFFICES ASSUME Echo!Init PROVE EchoInv
  OBVIOUS
<1>1. PICK s \in Specs : probe = [spec |-> s, udp_checksum |-> 0]
  BY DEF Echo!Init
<1>2. stage = "construct" /\ hops_taken = 0
  BY DEF Echo!Init
<1>3. EchoOf(s)
  BY <1>1, <1>2, EchoConstants DEF EchoOf, EchoStages, OnItsWay
<1>4. QED
  BY <1>3 DEF EchoInv

LEMMA ProbeIsConstructed ==
  ASSUME NEW s \in Specs, EchoOf(s), Echo!ConstructUDPPacket
  PROVE  EchoOf(s)'
<1>1. /\ stage = "construct" /\ stage' = "kernel" /\ hops_taken' = hops_taken
      /\ datagram' = Echo!ip_header(s) \o Echo!udp_segment(s, Echo!udp_check(s))
      /\ probe' = [probe EXCEPT !.udp_checksum = Echo!udp_check(s)]
  BY DEF Echo!ConstructUDPPacket, Echo!kept_checksum, EchoOf
<1>2. /\ hops_taken = 0 /\ hops_taken \in 0 .. MaxHops
      /\ probe = [spec |-> s, udp_checksum |-> 0]
  BY <1>1 DEF EchoOf, OnItsWay
<1>3. IsDatagram(datagram', s, 64)
  BY <1>1, EchoConstants, ConstructedIs, Zenon
<1>4. probe' = [spec |-> s, udp_checksum |-> Echo!udp_check(s)] /\ probe'.spec = s
  BY <1>1, <1>2
<1>5. IsDatagram(datagram', s, 64 - hops_taken')
  BY <1>1, <1>2, <1>3
<1>6. QED
  BY <1>1, <1>2, <1>4, <1>5 DEF EchoOf, EchoStages, OnItsWay

LEMMA KernelSeals ==
  ASSUME NEW s \in Specs, EchoOf(s), Echo!KernelSends
  PROVE  EchoOf(s)'
<1>1. /\ stage = "kernel" /\ stage' = "wire" /\ UNCHANGED <<hops_taken, probe>>
      /\ datagram' = Echo!Sealed(datagram)
  BY DEF Echo!KernelSends
<1>2. /\ IsDatagram(datagram, s, 64 - hops_taken) /\ hops_taken \in 0 .. MaxHops
      /\ probe = [spec |-> s, udp_checksum |-> Echo!udp_check(s)] /\ probe.spec = s
  BY <1>1 DEF EchoOf
<1>3. /\ IsDatagram(datagram', s, 64 - hops_taken)
      /\ Echo!calculate_checksum(SubSeq(datagram', 1, 20)) = 0
  BY <1>1, <1>2, EchoConstants, SealedIs, Zenon
<1>4. QED
  BY <1>1, <1>2, <1>3 DEF EchoOf, EchoStages, OnItsWay

LEMMA RouterSeals ==
  ASSUME NEW s \in Specs, EchoOf(s), Echo!Hop
  PROVE  EchoOf(s)'
<1>1. /\ stage = "wire" /\ stage' = stage /\ probe' = probe
      /\ hops_taken < MaxHops /\ hops_taken' = hops_taken + 1
      /\ datagram' = Echo!Sealed(Echo!Write(datagram, 9, <<datagram[9] - 1>>))
  BY DEF Echo!Hop
<1>2. /\ IsDatagram(datagram, s, 64 - hops_taken) /\ hops_taken \in 0 .. MaxHops
      /\ probe = [spec |-> s, udp_checksum |-> Echo!udp_check(s)] /\ probe.spec = s
  BY <1>1 DEF EchoOf
<1>3. hops_taken' \in 0 .. MaxHops
  BY <1>1, <1>2, EchoConstants
<1>4. PICK ttl \in 1 .. 64 : ttl = 64 - hops_taken /\ ttl - 1 = 64 - hops_taken'
  <2>1. 64 - hops_taken \in 1 .. 64 /\ (64 - hops_taken) - 1 = 64 - hops_taken'
    BY <1>1, <1>2, EchoConstants
  <2>2. QED
    BY <2>1
<1> DEFINE m == Echo!Write(datagram, 9, <<datagram[9] - 1>>)
<1>5. IsDatagram(m, s, ttl - 1)
  BY <1>2, <1>4, EchoConstants, CountedDownIs, Zenon
<1> HIDE DEF m
<1>6. /\ IsDatagram(Echo!Sealed(m), s, ttl - 1)
      /\ Echo!calculate_checksum(SubSeq(Echo!Sealed(m), 1, 20)) = 0
  BY <1>5, EchoConstants, SealedIs, Zenon
<1>7. /\ IsDatagram(datagram', s, 64 - hops_taken')
      /\ Echo!calculate_checksum(SubSeq(datagram', 1, 20)) = 0
  BY <1>1, <1>4, <1>6, Zenon DEF m
<1>8. QED
  BY <1>1, <1>2, <1>3, <1>7 DEF EchoOf, EchoStages, OnItsWay

LEMMA HostIsQuoting ==
  ASSUME NEW s \in Specs, EchoOf(s), Echo!HostQuotes
  PROVE  EchoOf(s)'
<1>1. /\ stage = "wire" /\ stage' = "received"
      /\ UNCHANGED <<probe, datagram, hops_taken>>
  BY DEF Echo!HostQuotes
<1>2. PICK len \in QuoteLengths :
        /\ "data" \in changed' => len > 28
        /\ quote' = [k \in 1 .. len |-> Echo!Changed(k, datagram[k], len)]
  BY DEF Echo!HostQuotes
<1>3. /\ IsDatagram(datagram, s, 64 - hops_taken) /\ hops_taken \in 0 .. MaxHops
      /\ probe = [spec |-> s, udp_checksum |-> Echo!udp_check(s)] /\ probe.spec = s
      /\ Echo!calculate_checksum(SubSeq(datagram, 1, 20)) = 0
  BY <1>1 DEF EchoOf, OnItsWay
<1>4. quote' = [k \in 1 .. len |-> QuotedByte(k, datagram[k], len, changed')]
  BY <1>2, Zenon DEF Echo!Changed, QuotedByte
<1>5. datagram \in Seq(Octet) /\ Len(datagram) >= 328 /\ datagram[9] > 0
  <2>1. datagram \in Seq(Octet) /\ Len(datagram) = 328 /\ datagram[9] = 64 - hops_taken
    BY <1>3, Zenon DEF IsDatagram, Header
  <2>2. 64 - hops_taken > 0
    BY <1>3, EchoConstants
  <2>3. QED
    BY <2>1, <2>2
<1>6. len \in Nat /\ 28 <= len /\ len <= 328
  BY EchoConstants
<1>7. IsQuote(quote', datagram, changed')
  BY <1>2, <1>4, <1>5, <1>6, QuoteIs, Zenon
<1>8. QED
  BY <1>1, <1>3, <1>7 DEF EchoOf, EchoStages, OnItsWay

LEMMA TestsAreRight ==
  ASSUME NEW s \in Specs, EchoOf(s), Echo!CalculateU1
  PROVE  EchoOf(s)'
<1>1. /\ stage = "received" /\ stage' = "done"
      /\ UNCHANGED <<probe, datagram, hops_taken, changed, quote, reply>>
  BY DEF Echo!CalculateU1
<1>2. tests' = [hops  |-> Echo!ip_ttl - quote[9],
                IPL   |-> reply.ip_tot_length,
                UN    |-> reply.unused,
                RIPL  |-> Echo!Returned(Echo!read_u16(quote, 3), 328),
                RID   |-> Echo!Returned(Echo!read_u16(quote, 5), Echo!ip_id),
                RIPCK |-> Echo!RIPCK_test,
                RUCK  |-> Echo!Returned(Echo!read_u16(quote, Echo!quoted_ihl + 7), probe.udp_checksum),
                RUD   |-> Echo!RUD_test]
  BY DEF Echo!CalculateU1
<1>3. /\ IsDatagram(datagram, s, 64 - hops_taken) /\ hops_taken \in 0 .. MaxHops
      /\ probe = [spec |-> s, udp_checksum |-> Echo!udp_check(s)] /\ probe.spec = s
      /\ Echo!calculate_checksum(SubSeq(datagram, 1, 20)) = 0
      /\ IsQuote(quote, datagram, changed)
  BY <1>1 DEF EchoOf, OnItsWay
<1>4. PICK ttl \in Nat : ttl = 64 - hops_taken /\ ttl > 0
  <2>1. 64 - hops_taken \in Nat /\ 64 - hops_taken > 0
    BY <1>3, EchoConstants
  <2>2. QED
    BY <2>1
<1>5. QuoteVerdicts(quote, datagram, s, ttl, changed)
  BY <1>3, <1>4, EchoConstants, QuoteIsJudged, Zenon
<1>6. Echo!quoted_ihl = 20
  BY <1>5 DEF Echo!quoted_ihl, QuoteVerdicts
<1>7. Echo!RUD_test <=> "data" \notin changed
  <2>1. Echo!RUD_test <=> \A k \in 29 .. Len(quote) : quote[k] = 67
    BY <1>6 DEF Echo!RUD_test
  <2>2. QED
    BY <1>5, <2>1 DEF QuoteVerdicts
<1>8. Echo!RIPCK_test = IF "ip_checksum" \in changed \/ Echo!read_u16(datagram, 11) = 0
                        THEN "Z"
                        ELSE IF changed \cap {"length", "id", "ttl"} = {} THEN "G" ELSE "I"
  <2>1. Echo!RIPCK_test = IF Echo!read_u16(quote, 11) = 0 THEN "Z"
                          ELSE IF Echo!calculate_checksum(SubSeq(quote, 1, 20)) = 0
                          THEN "G" ELSE "I"
    BY <1>6, Zenon DEF Echo!RIPCK_test
  <2>2. /\ Echo!read_u16(quote, 11) = 0 <=>
             ("ip_checksum" \in changed \/ Echo!read_u16(datagram, 11) = 0)
        /\ "ip_checksum" \notin changed =>
             (Echo!calculate_checksum(SubSeq(quote, 1, 20)) = 0 <=>
                changed \cap {"length", "id", "ttl"} = {})
    BY <1>5, Zenon DEF QuoteVerdicts
  <2>3. QED
    BY <2>1, <2>2
<1>9. Echo!ip_ttl - quote[9] = hops_taken + IF "ttl" \in changed THEN 1 ELSE 0
  <2>1. Echo!ip_ttl - quote[9] = (64 - ttl) + IF "ttl" \in changed THEN 1 ELSE 0
    BY <1>5, Zenon DEF QuoteVerdicts
  <2>2. 64 - ttl = hops_taken
    BY <1>3, <1>4, EchoConstants
  <2>3. QED
    BY <2>1, <2>2
<1>10. /\ tests'.RIPL.is_good = (Echo!read_u16(quote, 3) = 328)
       /\ tests'.RID.is_good = (Echo!read_u16(quote, 5) = Echo!ip_id)
       /\ tests'.RUCK.is_good = (Echo!read_u16(quote, Echo!quoted_ihl + 7) = probe.udp_checksum)
       /\ tests'.RUD = Echo!RUD_test /\ tests'.RIPCK = Echo!RIPCK_test
       /\ tests'.hops = Echo!ip_ttl - quote[9]
  BY <1>2 DEF Echo!Returned
<1>11. tests'.RUCK.is_good <=> "udp_checksum" \notin changed
  <2>1. Echo!quoted_ihl + 7 = 27 /\ probe.udp_checksum = Echo!udp_check(s)
    BY <1>3, <1>6
  <2>2. Echo!read_u16(quote, 27) = Echo!udp_check(s) <=> "udp_checksum" \notin changed
    BY <1>5, Zenon DEF QuoteVerdicts
  <2>3. QED
    BY <1>10, <2>1, <2>2, Zenon
<1>12. /\ tests'.RIPL.is_good <=> "length" \notin changed
       /\ tests'.RID.is_good <=> "id" \notin changed
  <2>1. /\ Echo!read_u16(quote, 3) = 328 <=> "length" \notin changed
        /\ Echo!read_u16(quote, 5) = Echo!ip_id <=> "id" \notin changed
    BY <1>5, Zenon DEF QuoteVerdicts
  <2>2. QED
    BY <1>10, <2>1, Zenon
<1>13. EchoTests(s)'
  BY <1>1, <1>7, <1>8, <1>9, <1>10, <1>11, <1>12, Zenon DEF EchoTests
<1>14. QED
  BY <1>1, <1>3, <1>13, Zenon DEF EchoOf, EchoStages, OnItsWay

LEMMA EchoKept == ASSUME EchoInv, [Echo!Next]_(Echo!vars) PROVE EchoInv'
<1>1. PICK s \in Specs : EchoOf(s)
  BY DEF EchoInv
<1>2. EchoOf(s)'
  <2>1. CASE UNCHANGED Echo!vars
    BY <1>1, <2>1 DEF Echo!vars, EchoOf, EchoTests
  <2>2. CASE Echo!Next
    BY <1>1, <2>2, ProbeIsConstructed, KernelSeals, RouterSeals, HostIsQuoting,
       TestsAreRight DEF Echo!Next
  <2>3. QED
    BY <2>1, <2>2
<1>3. QED
  BY <1>2 DEF EchoInv

LEMMA EchoVerdicts == EchoInv => Echo!BlamesTheHostOnly
<1> SUFFICES ASSUME NEW s \in Specs, EchoOf(s) PROVE Echo!BlamesTheHostOnly
  BY DEF EchoInv
<1>1. stage = "wire" => /\ Echo!Verifies(probe.spec)
                        /\ Echo!calculate_checksum(SubSeq(datagram, 1, 20)) = 0
  <2> SUFFICES ASSUME stage = "wire" PROVE Echo!Verifies(s)
    BY DEF EchoOf, OnItsWay
  <2>1. IsDatagram(datagram, s, 64 - hops_taken)
    BY DEF EchoOf
  <2>2. QED
    BY <2>1, EchoConstants, DatagramVerifies, Zenon DEF Echo!Verifies
<1>2. stage = "done" => EchoTests(s)
  BY DEF EchoOf
<1>3. QED
  BY <1>1, <1>2, Zenon DEF Echo!BlamesTheHostOnly, EchoTests

-----------------------------------------------------------------------------
(* The three in the behaviours of the run.                                 *)

PartInv == /\ part = "ids" => IdInv
           /\ part = "numbers" => NumberInv
           /\ part = "echo" => EchoInv

LEMMA PartInvariant == SpecPart => []PartInv
<1>1. InitPart => PartInv
  BY IdInit, NumberInit, EchoInit DEF InitPart, PartInv
<1>2. PartInv /\ [NextPart]_<<part, vars, seq_vars, echo_vars>> => PartInv'
  <2> SUFFICES ASSUME PartInv, [NextPart]_<<part, vars, seq_vars, echo_vars>>
               PROVE  PartInv'
    OBVIOUS
  <2>1. UNCHANGED part
    BY DEF NextPart
  <2>2. part = "ids" => [Ids!Calculate]_(Ids!vars)
    BY DEF NextPart, seq_vars, Ids!vars
  <2>3. part = "numbers" => [Numbers!Calculate]_(Numbers!vars)
    BY DEF NextPart, seq_vars, Numbers!vars
  <2>4. part = "echo" => [Echo!Next]_(Echo!vars)
    BY DEF NextPart, echo_vars, Echo!vars
  <2>5. QED
    BY <2>1, <2>2, <2>3, <2>4, IdKept, NumberKept, EchoKept DEF PartInv
<1>3. QED
  BY <1>1, <1>2, PTL DEF SpecPart

(* A counter that TI reports as counting went up at every step, by no more *)
(* than 20000, for identifiers of any number of samples                    *)
(* (src/src/fingerprint.c:265-360).                                        *)
THEOREM CountersGoUp == SpecPart => []CountingNeverWraps
<1>1. PartInv => CountingNeverWraps
  BY IdVerdicts DEF PartInv, CountingNeverWraps
<1>2. QED
  BY <1>1, PartInvariant, PTL

(* SS is decided as in unbounded arithmetic: the unsigned difference and   *)
(* the limit do not wrap (src/src/fingerprint.c).                          *)
THEOREM SharedSequenceNeverWraps == SpecPart => []SharedSequenceExact
<1>1. PartInv => SharedSequenceExact
  BY IdVerdicts DEF PartInv, SharedSequenceExact
<1>2. QED
  BY <1>1, PartInvariant, PTL

(* The GCD test is the greatest common divisor of all differences, for any *)
(* number of samples and numbers of any width (src/src/fingerprint.c).     *)
THEOREM GcdTestIsGcd == SpecPart => []GcdIsGreatest
<1>1. PartInv => GcdIsGreatest
  BY NumberVerdicts DEF PartInv, GcdIsGreatest
<1>2. QED
  BY <1>1, PartInvariant, PTL

(* No GCD is taken for the marker of an absent one: whoever gave enough    *)
(* samples gets SP, GCD and ISR (src/src/fingerprint.c).                   *)
THEOREM SampledHostsAreMeasured == SpecPart => []MetricsOfEverySampledHost
<1>1. PartInv => MetricsOfEverySampledHost
  BY NumberVerdicts DEF PartInv, MetricsOfEverySampledHost
<1>2. QED
  BY <1>1, PartInvariant, PTL

(* What is sent verifies at the host, and the tests of U1 blame the host   *)
(* for exactly what the host changed: for every probe, any number of       *)
(* routers before the time to live runs out, and a quote of any length     *)
(* (construct_UDP_packet in src/src/packet.c, prepare_u1_probe in          *)
(* src/src/scan.c, calculate_u1_fingerprint in src/src/fingerprint.c).     *)
THEOREM U1BlamesTheHostOnly == SpecPart => []BlamesTheHostOnly
<1>1. PartInv => BlamesTheHostOnly
  BY EchoVerdicts DEF PartInv, BlamesTheHostOnly
<1>2. QED
  BY <1>1, PartInvariant, PTL
=============================================================================
