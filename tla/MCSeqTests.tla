----------------------------- MODULE MCSeqTests -----------------------------
(***************************************************************************)
(* Model-checking harness for SeqTests: the results of the six sequence    *)
(* probes and of the two echo requests are drawn, then the tests are       *)
(* calculated in the order of calculate_os_fingerprint.                    *)
(***************************************************************************)
EXTENDS SeqTests

CONSTANTS
  IdScans,      \* results of the sequence probes and of the echo requests,
  NumberScans,  \* and of the sequence probes alone, to calculate the tests of
  NONE          \* no result yet

VARIABLES probes, ie, seq

vars == <<probes, ie, seq>>

Calculate ==
  /\ seq = NONE
  /\ LET ti == calculate_ip_id_fingerprints("TI", probes)
         ii == calculate_ip_id_fingerprints("II", ie)
     IN  seq' = [gcd |-> calculate_gcd_test(probes),
                 metrics_present |-> metrics_present(probes),
                 ts |-> calculate_timestamp_fingerprint(probes),
                 ti |-> ti, ii |-> ii,
                 ss |-> calculate_shared_sequence(probes, ie, ti, ii)]
  /\ UNCHANGED <<probes, ie>>

-----------------------------------------------------------------------------
(* Results to draw from.                                                   *)

Lost == [received |-> FALSE, syn_ack |-> FALSE, seq |-> 0, ip_id |-> 0,
         tsval |-> NO_TIMESTAMP, sent_at |-> 0]

Reply(n, s, id) == [Lost EXCEPT !.received = TRUE, !.syn_ack = TRUE,
                                !.seq = s, !.ip_id = id, !.sent_at = n]

(* A reset among the SYN/ACKs: it has an identifier, but is no sample.     *)
Reset(n) == [Reply(n, 0, 7) EXCEPT !.syn_ack = FALSE]

(* Identifiers: a start and the steps around every threshold, both ways.   *)
Starts   == {0, 1, 40000, 65535}
IdSteps  == {0, 1, 2, 9, 10, 11, 256, 1000, 1001, 1002, 5120, 5376, 20000,
             20001, 25600, 45000, 65534}
Plus(a, b) == (a + b) % ID_VALUES

IdResults ==
  {<<Reply(1, 0, a), Lost, Reset(3), Reply(4, 0, Plus(a, d)), Lost,
     Reply(6, 0, Plus(Plus(a, d), e))>> :
     a \in Starts, d \in IdSteps, e \in IdSteps} \cup
  {<<Reply(1, 0, a), Reply(2, 0, Plus(a, d)), Reply(3, 0, Plus(a, 2 * d)),
     Reply(4, 0, Plus(a, 3 * d)), Reply(5, 0, Plus(a, 4 * d)),
     Reply(6, 0, Plus(a, 5 * d))>> : a \in Starts, d \in IdSteps} \cup
  {<<Lost, Lost, Lost, Lost, Reply(5, 0, a), Reply(6, 0, Plus(a, d))>> :
     a \in Starts, d \in IdSteps}

(* The first echo identifier: around what SS compares it with.             *)
IdEchoes(p) ==
  LET s     == find_seq_samples(p)
      step  == (s[Len(s)].ip_id - s[1].ip_id) \div (Len(s) - 1)
      bound == s[Len(s)].ip_id + 3 * step
  IN  {<<Reply(7, 0, a % ID_VALUES), Reply(8, 0, Plus(a, d))>> :
         a \in {0, 65535, bound - 1, bound}, d \in {0, 1, 256, 1001, 40000}}
        \cup {<<Lost, Reply(8, 0, 1)>>, <<Reply(7, 0, 1), Lost>>}

(* Initial sequence numbers: every four of them, send times that increase  *)
(* or once stand still, timestamps present, zero or missing.               *)
Times == {<<1, 2, 3, 4>>, <<1, 2, 2, 3>>}
Stamps == {<<1, 1, 1, 1>>, <<1, 0, 1, 1>>, <<1, NO_TIMESTAMP, 0, 1>>}

SeqNumberResults ==
  {<<Lost>> \o [k \in 1 .. 4 |-> [Reply(t[k], s[k], 0) EXCEPT !.tsval = v[k]]]
            \o <<Lost>> :
     s \in [1 .. 4 -> 0 .. UINT32 - 1], t \in Times, v \in Stamps}
  \cup
  {[k \in 1 .. 6 |-> IF k \in K THEN Reply(k, (3 * k) % UINT32, 0) ELSE Reset(k)] :
     K \in SUBSET (1 .. 6)}

NoEchoes == <<Lost, Lost>>

MCIdScans     == UNION {{<<p, e>> : e \in IdEchoes(p)} : p \in IdResults}
MCNumberScans == SeqNumberResults

InitIds     == (\E r \in IdScans : probes = r[1] /\ ie = r[2]) /\ seq = NONE
InitNumbers == probes \in NumberScans /\ ie = NoEchoes /\ seq = NONE

-----------------------------------------------------------------------------
Samples == find_seq_samples(probes)

(* The GCD test is the greatest common divisor of the differences (0 only  *)
(* for a constant counter), although its loop stops early and differences  *)
(* are taken the shorter way around.                                       *)
GcdIsGreatest ==
  seq # NONE /\ seq.gcd # UNAVAILABLE_SIG(UINT32) =>
    LET D == {diffs(Samples)[k] : k \in 1 .. Len(Samples) - 1}
    IN  /\ seq.gcd = 0 <=> D = {0}
        /\ seq.gcd # 0 => /\ \A d \in D : d % seq.gcd = 0
                          /\ \A c \in seq.gcd + 1 .. UINT32 :
                               \E d \in D : d % c # 0

(* UNAVAILABLE_SIG is one of the values of a uint32_t: no GCD of sequence  *)
(* numbers may be taken for it, so SP, GCD and ISR are reported for every  *)
(* host that gave four samples sent one after the other.                   *)
MetricsOfEverySampledHost ==
  seq # NONE =>
    (seq.metrics_present <=> /\ Len(Samples) >= 4
                             /\ \A j, k \in DOMAIN Samples :
                                  j < k => Samples[j].sent_at < Samples[k].sent_at)

(* A counter that TI reports as counting went up at every step: one that   *)
(* wrapped is RD, because steps are first taken in 32 bits.                *)
CountingNeverWraps ==
  seq # NONE /\ seq.ti \in Counting =>
    \A j, k \in DOMAIN Samples :
      j < k => /\ Samples[j].ip_id <= Samples[k].ip_id
               /\ Samples[k].ip_id - Samples[j].ip_id <= 20000 * (k - j)

(* SS is what it would be in unbounded arithmetic: neither the difference  *)
(* of the first and the last identifier nor the limit ever wraps.          *)
SharedSequenceExact ==
  seq # NONE /\ seq.ss # "UNAVAILABLE" =>
    LET first == Samples[1].ip_id
        last  == Samples[Len(Samples)].ip_id
    IN  seq.ss = "SAME" <=>
          ie[1].ip_id < last + 3 * ((last - first) \div (Len(Samples) - 1))
=============================================================================
