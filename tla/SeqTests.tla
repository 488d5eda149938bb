------------------------------ MODULE SeqTests ------------------------------
(***************************************************************************)
(* What fingerprint.c computes from numbers that count up: the initial     *)
(* sequence numbers of the six sequence probes (GCD, and whether ISR and   *)
(* SP exist), the IP identifiers of three groups of replies (TI, CI, II),  *)
(* the counter shared by TCP and ICMP (SS) and the kind of timestamp (TS). *)
(*                                                                         *)
(* A result is a record [received, syn_ack, seq, ip_id, tsval, sent_at];   *)
(* tsval is NO_TIMESTAMP when the option is absent, and syn_ack says that  *)
(* of SYN, ACK and RST exactly the first two are set.  Rates, logarithms   *)
(* and deviations are floating point and left out; whether they can be     *)
(* computed is kept.                                                       *)
(***************************************************************************)
EXTENDS Selection

CONSTANTS UINT32        \* number of values of a uint32_t

ASSUME UintAssumption == UINT32 \in Nat /\ UINT32 > 1

ID_VALUES       == 65536                \* number of values of a uint16_t
NO_TIMESTAMP    == -1

(* The largest number of a type with so many values; an operator, because  *)
(* TLC evaluates a constant once for all instances of a module.            *)
UNAVAILABLE_SIG(values) == values - 1

(* What the fields of a result can hold.                                   *)
Result == [received : BOOLEAN, syn_ack : BOOLEAN, seq : 0 .. UINT32 - 1,
           ip_id : 0 .. ID_VALUES - 1, tsval : {NO_TIMESTAMP} \cup Nat, sent_at : Nat]

-----------------------------------------------------------------------------
(* SEQ: samples, differences and their greatest common divisor.            *)

Sampled(probes) == {k \in DOMAIN probes : probes[k].received /\ probes[k].syn_ack}

find_seq_samples(probes) == Selected(probes, Sampled(probes))

(* Mutant: differences are taken forward only.                             *)
seq_diff_calc_forward(current, previous) == (current - previous) % UINT32

(* The shorter way around.                                                 *)
seq_diff_calc(current, previous) ==
  LET forward  == (current - previous) % UINT32
      backward == (previous - current) % UINT32
  IN  IF forward < backward THEN forward ELSE backward

diffs(samples) ==
  [k \in 1 .. Len(samples) - 1 |->
     seq_diff_calc(samples[k + 1].seq, samples[k].seq)]

(* Each probe must have been sent later than the one before.               *)
calculate_diffs_and_rates(samples) ==
  /\ Len(samples) >= 2
  /\ \A k \in 1 .. Len(samples) - 1 : samples[k].sent_at < samples[k + 1].sent_at

gcd[p \in Nat \X Nat] == IF p[2] = 0 THEN p[1] ELSE gcd[<<p[2], p[1] % p[2]>>]

(* Mutant: the loop starts from the first element's predecessor, 1.        *)
gcd_array_from_one(arr) ==
  LET result[k \in 0 .. Len(arr)] ==
        IF k = 0 THEN 1 ELSE gcd[<<result[k - 1], arr[k]>>]
  IN  result[Len(arr)]

(* The loop over the array; it stops at 1, which no further step changes.  *)
gcd_array(arr) ==
  LET result[k \in 0 .. Len(arr)] ==
        IF k = 0 THEN 0 ELSE IF result[k - 1] = 1 THEN 1
        ELSE gcd[<<result[k - 1], arr[k]>>]
  IN  IF arr = <<>> THEN UNAVAILABLE_SIG(UINT32) ELSE result[Len(arr)]

(* Enough samples, and all their differences and rates.                    *)
EnoughForSeq(probes) ==
  LET samples == find_seq_samples(probes)
  IN  Len(samples) >= 4 /\ calculate_diffs_and_rates(samples)

calculate_gcd_test(probes) ==
  IF EnoughForSeq(probes) THEN gcd_array(diffs(find_seq_samples(probes)))
  ELSE UNAVAILABLE_SIG(UINT32)

(* ISR and SP are numbers, not UNAVAILABLE_SIG.                            *)
calculate_isr_test(probes) == EnoughForSeq(probes)
calculate_sp_test(probes, gcd_value) ==
  EnoughForSeq(probes) /\ gcd_value # UNAVAILABLE_SIG(UINT32)

metrics_present(probes) ==
  LET g == calculate_gcd_test(probes)
  IN  calculate_isr_test(probes) /\ calculate_sp_test(probes, g) /\ g # UNAVAILABLE_SIG(UINT32)

(* TS: U, 0, a rate or nothing, in this order of precedence.               *)
calculate_timestamp_fingerprint(probes) ==
  LET samples == find_seq_samples(probes)
      present == {k \in DOMAIN samples : samples[k].tsval # NO_TIMESTAMP}
  IN  CASE samples = <<>>                                -> "UNAVAILABLE"
        [] samples # <<>> /\ present # DOMAIN samples    -> "UNSUPPORTED"
        [] samples # <<>> /\ present = DOMAIN samples
             /\ \E k \in present : samples[k].tsval = 0  -> "ZERO"
        [] OTHER -> IF calculate_diffs_and_rates(samples) THEN "RATE"
                    ELSE "UNAVAILABLE"

-----------------------------------------------------------------------------
(* TI, CI and II: how a sequence of IP identifiers counts.                 *)

minimum_samples(test) == IF test = "TI" THEN 3 ELSE 2

(* The replies a test looks at: TI wants SYN/ACKs, CI takes any TCP reply, *)
(* II any echo reply; the matcher has seen to protocol and type.           *)
IpIds(test, probes) ==
  LET used == Selected(probes, {k \in DOMAIN probes :
                 probes[k].received /\ (test = "TI" => probes[k].syn_ack)})
  IN  [k \in DOMAIN used |-> used[k].ip_id]

Steps(ids) == 1 .. Len(ids) - 1

(* A step as the code first sees it, in 32 bits: backwards is enormous.    *)
raw_diff(ids, k) == (ids[k + 1] - ids[k]) % UINT32
(* ... and reduced to the 16 bits of the field.                            *)
diff(ids, k)     == raw_diff(ids, k) % ID_VALUES

(* Mutant: the 16-bit difference decides.                                  *)
IsRandom_16_bit(ids) ==
  Len(ids) > 2 /\ \E k \in Steps(ids) : diff(ids, k) > 20000

IsRandom(ids) == Len(ids) > 2 /\ \E k \in Steps(ids) : raw_diff(ids, k) > 20000

IsRandomPositive(ids) ==
  \E k \in Steps(ids) : \/ diff(ids, k) % 256 # 0 /\ diff(ids, k) > 1000
                        \/ diff(ids, k) % 256 = 0 /\ diff(ids, k) >= 25600

IsBroken(ids) == \A k \in Steps(ids) : diff(ids, k) % 256 = 0 /\ diff(ids, k) <= 5120

IsIncremental(ids) == \/ \A k \in Steps(ids) : diff(ids, k) % 2 = 0
                      \/ \A k \in Steps(ids) : diff(ids, k) < 10

IpIdKind(ids) ==
  CASE \A k \in DOMAIN ids : ids[k] = 0 -> "ZERO"
    [] OTHER ->
       IF IsRandom(ids) THEN "RANDOM"
       ELSE IF \A k \in Steps(ids) : diff(ids, k) = 0 THEN "CONSTANT"
       ELSE IF IsRandomPositive(ids) THEN "RANDOM_POSITIVE"
       ELSE IF IsBroken(ids) THEN "BROKEN_INCREMENTAL"
       ELSE IF IsIncremental(ids) THEN "INCREMENTAL"
       ELSE "UNAVAILABLE"

calculate_ip_id_fingerprints(test, probes) ==
  LET ids == IpIds(test, probes)
  IN  IF Len(ids) < minimum_samples(test) THEN "UNAVAILABLE" ELSE IpIdKind(ids)

-----------------------------------------------------------------------------
(* SS: does ICMP count on where TCP stopped?                               *)

Counting == {"RANDOM_POSITIVE", "BROKEN_INCREMENTAL", "INCREMENTAL"}

(* Mutant: the kind of TI is not asked for.                                *)
ss_defined_any_ti(probes, ie, ti, ii) ==
  /\ ie[1].received /\ ie[2].received
  /\ ii \in Counting
  /\ Len(find_seq_samples(probes)) >= 3

ss_defined(probes, ie, ti, ii) ==
  /\ ie[1].received /\ ie[2].received
  /\ ii \in Counting /\ ti \in Counting
  /\ Len(find_seq_samples(probes)) >= 3

(* The average step and the limit, in unsigned 32-bit arithmetic.          *)
first_id(probes) == find_seq_samples(probes)[1].ip_id
last_id(probes)  == LET s == find_seq_samples(probes) IN s[Len(s)].ip_id

avg(probes) == ((last_id(probes) - first_id(probes)) % UINT32)
                 \div (Len(find_seq_samples(probes)) - 1)

limit(probes) == (last_id(probes) + 3 * avg(probes)) % UINT32

calculate_shared_sequence(probes, ie, ti, ii) ==
  IF ~ss_defined(probes, ie, ti, ii) THEN "UNAVAILABLE"
  ELSE IF ie[1].ip_id < limit(probes) THEN "SAME" ELSE "OTHER"
=============================================================================
