------------------------------- MODULE MCTests -------------------------------
(***************************************************************************)
(* The calculation of a fingerprint in one run: a behaviour is one process *)
(* that calculates fingerprints of whole scans, or one calculation of the  *)
(* SEQ tests alone, from identifiers around every threshold, or from all   *)
(* sequence numbers of a uint32_t with SMALL values, or the way of one U1  *)
(* probe and its quote.  The variables of the others stay as they are.     *)
(***************************************************************************)
EXTENDS MCFingerprint

CONSTANTS
  IdScans, NumberScans,     \* SeqTests
  SMALL, NONE,
  Specs, QuoteLengths, MaxHops  \* UdpEcho

VARIABLES
  part,
  seq_probes, ie, seq,                                          \* SeqTests
  stage, probe, datagram, hops_taken, changed, quote, reply, tests
                                                                \* UdpEcho

seq_vars  == <<seq_probes, ie, seq>>
echo_vars == <<stage, probe, datagram, hops_taken, changed, quote, reply, tests>>

Ids     == INSTANCE MCSeqTests WITH probes <- seq_probes
Numbers == INSTANCE MCSeqTests WITH probes <- seq_probes, UINT32 <- SMALL

(* What the parser hands out fits the fields it is parsed into; four       *)
(* identifiers do not overflow 32 bits, and with fewer than three values   *)
(* the marker of an absent GCD would be a difference.                      *)
ASSUME IdAssumption     == /\ UINT32 >= 4 * ID_VALUES
                           /\ \A r \in IdScans : r[1] \in Seq(Ids!Result)
ASSUME NumberAssumption == /\ SMALL \in Nat /\ SMALL >= 3
                           /\ NumberScans \subseteq Seq(Numbers!Result)

Echo == INSTANCE UdpEcho

(* Ports and addresses are what the fields of the headers hold; a host     *)
(* quotes both headers and no more than it got, and no router sends on     *)
(* what has no time to live left.                                          *)
Port    == 0 .. UINT16 - 1
Address == [1 .. 4 -> 0 .. 255]

ASSUME EchoAssumption ==
  /\ \A s \in Specs : /\ s.source_port \in Port /\ s.dest_port \in Port
                      /\ s.saddr \in Address /\ s.daddr \in Address
  /\ QuoteLengths \subseteq 28 .. Echo!total_len
  /\ MaxHops \in 0 .. Echo!ip_ttl - 1

SeqIdle         == seq_probes = NONE /\ ie = NONE /\ seq = NONE
EchoIdle        == /\ stage = NONE /\ probe = NONE /\ datagram = NONE /\ hops_taken = NONE
                   /\ changed = NONE /\ quote = NONE /\ reply = NONE /\ tests = NONE
FingerprintIdle == /\ probes = NONE /\ pc = "u1" /\ n = 0 /\ T_hops = UNAVAILABLE_SIG_16
                   /\ fp = EMPTY /\ valid = FALSE /\ calls = 1

InitPart ==
  \/ /\ part = "fingerprint" /\ Init
     /\ SeqIdle /\ EchoIdle
  \/ /\ \/ part = "ids" /\ Ids!InitIds
        \/ part = "numbers" /\ Numbers!InitNumbers
     /\ FingerprintIdle /\ EchoIdle
  \/ /\ part = "echo" /\ Echo!Init
     /\ FingerprintIdle /\ SeqIdle

NextPart ==
  \/ part = "fingerprint" /\ Next /\ UNCHANGED <<part, seq_vars, echo_vars>>
  \/ part = "ids" /\ Ids!Calculate /\ UNCHANGED <<part, vars, echo_vars>>
  \/ part = "numbers" /\ Numbers!Calculate /\ UNCHANGED <<part, vars, echo_vars>>
  \/ part = "echo" /\ Echo!Next /\ UNCHANGED <<part, vars, seq_vars>>

SpecPart == InitPart /\ [][NextPart]_<<part, vars, seq_vars, echo_vars>>

-----------------------------------------------------------------------------
(* What the run calculates the SEQ tests of.                               *)
IdData     == INSTANCE MCSeqTests
                WITH probes <- seq_probes, IdScans <- {}, NumberScans <- {}
NumberData == INSTANCE MCSeqTests
                WITH probes <- seq_probes, UINT32 <- SMALL, IdScans <- {}, NumberScans <- {}

EchoData   == INSTANCE MCUdpEcho WITH Specs <- {}, QuoteLengths <- {}, MaxHops <- 0

MCIdScans     == IdData!MCIdScans
MCNumberScans == NumberData!MCNumberScans
MCEchoSpecs   == EchoData!MCSpecs
MCEchoLengths == {28, 29, 60, 328}

-----------------------------------------------------------------------------
(* A counter that TI reports as counting went up at every step.            *)
CountingNeverWraps == part = "ids" => Ids!CountingNeverWraps

(* SS is what it would be in unbounded arithmetic.                         *)
SharedSequenceExact == part = "ids" => Ids!SharedSequenceExact

(* The GCD test is the greatest common divisor of the differences.         *)
GcdIsGreatest == part = "numbers" => Numbers!GcdIsGreatest

(* SP, GCD and ISR are reported for every host that gave four samples.     *)
MetricsOfEverySampledHost == part = "numbers" => Numbers!MetricsOfEverySampledHost

(* The tests of U1 blame the host for exactly what the host changed.       *)
BlamesTheHostOnly == part = "echo" => Echo!BlamesTheHostOnly
=============================================================================
