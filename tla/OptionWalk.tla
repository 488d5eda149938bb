----------------------------- MODULE OptionWalk -----------------------------
(***************************************************************************)
(* The option bytes of one TCP reply are walked twice: parse_tcp_response  *)
(* (src/src/packet.c) checks boundaries, keeps the first timestamp, stops  *)
(* at end-of-list and lets unknown kinds pass; generate_ops_string         *)
(* (src/src/fingerprint.c) writes one item per option, walks on behind     *)
(* end-of-list and refuses unknown kinds.  A reply the first accepts and   *)
(* the second refuses makes the whole fingerprint invalid.  Each step is   *)
(* one turn of a loop.  Items written are known by the position of their   *)
(* option, hexadecimal values by how many digits they may have.            *)
(***************************************************************************)
EXTENDS Integers, Sequences

CONSTANTS Buffers       \* option fields that replies carry

TCPOPT_EOL            == 0
TCPOPT_NOP            == 1
TCPOPT_MAXSEG         == 2
TCPOPT_WINDOW         == 3
TCPOPT_SACK_PERMITTED == 4
TCPOPT_TIMESTAMP      == 8

OPTIONS_MAX_LENGTH    == 40      \* what a 4-bit data offset leaves
(* Mutant: room for a usual option list only.                              *)
OPS_STRING_MAX_LENGTH_short == 32
OPS_STRING_MAX_LENGTH == 128

ASSUME BuffersAssumption ==
  \A b \in Buffers : b \in Seq(0 .. 255) /\ Len(b) <= OPTIONS_MAX_LENGTH

VARIABLES
  options,     \* the option field
  pc,          \* "parse", "generate" or "done"
  i,           \* index of the loop that runs, from 0
  stop,        \* where the parser left its loop
  timestamp,   \* a singleton with the option tsval and tsecr come from, or {}
  seen,        \* where the options the parser passed begin (history)
  reach,       \* end of the bytes read so far (history)
  ops,         \* which options ops_string shows, in the order written
  ops_index,   \* characters written to ops_string
  verdict      \* outcome, "none" while running

vars == <<options, pc, i, stop, timestamp, seen, reach, ops, ops_index,
          verdict>>

Single == {TCPOPT_EOL, TCPOPT_NOP}          \* options without a length byte
Known  == {TCPOPT_MAXSEG, TCPOPT_WINDOW, TCPOPT_SACK_PERMITTED,
           TCPOPT_TIMESTAMP}

options_len == Len(options)

(* Bytes behind the field belong to the payload; 0 stands for them.        *)
byte(n) == IF n < options_len THEN options[n + 1] ELSE 0

fixed_length(k) == CASE k = TCPOPT_MAXSEG         -> 4
                     [] k = TCPOPT_WINDOW         -> 3
                     [] k = TCPOPT_SACK_PERMITTED -> 2
                     [] k = TCPOPT_TIMESTAMP      -> 10

(* The boundary test both loops make, each in its own copy.                *)
OutOfShape(n) ==
  /\ byte(n) \notin Single
  /\ \/ options_len - n < 2
     \/ byte(n + 1) < 2
     \/ byte(n + 1) > options_len - n
     \/ byte(n) \in Known /\ byte(n + 1) # fixed_length(byte(n))

(* Mutant: the parser does not compare lengths with the known ones.        *)
parse_malformed_any_length(n) ==
  /\ byte(n) \notin Single
  /\ options_len - n < 2 \/ byte(n + 1) < 2 \/ byte(n + 1) > options_len - n

parse_malformed(n)    == OutOfShape(n)

(* Mutant: the length may be one more than what is left.                   *)
generate_malformed_one_beyond(n) ==
  /\ byte(n) \notin Single
  /\ options_len - n < 2 \/ byte(n + 1) < 2 \/ byte(n + 1) > options_len - n + 1

generate_malformed(n) == OutOfShape(n)

parse_advance(n) == IF byte(n) \in Single THEN 1 ELSE byte(n + 1)

(* Mutant: the loop's own increment comes on top of the length.            *)
generate_advance_one_more(n) == IF byte(n) \in Single THEN 1 ELSE byte(n + 1) + 1

generate_advance(n) == IF byte(n) \in Single THEN 1 ELSE byte(n + 1)

(* What a refusing test has read: the kind, and the length if there is one.*)
Read(n)  == IF n > reach THEN n ELSE reach
Peek     == Read(IF byte(i) \in Single \/ options_len - i < 2 THEN i + 1 ELSE i + 2)

Init ==
  /\ options \in Buffers
  /\ pc = "parse" /\ i = 0 /\ stop = 0 /\ timestamp = {} /\ seen = <<>>
  /\ reach = 0 /\ ops = <<>> /\ ops_index = 0 /\ verdict = "none"

-----------------------------------------------------------------------------
(* parse_tcp_response, the loop over the options.                          *)

InParser == pc = "parse" /\ i < options_len /\ byte(i) # TCPOPT_EOL

(* At the end of the field or at end-of-list the whole field is copied     *)
(* into the response, and generate_ops_string starts on the copy.          *)
ParseEnd ==
  /\ pc = "parse" /\ ~InParser
  /\ stop' = i /\ reach' = IF i < options_len THEN Peek ELSE reach
  /\ pc' = "generate" /\ i' = 0
  /\ UNCHANGED <<options, timestamp, seen, ops, ops_index, verdict>>

(* The packet is ignored: parse_packet returns 0.                          *)
ParseMalformed ==
  /\ InParser /\ parse_malformed(i)
  /\ pc' = "done" /\ verdict' = "ignored" /\ reach' = Peek
  /\ UNCHANGED <<options, i, stop, timestamp, seen, ops, ops_index>>

(* Mutant: a later timestamp replaces the first.                           *)
timestamp_after_last(n) == IF byte(n) = TCPOPT_TIMESTAMP THEN {n} ELSE timestamp

timestamp_after(n) == IF byte(n) = TCPOPT_TIMESTAMP /\ timestamp = {}
                      THEN {n} ELSE timestamp

ParseOption ==
  /\ InParser /\ ~parse_malformed(i)
  /\ timestamp' = timestamp_after(i)
  /\ seen' = Append(seen, i)
  /\ i' = i + parse_advance(i) /\ reach' = Read(i')
  /\ UNCHANGED <<options, pc, stop, ops, ops_index, verdict>>

-----------------------------------------------------------------------------
(* generate_ops_string, called by calculate_ops_test.                      *)

InGenerator == pc = "generate" /\ i < options_len

(* Room asked for: a letter and, for some, hexadecimal digits or flags.    *)
needed_space(k) == CASE k = TCPOPT_MAXSEG                       -> 5
                     [] k \in {TCPOPT_WINDOW, TCPOPT_TIMESTAMP} -> 3
                     [] OTHER                                   -> 1

(* Characters written: numbers are printed without leading zeros.          *)
Written(k) == IF k \in {TCPOPT_MAXSEG, TCPOPT_WINDOW}
              THEN 2 .. needed_space(k) ELSE {needed_space(k)}

StringFull(k) == \/ ops_index >= OPS_STRING_MAX_LENGTH
                 \/ needed_space(k) >= OPS_STRING_MAX_LENGTH - ops_index

(* Why the option at n is refused.                                         *)
Refusal(n) == IF generate_malformed(n) THEN "malformed"
              ELSE IF byte(n) \notin Single \cup Known THEN "unknown"
              ELSE IF StringFull(byte(n)) THEN "full" ELSE "none"

(* NULL and an empty string.                                               *)
GenerateRefuses ==
  /\ InGenerator /\ Refusal(i) # "none"
  /\ pc' = "done" /\ verdict' = Refusal(i)
  /\ ops' = <<>> /\ ops_index' = 0 /\ reach' = Peek
  /\ UNCHANGED <<options, i, stop, timestamp, seen>>

GenerateOption ==
  /\ InGenerator /\ Refusal(i) = "none"
  /\ ops' = Append(ops, i)
  /\ \E w \in Written(byte(i)) : ops_index' = ops_index + w
  /\ i' = i + generate_advance(i) /\ reach' = Read(i')
  /\ UNCHANGED <<options, pc, stop, timestamp, seen, verdict>>

GenerateEnd ==
  /\ pc = "generate" /\ i >= options_len
  /\ pc' = "done" /\ verdict' = "string"
  /\ UNCHANGED <<options, i, stop, timestamp, seen, reach, ops, ops_index>>

Next == \/ ParseEnd \/ ParseMalformed \/ ParseOption
        \/ GenerateRefuses \/ GenerateOption \/ GenerateEnd

Spec == Init /\ [][Next]_vars

-----------------------------------------------------------------------------
TypeOK ==
  /\ options \in Seq(0 .. 255) /\ options_len <= OPTIONS_MAX_LENGTH
  /\ pc \in {"parse", "generate", "done"}
  /\ i \in Nat /\ stop \in Nat /\ reach \in Nat
  /\ ops_index \in 0 .. (5 * OPTIONS_MAX_LENGTH) \div 4
  /\ seen \in Seq(Nat) /\ ops \in Seq(Nat) /\ timestamp \in SUBSET Nat
  /\ verdict \in {"none", "ignored", "malformed", "unknown", "full", "string"}

(* Neither loop reads a byte behind the option field: what follows is the  *)
(* payload, or the end of the copy generate_ops_string works on.           *)
ReadsInsideField == reach <= options_len

(* The fixed-size string of generate_ops_string never fills: forty bytes   *)
(* of options make at most fifty characters, so no reply is refused for    *)
(* the length of its option list.                                          *)
StringNeverFills == verdict # "full"

(* The two walks agree as far as the parser walked: an accepted reply is   *)
(* refused later only for a kind the program does not know, or for bytes   *)
(* behind an end-of-list option.                                           *)
RefusedForUnknownOrTail ==
  /\ verdict = "malformed" => i > stop
  /\ verdict = "unknown"   => i > stop \/ \E n \in DOMAIN seen : seen[n] = i

(* The string begins with exactly the options the parser passed, in order, *)
(* and has others only behind an end-of-list option.                       *)
SameOptionsSeen ==
  verdict = "string"
    => /\ Len(seen) <= Len(ops) /\ SubSeq(ops, 1, Len(seen)) = seen
       /\ Len(seen) < Len(ops) => byte(stop) = TCPOPT_EOL

(* The TS test and the options string speak of the same timestamp: the     *)
(* first one in the list.                                                  *)
FirstTimestampShown ==
  verdict = "string"
    => \A t \in timestamp : \E n \in DOMAIN ops :
         /\ ops[n] = t
         /\ \A m \in 1 .. n - 1 : byte(ops[m]) # TCPOPT_TIMESTAMP

(* The parser and the fingerprint see one and the same option list,        *)
(* although each walks it with a loop of its own: what the first accepts   *)
(* the second shows, and refuses only for the two reasons above.           *)
WalksAgree == RefusedForUnknownOrTail /\ SameOptionsSeen /\ FirstTimestampShown
=============================================================================
