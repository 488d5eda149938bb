------------------------------ MODULE Formatter ------------------------------
(***************************************************************************)
(* format_os_fingerprint (src/src/fingerprint_formatter.c): the lines of a *)
(* fingerprint are appended one piece at a time to a buffer of fixed size. *)
(* Each step is one call of append_text, or the decision not to make it.   *)
(* A value is the symbol "v", or nothing when it is empty, and a number of *)
(* characters; what it says does not matter here.                          *)
(***************************************************************************)
EXTENDS GroupText, SequencesExt

CONSTANTS
  Capacities,      \* sizes of the buffer
  MaxOptions       \* characters of the longest options string

ASSUME CapacityAssumption == Capacities \subseteq Nat \ {0} /\ MaxOptions \in Nat

VARIABLES
  capacity,
  long,       \* the values of this fingerprint have all the digits they may have
  at,         \* piece that comes next
  first,      \* nothing has been written to the line yet
  used,       \* characters written
  stored,     \* length of the string the buffer holds
  line,       \* symbols of the line being written
  shown,      \* names of its fields, in order
  result      \* what the call returns, or RUNNING

vars == <<capacity, long, at, first, used, stored, line, shown, result>>

RUNNING == -2
MAX_FINGERPRINT_LENGTH == 1024     \* the buffer of main

-----------------------------------------------------------------------------
(* The pieces, in order.  optional: written if there is a value; close:    *)
(* ends the line if anything was written; whole: all a line has; head,     *)
(* middle and tail: a line written in several calls.                       *)

Optional(group, names) == [op |-> "optional", group |-> group, names |-> names]
Close(group)           == [op |-> "close", group |-> group, names |-> <<>>]
Part(op, group, names) == [op |-> op, group |-> group, names |-> names]

format_seq == <<Optional("SEQ", <<"SP", "GCD", "ISR">>), Optional("SEQ", <<"TI">>),
                Optional("SEQ", <<"CI">>), Optional("SEQ", <<"II">>),
                Optional("SEQ", <<"SS">>), Optional("SEQ", <<"TS">>), Close("SEQ")>>

format_ops == [k \in 1 .. 6 |-> Optional("OPS", <<<<"O1", "O2", "O3", "O4", "O5", "O6">>[k]>>)]
                \o <<Close("OPS")>>

format_win == [k \in 1 .. 6 |-> Optional("WIN", <<<<"W1", "W2", "W3", "W4", "W5", "W6">>[k]>>)]
                \o <<Close("WIN")>>

format_ecn == <<Part("whole", "ECN", <<"R", "DF", "T", "W", "O", "CC", "Q">>)>>

(* Mutant: W and O are written for T1 too.                                 *)
format_t_all_alike(group) ==
  <<Part("head", group, <<"R", "DF", "T">>), Part("middle", group, <<"W">>),
    Part("middle", group, <<"S", "A", "F">>), Part("middle", group, <<"O">>),
    Part("tail", group, <<"RD", "Q">>)>>

(* W and O are left out of T1: WIN and OPS have them.                      *)
format_t(group) ==
  LET only_t2_to_t7(name) == IF group = "T1" THEN <<>> ELSE <<Part("middle", group, <<name>>)>>
  IN  <<Part("head", group, <<"R", "DF", "T">>)>> \o only_t2_to_t7("W")
        \o <<Part("middle", group, <<"S", "A", "F">>)>> \o only_t2_to_t7("O")
        \o <<Part("tail", group, <<"RD", "Q">>)>>

format_u1 == <<Part("whole", "U1", <<"R", "DF", "T", "IPL", "UN", "RIPL", "RID",
                                     "RIPCK", "RUCK", "RUD">>)>>
format_ie == <<Part("whole", "IE", <<"R", "DFI", "T", "CD">>)>>

Pieces == format_seq \o format_ops \o format_win \o format_ecn
            \o format_t("T1") \o format_t("T2") \o format_t("T3") \o format_t("T4")
            \o format_t("T5") \o format_t("T6") \o format_t("T7")
            \o format_u1 \o format_ie

(* Characters of the name of a field or group.                             *)
Letters(name) ==
  CASE name \in {"R", "T", "W", "S", "A", "F", "O", "Q"}                   -> 1
    [] name \in {"SEQ", "OPS", "WIN", "ECN", "GCD", "ISR", "IPL", "RID",
                 "RUD", "DFI"}                                             -> 3
    [] name \in {"RIPL", "RUCK"}                                           -> 4
    [] name = "RIPCK"                                                      -> 5
    [] OTHER                                                               -> 2

(* Mutant: every number is printed with the digits of 32 bits.             *)
MaxWidth_values_as_32_bits(name) ==
  CASE name \in {"O", "O1", "O2", "O3", "O4", "O5", "O6"} -> MaxOptions
    [] OTHER -> 8

(* Characters of a value: hexadecimal digits of the field's type, letters. *)
(* T is a time to live plus a hop count, TG at most FF.                    *)
MaxWidth(name) ==
  CASE name \in {"O", "O1", "O2", "O3", "O4", "O5", "O6"}                  -> MaxOptions
    [] name \in {"SP", "GCD", "ISR", "TS", "RD", "UN"}                     -> 8
    [] name = "F"                                                          -> 7
    [] name \in {"TI", "CI", "II", "W", "W1", "W2", "W3", "W4", "W5", "W6",
                 "IPL", "RIPL", "RID", "RUCK"}                             -> 4
    [] name = "T"                                                          -> 3
    [] name \in {"TG", "S", "A", "Q", "CD"}                                -> 2
    [] OTHER                                                               -> 1

MinWidth(name) ==
  IF name \in {"O", "O1", "O2", "O3", "O4", "O5", "O6", "F", "Q"} THEN 0 ELSE 1

(* The points of MatchPoints, src/nmap-os-db: fields that have any.        *)
TcpFields == {"R", "DF", "T", "TG", "S", "A", "F", "RD", "Q"}
MatchPoints ==
  [SEQ |-> {"SP", "GCD", "ISR", "TI", "CI", "II", "SS", "TS"},
   OPS |-> {"O1", "O2", "O3", "O4", "O5", "O6"},
   WIN |-> {"W1", "W2", "W3", "W4", "W5", "W6"},
   ECN |-> {"R", "DF", "T", "TG", "W", "O", "CC", "Q"},
   T1  |-> TcpFields,
   T2  |-> TcpFields \cup {"W", "O"}, T3 |-> TcpFields \cup {"W", "O"},
   T4  |-> TcpFields \cup {"W", "O"}, T5 |-> TcpFields \cup {"W", "O"},
   T6  |-> TcpFields \cup {"W", "O"}, T7 |-> TcpFields \cup {"W", "O"},
   U1  |-> {"R", "DF", "T", "TG", "IPL", "UN", "RIPL", "RID", "RIPCK", "RUCK", "RUD"},
   IE  |-> {"R", "DFI", "T", "TG", "CD"}]

-----------------------------------------------------------------------------
(* append_text.                                                            *)

Running == result = RUNNING /\ at <= Len(Pieces)
Piece   == Pieces[at]

(* A piece has T or TG, and every name a value.                            *)
Names  == {[k \in DOMAIN Piece.names |-> IF Piece.names[k] = "T" THEN t ELSE Piece.names[k]] :
             t \in {"T", "TG"}}
Widths(names) == [k \in DOMAIN names |-> IF long THEN MaxWidth(names[k])
                                                  ELSE MinWidth(names[k])]

(* name=value, behind the start of the line or a "%".                      *)
Field(name, width) == <<name, "=">> \o IF width = 0 THEN <<>> ELSE <<"v">>

Fields(names) ==
  Tail(FlattenSeq([k \in DOMAIN names |-> <<"%">> \o Field(names[k], Widths(names)[k])]))

SumOf(numbers) ==
  LET upto[n \in 0 .. Len(numbers)] == IF n = 0 THEN 0 ELSE upto[n - 1] + numbers[n]
  IN  upto[Len(numbers)]

(* Characters of "a=1%b=2": names, values, equals signs, percent signs.    *)
Length(names) ==
  2 * Len(names) - 1 + SumOf([k \in DOMAIN names |-> Letters(names[k]) + Widths(names)[k]])

(* Mutant: the terminating zero is forgotten.                              *)
fits_without_terminator(length) == used < capacity /\ length <= capacity - used

fits(length) == used < capacity /\ length < capacity - used

(* Mutant: the buffer keeps what was written so far.                       *)
stored_after_failure_kept == used

stored_after_failure == 0

(* Once a line is complete the next piece starts another.                  *)
Complete     == line # <<>> /\ line[Len(line)] = "\n"
Begun(so_far) == IF Complete THEN <<>> ELSE so_far

(* A failure and the first byte that format_os_fingerprint then clears are *)
(* one step: every caller in between returns at once.                      *)
append_text(length, text, names) ==
  IF fits(length)
  THEN /\ used' = used + length /\ stored' = used'
       /\ line' = Begun(line) \o text /\ shown' = Begun(shown) \o names
       /\ UNCHANGED result
  ELSE /\ result' = -1 /\ stored' = stored_after_failure
       /\ UNCHANGED <<used, line, shown>>

-----------------------------------------------------------------------------
Init == /\ capacity \in Capacities /\ long \in BOOLEAN /\ at = 1 /\ first = TRUE
        /\ used = 0 /\ stored = 0 /\ line = <<>> /\ shown = <<>> /\ result = RUNNING

Omit ==
  /\ Running /\ Piece.op = "optional"
  /\ at' = at + 1
  /\ UNCHANGED <<capacity, long, first, used, stored, line, shown, result>>

(* Mutant: SP, GCD and ISR do not count as written.                        *)
first_after_not_metrics == IF Piece.names[1] = "SP" THEN first ELSE FALSE

first_after == FALSE

FormatOptional ==
  /\ Running /\ Piece.op = "optional"
  /\ append_text(Length(Piece.names) + (IF first THEN Letters(Piece.group) + 1 ELSE 1),
                 (IF first THEN <<Piece.group, "(">> ELSE <<"%">>) \o Fields(Piece.names),
                 Piece.names)
  /\ first' = first_after /\ at' = at + 1
  /\ UNCHANGED <<capacity, long>>

CloseOptional ==
  /\ Running /\ Piece.op = "close"
  /\ IF first THEN UNCHANGED <<used, stored, line, shown, result>>
     ELSE append_text(2, <<")", "\n">>, <<>>)
  /\ first' = TRUE /\ at' = at + 1
  /\ UNCHANGED <<capacity, long>>

(* The group of the next piece, past the rest of a line that is "R=N".     *)
NextGroup == CHOOSE k \in at + 1 .. Len(Pieces) + 1 :
               /\ k <= Len(Pieces) => Pieces[k].group # Piece.group
               /\ \A m \in at + 1 .. k - 1 : Pieces[m].group = Piece.group

FormatNotReceived ==
  /\ Running /\ Piece.op \in {"whole", "head"}
  /\ append_text(Letters(Piece.group) + 6, <<Piece.group, "(", "R", "=", "v", ")", "\n">>, <<"R">>)
  /\ at' = NextGroup
  /\ UNCHANGED <<capacity, long, first>>

FormatPart ==
  /\ Running /\ Piece.op \in {"whole", "head", "middle", "tail"}
  /\ LET starts == Piece.op \in {"whole", "head"}
         ends   == Piece.op \in {"whole", "tail"}
     IN  \E names \in Names :
           append_text(Length(names) + (IF starts THEN Letters(Piece.group) + 1 ELSE 1)
                         + (IF ends THEN 2 ELSE 0),
                       (IF starts THEN <<Piece.group, "(">> ELSE <<"%">>)
                         \o Fields(names) \o (IF ends THEN <<")", "\n">> ELSE <<>>),
                       names)
  /\ at' = at + 1
  /\ UNCHANGED <<capacity, long, first>>

(* The whole fingerprint is there.                                         *)
Finish ==
  /\ result = RUNNING /\ at > Len(Pieces)
  /\ result' = used
  /\ UNCHANGED <<capacity, long, at, first, used, stored, line, shown>>

Next == Omit \/ FormatOptional \/ CloseOptional \/ FormatNotReceived
          \/ FormatPart \/ Finish

Spec == Init /\ [][Next]_vars

-----------------------------------------------------------------------------
(* A fingerprint is written whole or not at all: on success the buffer     *)
(* holds a terminated string of the length returned, after a failure an    *)
(* empty one, wherever the buffer ran out. The buffer of main is large     *)
(* enough when no options string has more than 19 characters.              *)
AllOrNothing ==
  /\ result >= 0 => stored = result /\ result < capacity
  /\ result = -1 => stored = 0 /\ (MaxOptions <= 19 => capacity < MAX_FINGERPRINT_LENGTH)

(* The line is read back by the parser of the search as the group it is    *)
(* about, each field once and in order, whatever was left out of it; and   *)
(* every field has points in the shipped database, so that no reference is *)
(* skipped for a weight that is missing.                                   *)
LinesReadBack ==
  Complete =>
    LET text   == SubSeq(line, 1, Len(line) - 1)
        fields == GroupOf(text).fields
    IN  /\ IsGroup(text) /\ ToSet(shown) \subseteq MatchPoints[line[1]]
        /\ [k \in DOMAIN shown |-> <<shown[k]>>]
             = [k \in DOMAIN fields |-> fields[k].name]
        /\ IsInjective(shown)
=============================================================================
