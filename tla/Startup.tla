------------------------------- MODULE Startup -------------------------------
(***************************************************************************)
(* What main (src/src/main.c) does before it acquires anything it keeps:   *)
(* the port argument is cut at commas with strtok and parsed, the source   *)
(* address is asked from a connected socket and the interface from the     *)
(* system's list (src/src/network.c).  Each step is one of these calls.    *)
(*                                                                         *)
(* An argument is a sequence of symbols; digits stand for themselves.      *)
(***************************************************************************)
EXTENDS Integers, Sequences

CONSTANTS
  Arguments,       \* what argv[2] may be
  UINT16_MAX,      \* the largest port
  ULONG_MAX,       \* where strtoul saturates
  Sources,         \* addresses the kernel may choose for the target
  InterfaceLists   \* lists of [address, family, name, fits]

VARIABLES
  argument,
  pc,              \* call that comes next, "scan" or "exit"
  tokens,          \* what strtok gave
  ports,           \* <<open_port, closed_port>> once parsed
  source, name,    \* the two answers, or NONE
  interfaces,      \* the list getifaddrs gave, or NONE
  held             \* "fd" while the query socket is open, "list" until freeifaddrs

vars == <<argument, pc, tokens, ports, source, name, interfaces, held>>

NONE   == "none"
COMMA  == ","
Digits == <<"0", "1", "2", "3", "4", "5", "6", "7", "8", "9">>
Digit  == {Digits[d] : d \in 1 .. 10}
value_of == [c \in Digit |-> CHOOSE d \in 0 .. 9 : Digits[d + 1] = c]

Init == /\ argument \in Arguments /\ pc = "strtok" /\ tokens = <<>> /\ ports = <<>>
        /\ source = NONE /\ name = NONE /\ interfaces = NONE /\ held = {}

Exit == pc' = "exit"

(* strtok: runs of other symbols; leading and repeated commas are skipped. *)
Begins(a)     == {k \in DOMAIN a : a[k] # COMMA /\ (k > 1 => a[k - 1] = COMMA)}
token_at(a, k) ==
  LET ends == {m \in k .. Len(a) : \A x \in k .. m : a[x] # COMMA}
  IN  SubSeq(a, k, CHOOSE m \in ends : \A x \in ends : x <= m)

(* The first two; a third is never asked for.                              *)
Tokenize ==
  /\ pc = "strtok"
  /\ IF \E j, k \in Begins(argument) : j < k
     THEN /\ \E j, k \in Begins(argument) :
               /\ j < k /\ \A x \in Begins(argument) : x \in {j, k} \/ x > k
               /\ tokens' = <<token_at(argument, j), token_at(argument, k)>>
          /\ pc' = "parse_port"
     ELSE Exit /\ UNCHANGED tokens
  /\ UNCHANGED <<argument, ports, source, name, interfaces, held>>

(* strtoul in base ten over the leading digits, saturating.                *)
DigitRun(text) == {k \in DOMAIN text : \A m \in 1 .. k : text[m] \in Digit}

strtoul(text) ==
  LET value[k \in Nat] ==
        IF k \notin DigitRun(text) THEN 0
        ELSE LET n == 10 * value[k - 1] + value_of[text[k]]
             IN  IF n > ULONG_MAX THEN ULONG_MAX ELSE n
      end == IF DigitRun(text) = {} THEN 0
             ELSE CHOOSE k \in DigitRun(text) : \A m \in DigitRun(text) : m <= k
  IN  [value |-> value[end], end |-> end]

(* Mutant: what follows the digits is not looked at.                       *)
parse_port_prefix(text) ==
  IF text[1] \notin Digit THEN -1
  ELSE IF strtoul(text).value \in 1 .. UINT16_MAX THEN strtoul(text).value ELSE -1

parse_port(text) ==
  IF text[1] \notin Digit \/ strtoul(text).end < Len(text) THEN -1
  ELSE IF strtoul(text).value \in 1 .. UINT16_MAX THEN strtoul(text).value ELSE -1

ParsePorts ==
  /\ pc = "parse_port"
  /\ IF parse_port(tokens[1]) = -1 \/ parse_port(tokens[2]) = -1
     THEN Exit /\ UNCHANGED ports
     ELSE ports' = <<parse_port(tokens[1]), parse_port(tokens[2])>> /\ pc' = "socket"
  /\ UNCHANGED <<argument, tokens, source, name, interfaces, held>>

-----------------------------------------------------------------------------
(* get_source_ip: inet_pton and socket, connect, getsockname, inet_ntop.   *)

SocketFails ==
  /\ pc = "socket" /\ Exit
  /\ UNCHANGED <<argument, tokens, ports, source, name, interfaces, held>>

OpenQuerySocket ==
  /\ pc = "socket"
  /\ pc' = "getsockname" /\ held' = {"fd"}
  /\ UNCHANGED <<argument, tokens, ports, source, name, interfaces>>

(* Mutant: a failure returns at once.                                      *)
held_after_failure_kept == held

held_after_failure == {}

QueryFails ==
  /\ pc = "getsockname"
  /\ Exit /\ held' = held_after_failure
  /\ UNCHANGED <<argument, tokens, ports, source, name, interfaces>>

QuerySource ==
  /\ pc = "getsockname"
  /\ source' \in Sources /\ held' = {} /\ pc' = "getifaddrs"
  /\ UNCHANGED <<argument, tokens, ports, name, interfaces>>

-----------------------------------------------------------------------------
(* get_interface_for_ip.                                                   *)

InterfacesUnknown ==
  /\ pc = "getifaddrs" /\ Exit
  /\ UNCHANGED <<argument, tokens, ports, source, name, interfaces, held>>

(* Mutant: the first IPv4 entry is taken.                                  *)
Candidates_any_address(list) == {k \in DOMAIN list : list[k].family = "AF_INET"}

Candidates(list) == {k \in DOMAIN list : /\ list[k].family = "AF_INET"
                                         /\ list[k].address = source}

(* The first entry with the address decides, whether or not its name fits. *)
Chosen == {k \in Candidates(interfaces) : \A m \in Candidates(interfaces) : k <= m}

ListInterfaces ==
  /\ pc = "getifaddrs"
  /\ interfaces' \in InterfaceLists /\ held' = {"list"} /\ pc' = "select"
  /\ UNCHANGED <<argument, tokens, ports, source, name>>

SelectInterface ==
  /\ pc = "select"
  /\ \/ \E k \in Chosen : /\ interfaces[k].fits
                          /\ name' = interfaces[k].name /\ pc' = "compare"
     \/ /\ \A k \in Chosen : ~interfaces[k].fits
        /\ Exit /\ UNCHANGED name
  /\ held' = {}
  /\ UNCHANGED <<argument, tokens, ports, source, interfaces>>

(* Mutant: the arguments are compared as they were written.                *)
SamePort_as_text == tokens[1] = tokens[2]

SamePort == ports[1] = ports[2]

CompareAndScan ==
  /\ pc = "compare"
  /\ pc' = IF SamePort THEN "exit" ELSE "scan"
  /\ UNCHANGED <<argument, tokens, ports, source, name, interfaces, held>>

Next == \/ Tokenize \/ ParsePorts
        \/ SocketFails \/ OpenQuerySocket \/ QueryFails \/ QuerySource
        \/ InterfacesUnknown \/ ListInterfaces \/ SelectInterface
        \/ CompareAndScan

Spec == Init /\ [][Next]_vars

-----------------------------------------------------------------------------
(* The number a port is written as: digits only, leading zeros allowed.    *)
Powers[n \in Nat] == IF n = 0 THEN 1 ELSE 10 * Powers[n - 1]
Denotes(text, port) ==
  /\ text # <<>> /\ \A k \in DOMAIN text : text[k] \in Digit
  /\ \A n \in 0 .. Len(text) - 1 :
       (port \div Powers[n]) % 10 = value_of[text[Len(text) - n]]
  /\ port < Powers[Len(text)]

(* A scan starts with the two ports of the argument, each a number that    *)
(* fits a port and the two different, however they are written: no sign,   *)
(* blank or trailing text is accepted, and nothing wraps into range.       *)
ScansTwoGivenPorts ==
  pc = "scan" =>
    /\ ports[1] # ports[2]
    /\ \A n \in 1 .. 2 : ports[n] \in 1 .. UINT16_MAX /\ Denotes(tokens[n], ports[n])

(* What the queries open is closed on every path, before the scan begins   *)
(* and before the process ends; and a scan begins only on an interface     *)
(* the system lists with the IPv4 address the probes are sent from, under  *)
(* its whole name, although the two are asked from different sources.      *)
CapturesWhereItSends ==
  /\ pc \in {"scan", "exit"} => held = {}
  /\ pc = "scan" => \E k \in DOMAIN interfaces :
                      /\ interfaces[k].family = "AF_INET" /\ interfaces[k].address = source
                      /\ interfaces[k].name = name /\ interfaces[k].fits
=============================================================================
