# OS-Fingerprint in TLA+

OS-Fingerprint sends sixteen crafted packets to a host, collects the answers,
turns them into an Nmap-style fingerprint and looks the fingerprint up in
`nmap-os-db`. This directory is a verification project for that program: TLA+
modules translated from `src/`, TLC configurations that check them on small
instances, and proofs checked by TLAPS for every value of the constants.

All paths below are relative to the repository (`src/src/scan.c` and so on);
commands are run in this directory:

    tlc -workers 2 -config MCScan.cfg MCScan      # check one run
    tlapm ScanProofs.tla                          # check one module of proofs

## 1. Inventory

The program is one process with one thread. Concurrency enters from outside: the
target and other hosts put packets into the kernel's capture buffer at any time,
the clock runs, and system calls and allocations may fail anywhere.

| Component | Source | State it keeps | Operations |
|---|---|---|---|
| Driver | `main.c` | `network_ready`, `exit_status`, owners of everything else | phases in sequence, `goto cleanup` on failure |
| Probe table | `probes.c`, `structures.h` | none (pure, apart from `rand`) | six specification builders |
| Packet construction | `packet.c:24-251` | none; returns heap blocks | `construct_TCP/ICMP/UDP_packet`, `calculate_checksum` |
| Network | `network.c` | send socket, capture handle, installed filter | `network_init`, `send_packet`, `receive_packet`; `get_source_ip`, `get_interface_for_ip` |
| Scan | `scan.c` | `scan_state`: 16 results and 16 packets | `prepare_probes`, `send_probes`, `collect_responses`, `free_scan` |
| Packet parser | `packet.c:289-565` | none; returns owned copies of options and payload | `parse_packet`, `free_parsed_info` |
| Probe matcher | `probe_matcher.c` | none; moves a reply into a probe's result | `response_matches_probe`, `match_probe_responses` |
| Fingerprint | `fingerprint.c` | file-static `T_hops`, reset on each call | one calculator per test line, `calculate_os_fingerprint` |
| Formatter | `fingerprint_formatter.c` | write position in a bounded buffer | `format_*`, `format_os_fingerprint` |
| Database reader | `database.c` | file position | `parse_observed_fingerprint`, `read_match_weights`, `read_next_reference` |
| Expression matcher | `matcher.c:90-300` | none | `match_expression` |
| Database search | `matcher.c:307-551` | bounded sorted array `best_matches` | `compare_fingerprints`, `retain_best_match`, `find_os_matches`, `free_os_matches` |

How they interact: `main` opens the network through `scan.c`, which sizes the
capture filter from the probe table. `prepare_probes` asks `probes.c` for
specifications and `packet.c` for packets, and stores both. `send_probes` stamps
each result with its send time and marks it `NO_RESPONSE`. `collect_responses`
polls the capture, parses what it gets and lets the probe matcher move each reply
into the first pending result it answers, until all are answered or the time limit
is over. The results are read by the fingerprint calculators, formatted into one
string, parsed again by the database reader and compared with every reference.
Ownership of heap blocks moves along that chain (specification to result, parser to
local response to result) and ends in `free_scan`.

What is hard, and what makes each part correct:

* **Attribution.** Replies arrive in any order, twice, or from strangers. Correct
  if no reply answers two probes, if the capture filter (whose last port is
  computed in 16 bits) drops nothing the matcher accepts, and if an honest answer
  to the packet that was really sent reaches its probe.
* **Collection.** A loop with two exits, a counter and a timer, fed by an
  uncontrolled network. Correct if the counter is the number of recorded replies,
  each probe keeps the first reply read for it, a silent probe has had the whole
  time limit, nothing is awaited once all is answered, and the loop ends.
* **Ownership and cleanup.** A dozen failure points, two kinds of `exit`, and one
  transfer of pointers by structure copy. Correct if every block has one owner at
  every step and everything is released when `main` ends.
* **Search.** A bounded array that replaces entries of the same name, evicts and
  breaks ties. Correct if it is the top of everything seen, owns its names once,
  and reports nothing after a failure.
* **Fingerprint.** A static variable links one calculator to later ones; any
  calculator's failure voids the whole result; unsigned differences wrap.
  Correct if a well-formed reply cannot void the result, no value of an earlier
  call is used, and each classification matches its definition.
* **Text.** Formatter, reader and expression matcher share a syntax. Correct if a
  formatted fingerprint always parses back to the same groups and fields, the
  formatter never leaves a partial text, and alternatives do not depend on order.

`PROJECT.json` lists each hazard at the line where it bites.

## 2. Modules

| Module | What it is |
|---|---|
| `Probes` | the probe table, the headers built from it, the capture filter, attribution; pure operators |
| `Scan` | the whole run of `main` up to the fingerprint, with the network, the heap, failures and time |
| `TopMatches` | what the search promises: the best names of the entire history, no bounded array |
| `FindOsMatches` | `find_os_matches` and `retain_best_match`; implements TopMatches |
| `Startup` | what `main` does before it acquires anything: the ports, the source address, the interface |
| `InternetChecksum` | `calculate_checksum`, its words and its folding |
| `Checksum` | a checksum calculated, stored in the packet, and verified on what comes back |
| `UdpEcho` | the U1 datagram byte by byte, its way to the host, its quote, and the tests made on the quote |
| `PacketBytes` | `parse_packet`: length fields, boundaries, copies |
| `OptionWalk` | the two walks over TCP options, in the parser and in `generate_ops_string` |
| `SeqTests` | the tests on numbers that count up: GCD, ISR, SP, TI, CI, II, SS, TS |
| `Fingerprint` | `calculate_os_fingerprint`: the calculators in their order, `T_hops`, validity |
| `Selection` | the elements of a sequence at chosen places, in order |
| `GroupText` | what a fingerprint line means, stated without a parser |
| `Formatter` | `format_os_fingerprint` on a buffer of fixed size |
| `GroupParser` | `parse_fingerprint_group`: one line, with failing allocations |
| `ObservedReader` | `parse_observed_fingerprint`: the lines of the observed fingerprint |
| `DatabaseReader` | `read_match_weights` and `read_next_reference` on one open file |
| `MatchExpression` | `match_expression` |
| `CompareFingerprints` | `compare_fingerprints` |
| `ScanProofs` (with Probes), `FindOsMatchesProofs`, `FingerprintProofs`, `PacketsProofs`, `TextProofs`, `FormatterProofs`, `MatchingProofs` | theorems and proofs |
| `NaturalRecursion` | lemmas about induction, recursion, selections and division that those proofs share |

`Scan` EXTENDS `Probes`, so packets, filter and attribution in the scan are the
checked ones. `Fingerprint` EXTENDS `Probes` and `SeqTests`: its U1 replies are those the
matcher accepts, its SEQ line is the one the tests compute. `Checksum` and `UdpEcho` share
`InternetChecksum`; `Formatter`, `GroupParser` and `ObservedReader` share `GroupText`, so
what one writes and the others read is one syntax. `FindOsMatches` INSTANCEs `TopMatches`
with a refinement mapping.

Each component has an MC module with its inputs (`MCOptionWalk`, `MCStartup`, ...). Four
more MC modules put components that answer one question into one run: `MCPackets`
(Startup, Checksum, PacketBytes, OptionWalk), `MCTests` (Fingerprint, SeqTests, UdpEcho),
`MCText` (Formatter, GroupParser, ObservedReader, DatabaseReader) and `MCMatching`
(MatchExpression, CompareFingerprints). Each is a *sum*: the variable `part` says which
component a behaviour exercises, the variables of the others keep an idle value, and a
property speaks of the behaviours of its part. These components are calls that follow
each other and share no state, so a product would only multiply their states. Where such
a module writes `INSTANCE MCX WITH Inputs <- {}`, it takes the set of inputs out of the
MC module of X. The inputs of a run are CONSTANTS that the cfg gives the values `MC...`, so
that the theorems are about all inputs and not about those of the run.

### Probes

A scan configuration is `[first, open, closed, ident]`, four 16-bit fields. Each
operator has the name of its function; arithmetic on ports, identifiers and the end
of the port range is `% 65536`, as in the code's `uint16_t`. Sequence numbers,
option bytes, windows and payload contents are left out, since neither the filter
nor the matcher looks at them. A quoted datagram keeps the numbers
`matches_quoted_udp` tests (length quoted, header length, version, protocol,
fragment offset, addresses, ports). What the target sends back, `reply_to`, is
outside the program: it exchanges addresses and ports, echoes identifier and
sequence number, or quotes the datagram.

### Scan

`pc` is the place in `main`; each action is one call, or one turn of a loop, with
everything it changes.

| Variables | Code |
|---|---|
| `sock`, `pcap`, `network_ready` | `net.send_socket_fd`, `net.pcap_handle`, `main`'s flag |
| `data`, `payload` | `scan.packets[i].data`, `scan.results[IE1+i].probe_sent.icmp.payload` |
| `status`, `sent_at`, `parsed` | the fields of `scan.results[i]` |
| `sent` | how far `send_probes` has come |
| `started`, `pending_count`, `matched_count`, `response` | locals of `collect_responses` |
| `heap` | the allocated blocks: packets, echo payloads, what the parser copied |
| `capture`, `replies`, `clock` | kernel buffer, target, `CLOCK_MONOTONIC` |
| `first_match` | history variable: the first reply read that matches each probe |

Actions: `RefuseRange`, `OpenSocket`, `SetHeaderIncluded`, `OpenCapture`,
`ConfigureCapture` (network_init); `PrepareSequence`, `PrepareIE`, `PrepareECN`,
`PrepareT`, `PrepareU1`; `SendProbe`, `SendFails`; `CollectStart`, `CollectCheck`,
`CollectClockFails`, `ReceiveNothing`, `ReceiveIgnored`, `ReceiveFails`,
`ReceiveParsed`, `RecordReply`, `DiscardReply`; `GenerateAndMatch`; `Cleanup`; and
outside the program `TargetReplies`, `ForeignArrives`, `Tick`. Every system call and
allocation the code tests may fail, and the two ways the process dies without
cleanup (`exit` in a specification builder or in `construct_TCP_packet`) are the
end states `exit_in_spec` and `exit_in_construct`. `GenerateAndMatch` stands for
`main.c:143-165` and only chooses the exit status; its insides are Fingerprint,
Formatter and FindOsMatches. The filter is applied when a packet is captured, the
parser's verdict is
the flag `parses`, and options and payload copied by the parser are one block. A
parser that runs out of memory frees what it had, so it is part of `ReceiveFails`.

`free` leaves no trace in C, so reads of freed blocks are made visible by ownership:
`OneOwner` says every allocated block has exactly one pointer to it and no pointer
leads to a freed one, which excludes leaks, double frees and dangling pointers.

### FindOsMatches and TopMatches

`pc` is the place in `find_os_matches`; `held` says whether the file, the observed
fingerprint and the weights are held; `best_matches` is the used part of the array,
each element `[name, score, block]` with `block` the heap block of its `strdup`ed
name; `names` are the blocks allocated; `seen` is the history of candidates with
points. `retain_best_match` is split by outcome into `SkipEntry` (no points, or the
comparison failed), `IgnoreEntry`, `RetainEntry`, `RetainFails`. A score is only
compared in this code, so `Scores` is any set of integers (the order of the doubles
that occur is all that matters).

`TopMatches` keeps the history and computes the report from it: for each name the
candidate that first reached its best score, ordered by score, earlier first among
equals, cut at `max_matches`. `ReportsTheTop` says the array is always that report,
or empty after a failure or the final `free_os_matches`.

### Startup

`pc` runs through `Tokenize` (strtok at commas), `ParsePorts` (the tests of `parse_port`,
which lets only digits reach strtoul, and its saturation at `ULONG_MAX`), `OpenQuerySocket`,
`QuerySource`, `ListInterfaces`, `SelectInterface` and `CompareAndScan`. Arguments are
sequences of symbols; an interface list is the sequence `getifaddrs` returns, `fits` whether
the name has room in the caller's buffer. `held` are the query socket and, until
`freeifaddrs`, the interface list.

### InternetChecksum, Checksum and UdpEcho

A byte has `BYTE` values, 256 in the program. Checksum takes one step per word added
(`AddWord`, `AddLeftover`, `Fold`, `Store`), then `Damage` may change a byte on the way and
`Verify` is the RIPCK test. With small bytes every message of up to five of them is
checked; the theorems are for every BYTE.

UdpEcho uses real bytes. `ConstructUDPPacket` builds header and segment and keeps the
checksum with the probe, `KernelSends` fills in what the kernel fills in, `Hop` is a router
that counts the time to live down and corrects the header checksum, `HostQuotes` answers
with a prefix of what arrived in which it may have changed any subset of six things, and
the last step computes the U1 tests as `calculate_u1_fingerprint` does. Kernel, routers and
host are external.

### PacketBytes and OptionWalk

A frame is a record of the length fields in it and of the number of captured bytes; they
may contradict each other. `ParseEthernet`, `ParseIp`, `ParseTcp` or `ParseIcmp` and
`ParseQuote` test them in the code's order, `CopyOptions` and `CopyPayload` copy, with
`CopyFails` when memory is short. `reach` is the end of the bytes read. Subtractions are
`size_t`, so a difference below zero is huge, as in C.

OptionWalk has the option bytes themselves. `ParseOption`, `ParseMalformed` and `ParseEnd`
are a turn of the loop in `parse_tcp_response` and its two ends, `GenerateOption`,
`GenerateRefuses` and `GenerateEnd` the same of `generate_ops_string`, on the field the
parser copied. Options in the string are known by their position.

### SeqTests and Fingerprint

SeqTests are operators, one per function. Differences and IP ID steps wrap at `UINT32` and
at 16 bits as the C types do; the loop of `gcd_array` is a recursive function. Rates,
logarithms and deviations are floating point and left out, whether they can be computed is
kept (it decides `metrics_present`).

Fingerprint has one action per calculator, in the order of the calls: `T_hops` is set by
the first and read by the later ones, `fp` is the fingerprint so far, `valid` the result.
`CallAgain` is a second call in the same process with other results, which finds whatever
the first left in `T_hops`. Replies are those the parser and the matcher let through.

### Text

`GroupOf(line)` of GroupText says what a line means: group name, fields, values. It is
declarative (first separator, parts between separators), the parsers go from left to right.

Formatter takes a step per `append_text`, with the number of characters it needs; `used` is
the write position, `stored` what the caller finds, `line` and `shown` the symbols of the
current line and the lines so far. `Omit` is the decision not to write a field.
GroupParser takes a step for the name, one per field, one for the rest; `held` are its
blocks, and any of its allocations may be refused. ObservedReader takes lines of a text,
copies each, parses it (by `GroupOf`, which is what GroupParser is checked to do) and
stores the group. DatabaseReader takes a step per line of the file, `pos` is the file
position, restored with `fsetpos` when the next header was read.

### MatchExpression and CompareFingerprints

MatchExpression walks the expression with a step per character that matters
(`OpenBracket`, `CloseBracket`, `Skip`, `Alternative`); the functions called for one
alternative are operators on sequences of characters, the walk of `match_helper` over an
option list is a recursive function with a value per bracket. A question comes with what its
expression was written from, `meant`: alternatives with a kind and texts, whose meaning is a
set of texts. Only the properties look at it. CompareFingerprints takes a step
per group and per reference field; the answer of `match_expression` is the value of the
reference field, so that a match, a mismatch and an error occur in every place.

## 3. Runs

| Run | Question | Result |
|---|---|---|
| `probes` | is every reply attributed to at most one probe, captured when it matters, and honest answers to the right one? | passes, 22 296 states |
| `probes_df` | does each packet carry the DF bit its specification asks for? | violated (finding 1) |
| `scan` | types, ownership, counting, first reply, release at the end | passes, 127 000 states |
| `scan_timing` | time limit, send times, the end when all is answered, termination | passes, 194 000 states |
| `scan_exit` | does packet construction report failure? | violated (finding 2) |
| `find` | types, name ownership, best kept, clean failure, implements TopMatches | passes, 443 000 states |
| `find_status` | does find_os_matches return 0 or -1? | violated (finding 3) |
| `packets` | right ports and interface, checksums that verify, no read outside a buffer, exact copies, two option walks that agree | passes, 132 000 states |
| `tests` | only an option list voids a fingerprint, hops are those of their probe, wrapping arithmetic decides what exact arithmetic would, U1 blames the host for its own changes only | passes, 394 300 states |
| `text` | nothing partial is formatted, what is written is read, lines and references are neither lost nor repeated, blocks are given back | passes, 430 400 states |
| `matching` | an expression matches what it denotes, a comparison sums the points of common fields | passes, 193 900 states |
| `expression_doc` | is every invalid expression an error? | violated (finding 4) |

### What the properties of the last five say

* `ScansTwoGivenPorts`: a scan starts only with the two different ports the argument
  denotes, whatever its spelling; nothing wraps or saturates into range. `CapturesWhereItSends`:
  the interface is one that has the source address, and nothing stays open.
* `VerifiesIfIntact`: a packet that comes back as sent verifies, one with a changed
  byte does not. `IsOnesComplement`: the
  folding yields the sum modulo all ones, with the carry of the last addition.
* `ReadsInsideCapture`, `ReadsInsideField`: no parser reads behind the captured frame or
  the option field. `DeliversTheDatagram`: options and payload are copied completely and
  without the padding of a short frame, or the packet is ignored.
* `WalksAgree`: an accepted option list is refused later only for an unknown kind or for
  bytes behind end-of-list; the string starts with the options the parser saw; both
  take the first timestamp. `StringNeverFills`: 128 characters always suffice.
* `RefusedOnlyForOptions`: of replies that reached it, `calculate_os_fingerprint` refuses
  only one whose options string cannot be made; no accepted U1 quote is refused.
  `LinesFitTogether`: every line gives T or TG by the U1 reply of *this* call, and CI is
  over the replies of the closed port.
* `CountingNeverWraps`, `SharedSequenceExact`, `GcdIsGreatest`,
  `MetricsOfEverySampledHost`: where the code's arithmetic wraps, its verdicts are those
  of exact arithmetic; no GCD is mistaken for the marker of an absent one.
* `BlamesTheHostOnly`: RIPL, RID, RIPCK, RUCK and RUD report exactly what the host changed
  in the quote, not what routers did to it; a probe whose UDP checksum is zero included.
* `AllOrNothing`: the buffer holds the whole text or is empty, and 1024 characters suffice
  for options strings up to 19 characters. `LinesReadBack`: each line formatted, read by
  `GroupOf`, is the group it came from, and each of its fields has points in MatchPoints.
* `ReadsWhatIsWritten`, `BlocksAccounted`, `ReadsReferencesInOrder`: the parsers yield
  what the text means or fail; blocks held are those of the result; every reference is
  delivered once, in order, with its own groups, and a malformed one ends the reading
  where it stands.
* `MatchesWhatIsDenoted`: alternatives in any order, inclusive ranges, overflow of either
  operand, brackets. `ScoresCommonFields`: points and possible points are sums over the
  common fields, and the comparison fails exactly for a missing weight or an error.

### Bounds, and why they are enough

* `probes`: first ports 0, 1000 and the values around 65523, the last for which the
  TCP port range does not wrap; identifiers 0 and 65535 (wraps between the echo
  requests); target ports that are, and are not, themselves source ports of the
  scan; every port, identifier and sequence number within one of a used one; quotes
  one byte short of each limit. The operators compare only equality and order of
  these numbers, so neighbours of each boundary are all cases; the theorems remove
  the bound.
* `scan`: first port 1000, and 65524, which `network_init` refuses. Answers of one
  probe of each protocol (SEQ1, IE2, U1), `MaxReplies` = 3 with repetition: three
  answers, or duplicates of one. Two strangers' packets that pass the filter, any
  number of them as long as the buffer has room; `MaxBuffered` = 2 packets, the
  least with reordering of arrivals. `Timeout` = 2 ticks. Four `Buffer` addresses:
  three replies recorded and one in hand. `MaxSendTicks` = 0, time only moving
  while collecting, which no statement of this run looks at.
* `scan_timing`: all sixteen probes may be answered, in table order (`InOrder`), so the
  loop can end by its counter as well as by the clock, after any prefix of the answers;
  `MaxSendTicks` = 2, so probes are sent at different times and the limit of the last
  differs from the first's; one buffered packet, strangers without number.
* `find`: three names, `max_matches` = 2 (as long as an array can be, `MaxElements`), three
  scores, five candidates: replacing, evicting, refusing and every tie occur, an evicted name
  returns, and the array is full with candidates to come.
* `packets`: arguments of up to five symbols and longer ones with signs, leading zeros and
  a third port, ports up to 12 of an unsigned long of three digits, so that a number can
  be too large for each; interface lists with another family, another address and a
  name too long before the right one. Messages of two to five bytes of four values: with
  and without a leftover byte, sums that carry twice, sums of all ones. Frames that end
  inside each header, just behind it and with padding, against lengths one below, at and
  above every limit. Option fields of any three pieces, well formed and not, padded at
  either end, and the longest fields of each kind.
* `tests`: two calls per process, the second with two probes drawn among losses, refused
  options, odd flags and other hop counts; U1 quotes at each length and header limit.
  Identifiers at both sides of every threshold (10, 256, 1000, 5120, 20000), from starts
  near 0, 40000 and 65535; here `UINT32` is 2^30, since TLC's integers have 32 bits, and no
  value but a wrapped one comes near it. Every four sequence numbers of a 12-valued type,
  where half the range, wrapping and the marker value all occur. Three U1 probes (an
  ordinary one, one with UDP checksum zero, one whose header checksum is zero after one
  router), up to two routers, quotes of 28, 29, 60 and 328 bytes, every subset of changes;
  `U1BlamesTheHostOnly` removes these bounds.
* `text`: capacities 1, 10, 160 (in the middle of the text) and 1024 (`main.c:33`); every
  choice of lines and fields, with all values at their shortest or all at their longest;
  every line of up to six symbols and
  two-field lines with blanks, missing marks and trailing text; texts of up to four
  lines, with and without a final line end; databases of up to two references with
  every kind of line in every place; any allocation may be refused.
* `matching`: numbers of up to three digits with `UINT32` = 256, so that three digits
  overflow as nine do in the program; up to three alternatives, one and two brackets, alone
  and beside a plain alternative, and brackets that do not pair; fingerprints of up to two groups of two fields in every
  order, points absent, zero and not.

Deadlock is checked in every run of Scan and FindOsMatches; the explicit
`Terminated` step marks where the process may stop. In `probes` one reply is drawn and
nothing follows, and in `packets`, `tests`, `text`, `matching` and `expression_doc` a
behaviour is one computation that ends, so the check is off there.

### Fairness

`scan_timing` assumes weak fairness of the program's own actions, taken together (its
single thread is scheduled; none of its calls blocks, since `pcap_setnonblock` is on
and `sendto` on a raw socket returns), and of `Tick` (the monotonic clock moves
while the program sends or collects). Nothing is assumed of the network: it may
answer never, or flood the capture for ever. Nor is anything assumed of which
program action is taken: `ReceiveNothing` may be chosen each time.

### Findings

1. `construct_TCP_packet` stores 0 in `frag_off` (`src/src/packet.c:63`) and never
   reads `ip_DF`, although T2, T4 and T6 ask for the Don't-Fragment bit
   (`src/src/probes.c:255,299,343`) and `src/src/packet.c:18` promises a packet
   "based on the provided TCP probe specifications".
2. `construct_TCP_packet` calls `exit` when it cannot allocate or convert an address
   (`src/src/packet.c:70,76`); `src/src/packet.c:22` says it returns "NULL on
   failure". The cleanup in `main` never runs then.
3. `find_os_matches` returns `EXIT_FAILURE` (1) for an empty array or a fingerprint
   without groups (`src/src/matcher.c:479-487`), with the file still open and the
   weights allocated; `src/src/matcher.c:449` says "0 on success, -1 on error".
   `main` tests for non-zero, so the caller notices the failure.
4. `match_expression` answers 0 for some invalid expressions on TCP options:
   `match_helper` returns at the first literal character that differs
   (`src/src/matcher.c:131`), or when no digit stands where the bracket is
   (`src/src/matcher.c:156`), before it has looked at the expressions in the bracket;
   `src/src/matcher.c:231` says "If any expression is invalid, it returns -1."

Seen while modelling, and small enough not to deserve a run: `receive_packet`
returns 0 also for a packet the parser ignores, where `src/src/network.c:272` says
"0 on timeout" (harmless: the loop retries in both cases, 1 ms later); the parsed
`observed` fingerprint is never freed on any path of `find_os_matches`, and the
weights are not freed when the file cannot be rewound (`src/src/matcher.c:489-493`).
`held` in FindOsMatches shows both, and `FailureReportsNothing` says which returns leave the
file open and when the weights may be left behind.
`calculate_ip_id_fingerprints` returns 0 also with enough samples, at
`src/src/fingerprint.c:353`, where the comment at line 205 speaks of too few. The buffer
of 1024 characters (`main.c:33`) suffices for options strings of up to 19 characters: when
every reply has one of 20 and all other values are as long as they can be, the text no
longer fits, formatting fails and with it the scan; `OptionWalk`
shows that a reply can make up to 50. A quote whose header checksum is rightly zero is
reported `Z`, as if the host had cleared it.

## 4. Theorems

### Assumptions

Each is named where the constant is declared, and TLC evaluates it in every run of that
module. Nothing else is assumed, and no instance is finite in the proofs except the tables
of the program itself (probes, pieces of a fingerprint).

| Assumption | What it says | Why the code justifies it |
|---|---|---|
| `ScanAssumption` (Scan) | bounds are naturals, configurations have 16-bit fields, answering probes are probes | types of `scan_state` |
| `NullAssumption` (Scan) | the null pointer is neither a block nor a response | C |
| `MatchAssumption` | scores are integers, the two markers are no scores, bounds are naturals | a score is only compared |
| `BuffersAssumption` | an option field has at most 40 bytes | all that a 4-bit data offset leaves |
| `ScanAssumption` (Fingerprint) | results are replies of the parser to the probes they are stored with | `match_probe_responses` |
| `UintAssumption`, `IdAssumption`, `NumberAssumption` | numbers fit their C types; 32 bits hold a hexadecimal digit, and four identifiers; a type has three values | `uint16_t`, `uint32_t` |
| `PortAssumption`, `IdentifierAssumption` | 16 bits | `uint16_t` |
| `ArgumentAssumption`, `LimitAssumption` | an argument is a text; an unsigned long holds more than a port | `argv`, `<limits.h>` |
| `ByteAssumption`, `MessageAssumption` | a byte has more than one value, a message consists of bytes | C |
| `FrameAssumption` | a field of a frame holds what fits its bits, a capture has a length | packet formats |
| `CapacityAssumption` | a buffer has room for at least one character | `capacity == 0` returns at once |
| `LineAssumption`, `FileAssumption` | texts are sequences of symbols, files of lines | |
| `FingerprintAssumption`, `WeightsAssumption` | a fingerprint names each group once and each field of a group once; a table does not give a field two different numbers of points | the formatter writes each name once, the shipped database repeats none |
| `EchoAssumption` (MCTests) | ports have 16 bits, addresses four bytes; a quote has both headers and at most the whole datagram; fewer routers than the time to live of the probe | `uint16_t`, IPv4; U1 needs the quoted UDP header; a router discards what has no time to live left |
| `QuestionAssumption` | an expression is alternatives with bars between them, or its brackets do not pair, or stand where no brackets may; an option list goes on after a bracket with what is no digit | `nmap-os-db`; options are the letters L, M, N, S, T and W |
| `LettersAssumption` | the table `Letters` has the length of every name written; TLC evaluates it, no proof uses it | |

### Induction

The provers take no theorem with an operator as a parameter. `NaturalRecursion` therefore
states induction about *sets* of numbers (a set with 0 and every successor is all of them)
and recursion about *functions* (a step function on pairs has an iteration), both from
well-foundedness of the naturals. From the second follows that the functions defined by
recursion in these modules exist and satisfy their equation, which TLA+ does not grant to
`f[n \in Nat] == ...` by itself. The rest of the module is about what a loop collects
(`Selected`), the marks it has passed and the next one, division, and the sum of a
sequence (`SumTo`), which may be taken in two halves (`HalvesSum`).

### Attribution (`ScanProofs`)

`UniqueMatch`, `FilterSound` and `HonestReplyMatches` are about every 16-bit configuration
and every reply. They rest on two facts about 16-bit sums: adding offsets below 16 and
wrapping is injective, and a range whose wrapped end is not below its start did not
wrap, so `network_init`'s test is exactly what makes the filter sound.
The end of that section carries them to the behaviours of the `probes` run, whose
configurations are in range.

### Scan (`ScanProofs`)

The invariant is built in layers.

* `TypeOK /\ SendProgress`. TypeOK alone is not inductive: `sent < SendCount` while
  sending needs to know that preparation starts at 0, and that the statuses follow `sent`
  along `SendOrder`, an injective enumeration of all probes.
* `ReplyInv` adds what collection maintains: nothing is recorded before it
  (`ReplyProgress`), `parsed` equals the history (`FirstReplyWins`), and the counters
  are cardinalities (`MatchedIsReceived`). They need each other: a reply goes to a
  *pending* probe, pending means no earlier match, hence it is the first; and a
  recorded probe leaves one set of statuses for the other, hence the sum is kept.
  `FirstReplyWins` also needs `UniqueMatch`: without it a reply could match two
  pending probes and be recorded for one. `NoReceiveWhenComplete` follows from the
  counts at the top of the loop.
* `TimingInv`: send times are not in the future, `started` is not before any of them, the
  clock does not run backwards. `NoReplyMeansTimeout` and `SendTimesInOrder` follow.
* `ReleaseInv`: `Ownership`, a pointer-by-pointer form of `OneOwner` that is inductive
  (which pointer may hold which block, distinct blocks in distinct results, and heap =
  blocks pointed to), and `NetworkProgress`. `OneOwner` and `ReleasedAtEnd` follow.

### Search (`FindOsMatchesProofs`)

`FindInv` says that the file is open while the search is prepared, and that while searching
the array is good (typed, bounded, sorted, names differ, blocks differ), that the blocks of
its names are the allocated ones, and that every candidate seen is covered. Lemmas state what `RemoveAt`, `InsertAt`, `MakeRoom` and
`Insert` do to a good array; `RetainKeepsGood` combines them. The coverage of old
candidates survives an eviction only because the array is sorted: the one evicted
has the least score and the newcomer beats it.

`ArrayReportsTheTop` is the refinement. A *leader* of the history is the best candidate of
its name. `Mirrors` relates the array to the leaders: every candidate has a leader of its
name, every element is a leader, elements stand in the order in which leaders beat each
other, and a leader that is not in the array is beaten by every element of a full array.
`MirrorInv` says that the array mirrors the history while the search runs; the proof
follows a new candidate through the outcomes of `retain_best_match` (ignored, replaced,
inserted, evicting the last) and concludes that each step of the search is a step of
TopMatches or none.

### Fingerprint (`FingerprintProofs`)

`RefusalInv`, above the types and the history of the calls (`CallInv`), ties `valid` to the
reply whose options could not be made. `HopsInv` says that after the U1 calculator `T_hops`
holds the hops of *this* call or the marker, `KindInv` and `CIInv` that every line written
since was made with it; a second call resets the variable before anything reads it.

The SEQ tests are proved on any number of samples. Indices selected by the code are an
increasing enumeration of those that answered, so that facts about neighbours carry over to
any two samples; steps that wrap are ruled out by the thresholds (`StepUp`). For the GCD,
Euclid's recursion is shown to exist by bounding its depth by the second argument, and the
loop to preserve the common divisors of what it has read.

U1 is proved for every probe, any number of routers and every length of quote. The sum of a
header is split by the bytes a router or the host may change (`SumByFields`). Storing the
checksum completes the sum to a multiple of 65535 (`ChecksumCompletes`), and a sum that is
such a multiple and not zero is what verifies (`SealedVerifies`, `CheckIs`). All that the host
may change in a header takes less than 65535 off its sum, and something if it changes
anything: so a quoted header verifies exactly if the host left it alone
(`QuotedHeaderVerifies`). `EchoInv` says that what is on its way is the datagram as built, with
a time to live less by the routers passed, and that what comes back is this but for `changed`.

### Packets (`PacketsProofs`)

* The parser: `BytesInv` relates, for every place in the code, the tests a frame has passed
  to the lengths it may use; the wrapping differences are exact because of them. From it
  `ReadsInsideCapture` and `DeliversTheDatagram`.
* The start of `main`: `StartInv` follows the two queries and what they hold, `PortInv` the
  argument. `strtoul` read digit by digit yields the number the digits denote or saturates,
  and what saturates is no port.
* The checksum: `SumInv` says the accumulator is congruent to the words added, modulo all
  ones, and counts carries; two folds suffice because the first leaves a small carry. A
  changed byte changes the sum by less than the modulus, hence shows.
* The options: `ReadsInsideField` and `StringNeverFills` follow from `BoundInv`: an option
  the boundary test passes ends inside the field, and no option makes more than five
  characters of four bytes, so that `4 * ops_index <= 5 * i` is kept and 40 bytes make at
  most 50 characters of the 128. `WalksAgree` follows from `WalkInv`: the options the parser
  passed form a path (each starts where the one before ends, the end is end-of-list or the
  end of the field), and the generator, which makes the same advance for the same bytes,
  stands on that path until it has passed its end.

### Text (`TextProofs`, `FormatterProofs`)

* Blocks: `GroupInv` and `ObservedInv` name the blocks held at each place, so that whatever
  allocation is refused the release covers them all.
* The parser of one line: `ReadInv` says that the scan is at the beginning of part m + 1 of
  the line and that the m parts before it are well-formed fields and stored. The edges of
  parts are the "%" signs, known as marks of the line; what the scan finds from left to
  right is shown to be what cutting the line into parts yields. The reader of an observed
  fingerprint has `WalkInv`: it is behind the first h lines that are not blank and has
  stored what those say; that it skips blanks first does not change what a line says
  (`IndentedGroup`).
* The reader of the database: `DatabaseInv` counts headers. As many as have been met have
  been handed out, one more while a reference is read, and the lines gathered are the
  beginning of its lines: the header that ends a reference is read twice, and counted once.
* The formatter (`FormatterProofs`): `FormatInv` bounds what is written by `Budget`, the sum of the longest
  forms of the pieces so far. Where fields may be left out, the first one written has to
  bring the name of its group, and which that is is not known before; the invariant gives
  it three more characters, taken from what is set aside for the close. All pieces sum to
  767 characters and 13 options strings, so that a text that does not fit proves the buffer
  smaller than 770 + 13 `MaxOptions`, 1017 for options of 19 characters. That main's
  buffer suffices is said for `MaxOptions <= 19`, since with 20 it is too small; that the
  text is whole or empty holds for every `MaxOptions`.
* What the formatter writes is what the parser reads (`LinesAreReadBack`). `LinesInv` says
  at each step whether a line is open or none is: before a piece that goes on with a line
  (`Within`), the line is its group, "(", and one field for each name shown, a "%" between
  any two (`Written`), the names have ascending places (`Orderly`), and those of the piece
  come later. Three groups of lemmas carry it: that `FlattenSeq` of the fields lays them out
  one behind the other, with the places where each ends (`Laid`); that the parts `GroupOf`
  cuts such a line into end at those places (`CutsAreEnds`, `LineIsRead`), because no name
  or value holds a separator; and that the pieces form lines (`PiecesLinked`): a piece that
  ends a line is followed by one that starts another, any other by one of the same group
  with later names, or, between fields that may be left out, by the close. The first fact
  lets "R=N" skip to the next group and still find the start of a line (`NextGroupStarts`).
  `Rank`, the order of the fields within their groups, makes the names of a line distinct.

### Comparison (`MatchingProofs`)

`CompareInv` says what the two loops have seen: the fields of the groups before the current
one, and the fields of its reference group before the current field. The counters are the
number, and sums, of the common fields among those. That a turn adds one field and not one
counted before needs that names occur once (`FingerprintAssumption`); that the sums do not
depend on the order in which fields are taken is shown for the recursive function on the
subsets of a finite set (`TotalAdds`), by induction on their size.

`ExpressionInv` speaks of the alternatives an expression was written from, which the loop
never sees: it is within one of them, those before it are settled (none outside brackets was
invalid, and `matched` tells whether one denotes the text), and `inside_brackets` is true
exactly if a bracket of this one is open. Four groups of lemmas carry it:

* numbers: `parse_hex_slice` yields the value of a text of digits or finds it too large,
  whatever leading zeros it has;
* texts: where the parts of a concatenation lie (`JoinedAt`, `WrittenAt`), that no plain
  alternative contains a bracket or bar, and that in an option list every bracket is closed
  and every bar is within one (`WellBracketed`); so the loop cuts at the joints and nowhere
  else;
* plain alternatives: what `match_plain` makes of each kind, by the sign it starts with or
  contains (`PlainMeaning`);
* option lists: after k brackets the walk of `match_helper` is behind the k-th bracket and
  behind the digits the text has for it, or has given the answer (`ListMatched`). The digits
  for a bracket are all that stand there, since what follows is no digit; that is why one
  walk without backtracking finds the only filling there can be (`TurnUnique`).

For an expression that no alternatives make, the brackets read so far pair (`UnmeantEnd`):
if the loop came to the end with all of them closed, all would pair.

### Only model-checked

* `Terminates`: liveness under fairness is beyond the prover.

## 5. Not modelled, and why

* Floating point: standard deviation and logarithms in SP and ISR, the frequency behind TS,
  the quotient of points in a score. TLC has no reals; control depends on them only through
  "can it be computed", which is modelled, and through the order of scores, which is
  arbitrary in FindOsMatches.
* Sequence numbers, windows, option bytes and payload bytes of the TCP and ICMP probes:
  neither filter nor matcher looks at them. The UDP probe is modelled byte by byte, since
  U1 is about what became of its bytes.
* The CRC32 over the payload of a reset: RD is known by the length of the payload, with
  the test that refuses more than a segment can hold; the polynomial is left out.
* Inside `GenerateAndMatch` of Scan the components are not run one after the other; each is
  checked on all inputs its predecessor can hand it (replies the matcher accepts, text
  the formatter writes), which are the interfaces of section 1.
* The messages of `main` are output. `nmap-os-db` is data: Formatter has
  the fields of its MatchPoints, the reader every kind of line in it. Tests and the
  Makefile are not part of the running program.

## 6. Plan

Done: every component of section 1 has a module and a run, and every invariant and action
property of the passing runs is proved. Left: a composition of Fingerprint, Formatter and
FindOsMatches in place of `GenerateAndMatch`.
