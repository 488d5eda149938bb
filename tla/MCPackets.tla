----------------------------- MODULE MCPackets -----------------------------
(***************************************************************************)
(* What surrounds the scan, in one run: a behaviour is the start of main,  *)
(* one checksum stored and verified, one frame parsed, or one option field *)
(* walked twice, and the variables of the others stay as they are.  Those  *)
(* of OptionWalk rest in the initial state of an empty field, the others   *)
(* keep the value IDLE.                                                    *)
(***************************************************************************)
EXTENDS MCOptionWalk

CONSTANTS
  Arguments, Sources, InterfaceLists, UINT16_MAX, ULONG_MAX,    \* Startup
  Messages, BYTE,                                               \* Checksum
  Frames,                                                       \* PacketBytes
  IDLE

VARIABLES
  part,
  argument, tokens, ports, source, name, interfaces, held,      \* Startup
  message, field, is_udp, pass, at, sum, sent, result,          \* Checksum
  frame, copied, status, extent,                                \* PacketBytes
  next                         \* place of Startup or PacketBytes

start_vars    == <<argument, tokens, ports, source, name, interfaces, held>>
checksum_vars == <<message, field, is_udp, pass, at, sum, sent, result>>
bytes_vars    == <<frame, copied, status, extent>>

Start == INSTANCE MCStartup WITH pc <- next
Sum   == INSTANCE Checksum
Bytes == INSTANCE MCPacketBytes WITH pc <- next, reach <- extent

(* Arguments of any symbols, and an unsigned long that holds more than a   *)
(* port does, so that what saturates is no port.                           *)
ASSUME ArgumentAssumption == Arguments \subseteq Seq(STRING)
ASSUME LimitAssumption    == /\ UINT16_MAX \in Nat /\ ULONG_MAX \in Nat
                             /\ UINT16_MAX < ULONG_MAX

(* Any byte with more than one value, and messages of any length.          *)
ASSUME ByteAssumption    == BYTE \in Nat /\ BYTE >= 2
ASSUME MessageAssumption == Messages \subseteq Seq(0 .. BYTE - 1)

(* The fields of a captured frame hold what fits them.                     *)
ASSUME FrameAssumption == Frames \subseteq Bytes!Frame

StartIdle    == /\ argument = IDLE /\ tokens = IDLE /\ ports = IDLE
                /\ source = IDLE /\ name = IDLE /\ interfaces = IDLE /\ held = IDLE
ChecksumIdle == /\ message = IDLE /\ field = IDLE /\ is_udp = IDLE /\ pass = IDLE
                /\ at = IDLE /\ sum = IDLE /\ sent = IDLE /\ result = IDLE
BytesIdle    == frame = IDLE /\ copied = IDLE /\ status = IDLE /\ extent = IDLE
OptionsIdle  == /\ options = <<>> /\ pc = "parse" /\ i = 0 /\ stop = 0 /\ timestamp = {}
                /\ seen = <<>> /\ reach = 0 /\ ops = <<>> /\ ops_index = 0
                /\ verdict = "none"

InitPart ==
  \/ /\ part = "start" /\ Start!Init
     /\ OptionsIdle /\ ChecksumIdle /\ BytesIdle
  \/ /\ part = "checksum" /\ Sum!Init
     /\ OptionsIdle /\ StartIdle /\ BytesIdle /\ next = IDLE
  \/ /\ part = "bytes" /\ Bytes!Init
     /\ OptionsIdle /\ StartIdle /\ ChecksumIdle
  \/ /\ part = "options" /\ Init
     /\ StartIdle /\ ChecksumIdle /\ BytesIdle /\ next = IDLE

NextPart ==
  \/ part = "start" /\ Start!Next
       /\ UNCHANGED <<part, vars, checksum_vars, bytes_vars>>
  \/ part = "checksum" /\ Sum!Next
       /\ UNCHANGED <<part, vars, start_vars, bytes_vars, next>>
  \/ part = "bytes" /\ Bytes!Next
       /\ UNCHANGED <<part, vars, start_vars, checksum_vars>>
  \/ part = "options" /\ Next
       /\ UNCHANGED <<part, start_vars, checksum_vars, bytes_vars, next>>

SpecPart ==
  InitPart /\ [][NextPart]_<<part, vars, start_vars, checksum_vars, bytes_vars, next>>

-----------------------------------------------------------------------------
(* What the run checks them on; the messages have two to five bytes: the   *)
(* leftover byte, sums that carry once and twice, sums that are all ones.  *)
StartData == INSTANCE MCStartup
               WITH pc <- next, Arguments <- {}, InterfaceLists <- {}
BytesData == INSTANCE MCPacketBytes WITH pc <- next, reach <- extent, Frames <- {}

MCArguments == StartData!MCArguments
MCLists     == StartData!MCLists
MCFrames    == BytesData!MCFrames
MCMessages  == UNION {[1 .. n -> 0 .. BYTE - 1] : n \in 2 .. 5}

-----------------------------------------------------------------------------
(* A scan starts only with the two different ports the argument says.      *)
ScansTwoGivenPorts == part = "start" => Start!ScansTwoGivenPorts

(* Every query is answered for the source address, and nothing stays open. *)
CapturesWhereItSends == part = "start" => Start!CapturesWhereItSends

(* A stored checksum verifies when the message comes back, and only then.  *)
VerifiesIfIntact == part = "checksum" => Sum!VerifiesIfIntact

(* What is stored is the ones' complement sum, however it was folded.      *)
IsOnesComplement == part = "checksum" => Sum!IsOnesComplement

(* The parser reads no byte behind the captured ones.                      *)
ReadsInsideCapture == part = "bytes" => Bytes!ReadsInsideCapture

(* Options and payload are copied to the end of the datagram, no further.  *)
DeliversTheDatagram == part = "bytes" => Bytes!DeliversTheDatagram
=============================================================================
