------------------------------- MODULE MCText -------------------------------
(***************************************************************************)
(* Everything that writes or reads the syntax of fingerprints, in one run: *)
(* a behaviour is one call of format_os_fingerprint, of the parser of one  *)
(* line, of the reader of an observed fingerprint, or one pass over a      *)
(* database.  The variables of the others stay as they are.                *)
(***************************************************************************)
EXTENDS Formatter

CONSTANTS
  Lines, Texts, Files,     \* what the parser and the two readers are given
  MayFail, IDLE

VARIABLES
  part,
  place, pc, parsed_group,                                \* GroupParser
  observed_text, parsed,                                  \* ObservedReader
  file, phase, found, weights, os_name, entries, failed, status,
                                                          \* DatabaseReader
  pos, groups, held, refused, outcome                     \* of several

group_vars    == <<place, pc, parsed_group>>
observed_vars == <<observed_text, parsed>>
database_vars == <<file, phase, found, weights, os_name, entries, failed, status>>

Parser   == INSTANCE MCGroupParser
              WITH line <- place, group <- parsed_group, result <- outcome
Observed == INSTANCE MCObservedReader
              WITH text <- observed_text, line <- place, result <- outcome
Database == INSTANCE MCDatabaseReader

ASSUME LineAssumption == Lines \subseteq Seq(STRING) /\ Texts \subseteq Seq(STRING)
ASSUME FileAssumption == Files \subseteq Seq(Database!FileLine)

(* The table of Formatter has the length of every name that is written.    *)
ASSUME LettersAssumption ==
  \A k \in DOMAIN Pieces :
    \A name \in {Pieces[k].group} \cup ToSet(Pieces[k].names) : Letters(name) = Len(name)

(* The texts and files of the run.                                         *)
ParserData   == INSTANCE MCGroupParser
                  WITH line <- place, group <- parsed_group, result <- outcome, Lines <- {}
ObservedData == INSTANCE MCObservedReader
                  WITH text <- observed_text, line <- place, result <- outcome, Texts <- {}
DatabaseData == INSTANCE MCDatabaseReader WITH Files <- {}

MCLines == ParserData!MCLines
MCTexts == ObservedData!MCTexts
MCFiles == DatabaseData!MCFiles

FormatIdle   == /\ capacity = MAX_FINGERPRINT_LENGTH /\ long = FALSE /\ at = 1 /\ first = TRUE
                /\ used = 0 /\ stored = 0 /\ line = <<>> /\ shown = <<>>
                /\ result = RUNNING
GroupIdle    == pc = IDLE /\ parsed_group = IDLE
ObservedIdle == observed_text = IDLE /\ parsed = IDLE
DatabaseIdle == /\ file = IDLE /\ phase = IDLE /\ found = IDLE /\ weights = IDLE
                /\ os_name = IDLE /\ entries = IDLE /\ failed = IDLE /\ status = IDLE

InitPart ==
  \/ /\ part = "format" /\ Init
     /\ GroupIdle /\ ObservedIdle /\ DatabaseIdle
     /\ place = IDLE /\ pos = IDLE /\ groups = IDLE
     /\ held = IDLE /\ refused = IDLE /\ outcome = IDLE
  \/ /\ part = "group" /\ Parser!Init
     /\ FormatIdle /\ ObservedIdle /\ DatabaseIdle /\ groups = IDLE
  \/ /\ part = "observed" /\ Observed!Init
     /\ FormatIdle /\ GroupIdle /\ DatabaseIdle /\ pos = IDLE
  \/ /\ part = "database" /\ Database!Init
     /\ FormatIdle /\ GroupIdle /\ ObservedIdle
     /\ place = IDLE /\ held = IDLE /\ refused = IDLE /\ outcome = IDLE

NextPart ==
  \/ part = "format" /\ Next
       /\ UNCHANGED <<part, group_vars, observed_vars, database_vars,
                      pos, groups, held, refused, outcome>>
  \/ part = "group" /\ Parser!Next
       /\ UNCHANGED <<part, vars, observed_vars, database_vars, groups>>
  \/ part = "observed" /\ Observed!Next
       /\ UNCHANGED <<part, vars, pc, parsed_group, database_vars, pos>>
  \/ part = "database" /\ Database!Next
       /\ UNCHANGED <<part, vars, group_vars, observed_vars, held, refused, outcome>>

SpecPart ==
  InitPart /\ [][NextPart]_<<part, vars, group_vars, observed_vars, database_vars,
                             pos, groups, held, refused, outcome>>

-----------------------------------------------------------------------------
(* A line is read as the group it is, and an observed fingerprint as the   *)
(* groups of its lines, whatever the symbols and their order; what is      *)
(* neither is refused.                                                     *)
ReadsWhatIsWritten == /\ part = "group" => Parser!ParsesGroups
                      /\ part = "observed" => Observed!ReadsEveryLine

(* Whichever allocation fails, no block is lost and none is freed twice,   *)
(* neither those of one line nor those of the lines before it.             *)
BlocksAccounted == /\ part = "group" => Parser!BlocksAccounted
                   /\ part = "observed" => Observed!NothingElseHeld

(* The references handed to the search are those of the file, in order, up *)
(* to the first malformed one.                                             *)
ReadsReferencesInOrder == part = "database" => Database!ReadsReferencesInOrder
=============================================================================
