---------------------------- MODULE DatabaseReader ----------------------------
(***************************************************************************)
(* The readers of src/src/database.c as find_os_matches calls them on one  *)
(* open file: read_match_weights until the first header, a rewind, then    *)
(* read_next_reference again and again until it has no more.  Each step is *)
(* one line of the file.  A reader that meets the header of the next       *)
(* reference leaves it for its next call with fsetpos.                     *)
(*                                                                         *)
(* A line is a record [kind, name, ...]:                                   *)
(*   blank      empty or a comment         points   the word MatchPoints   *)
(*   header     "Fingerprint <name>"       bare     "Fingerprint" alone    *)
(*   class      Class or CPE               text     anything unparseable   *)
(*   group      a group called name; decimal says whether its values are   *)
(*              numbers and its fields differ, as weights must.  A group   *)
(*              of weights stands for its (group, field) pairs: two groups *)
(*              of one name are taken to share a field                     *)
(***************************************************************************)
EXTENDS SequencesExt, Selection

FileLine ==
  [kind : {"blank", "points", "header", "bare", "class", "text", "group"},
   name : STRING, decimal : BOOLEAN]

CONSTANTS
  Files,        \* contents a database may have: sequences of lines
  MayFail       \* whether reads, allocations and file positions may fail

VARIABLES
  file,         \* the lines
  pos,          \* lines consumed
  phase,        \* "weights", "rewind", "references", "done"
  found,        \* the reader has met its first line of interest
  weights,      \* names of the groups weighted so far
  os_name,      \* name of the entry being read, <<>> before its header
  groups,       \* names of its groups
  entries,      \* what read_next_reference returned: [name, groups]
  failed,       \* a read, an allocation or a position failed (history)
  status        \* what the last reader returned

vars == <<file, pos, phase, found, weights, os_name, groups, entries,
          failed, status>>

Init ==
  /\ file \in Files /\ pos = 0 /\ phase = "weights" /\ found = FALSE
  /\ weights = <<>> /\ os_name = <<>> /\ groups = <<>>
  /\ entries = <<>> /\ failed = FALSE /\ status = 0

AtEof == pos = Len(file)
Line  == file[pos + 1]

Consume == pos' = pos + 1

(* The line buffer, the entry and its groups are freed, or the weights.    *)
Give(s) ==
  /\ phase' = "done" /\ status' = s
  /\ weights' = IF phase = "weights" THEN <<>> ELSE weights
  /\ os_name' = <<>> /\ groups' = <<>>
  /\ UNCHANGED <<file, pos, found, entries>>

(* getline, fgetpos, fsetpos, malloc, realloc or strdup reports a failure. *)
Fails ==
  /\ MayFail /\ phase \in {"weights", "references"}
  /\ failed' = TRUE
  /\ Give(-1)

-----------------------------------------------------------------------------
(* read_match_weights.                                                     *)

InWeights == phase = "weights" /\ ~AtEof

(* Before MatchPoints every line is passed over, after it blank ones are.  *)
WeightsSkip ==
  /\ InWeights
  /\ Line.kind = "blank" \/ (~found /\ Line.kind # "points")
  /\ Consume
  /\ UNCHANGED <<file, phase, found, weights, os_name, groups, entries, failed, status>>

WeightsBegin ==
  /\ InWeights /\ ~found /\ Line.kind = "points"
  /\ found' = TRUE /\ Consume
  /\ UNCHANGED <<file, phase, weights, os_name, groups, entries, failed, status>>

(* A group whose weights are numbers and new (add_group_weights).          *)
AcceptableWeights(l) ==
  l.kind = "group" /\ l.decimal /\ ~Contains(weights, l.name)

WeightsGroup ==
  /\ InWeights /\ found /\ AcceptableWeights(Line)
  /\ weights' = Append(weights, Line.name)
  /\ Consume
  /\ UNCHANGED <<file, phase, found, os_name, groups, entries, failed, status>>

(* A header with a name ends the section; "Fingerprint" alone does not.    *)
WeightsMalformed ==
  /\ InWeights /\ found
  /\ Line.kind \notin {"blank", "header"} /\ ~AcceptableWeights(Line)
  /\ Give(-1) /\ UNCHANGED failed

WeightsEnd ==
  /\ phase = "weights" /\ IF AtEof THEN TRUE ELSE found /\ Line.kind = "header"
  /\ IF weights = <<>> THEN Give(-1)
     ELSE /\ phase' = "rewind"
          /\ pos' = IF AtEof THEN pos ELSE pos + 1
          /\ UNCHANGED <<file, found, weights, os_name, groups, entries, status>>
  /\ UNCHANGED failed

(* find_os_matches: fseek to the start.                                    *)
Rewind ==
  /\ phase = "rewind"
  /\ phase' = "references" /\ pos' = 0 /\ found' = FALSE
  /\ UNCHANGED <<file, weights, os_name, groups, entries, failed, status>>

-----------------------------------------------------------------------------
(* read_next_reference.                                                    *)

InReferences == phase = "references" /\ ~AtEof
IsHeader     == Line.kind \in {"header", "bare"}

ReferenceSkip ==
  /\ InReferences /\ ~IsHeader
  /\ ~found \/ Line.kind \in {"blank", "class"}
  /\ Consume
  /\ UNCHANGED <<file, phase, found, weights, os_name, groups, entries, failed, status>>

ReferenceHeader ==
  /\ InReferences /\ ~found /\ Line.kind = "header"
  /\ found' = TRUE /\ os_name' = <<Line.name>> /\ Consume
  /\ UNCHANGED <<file, phase, weights, groups, entries, failed, status>>

(* Mutant: the last group only is compared with the new one.               *)
AcceptableGroup_last(l) ==
  l.kind = "group" /\ (groups # <<>> => groups[Len(groups)] # l.name)

AcceptableGroup(l) == l.kind = "group" /\ ~Contains(groups, l.name)

ReferenceGroup ==
  /\ InReferences /\ found /\ AcceptableGroup(Line)
  /\ groups' = Append(groups, Line.name) /\ Consume
  /\ UNCHANGED <<file, phase, found, weights, os_name, entries, failed, status>>

(* A name missing, a group twice, a line that is no group.                 *)
ReferenceMalformed ==
  /\ InReferences
  /\ \/ ~found /\ Line.kind = "bare"
     \/ found /\ ~IsHeader /\ Line.kind \notin {"blank", "class"} /\ ~AcceptableGroup(Line)
  /\ Give(-1) /\ UNCHANGED failed

(* Mutant: the position is taken behind the header, as it is after getline.*)
pos_after_entry_behind_header == IF AtEof THEN pos ELSE pos + 1

(* The file position before the next header was kept; the entry is handed  *)
(* to the caller, which compares and frees it and calls again.             *)
pos_after_entry == pos

ReferenceEnd ==
  /\ phase = "references" /\ found /\ IF AtEof THEN TRUE ELSE IsHeader
  /\ IF groups = <<>> THEN Give(-1)
     ELSE /\ entries' = Append(entries, [name |-> os_name[1], groups |-> groups])
          /\ status' = 1 /\ pos' = pos_after_entry
          /\ found' = FALSE /\ os_name' = <<>> /\ groups' = <<>>
          /\ UNCHANGED <<file, phase, weights>>
  /\ UNCHANGED failed

NoMoreReferences ==
  /\ phase = "references" /\ AtEof /\ ~found
  /\ Give(0) /\ UNCHANGED failed

Next == \/ Fails
        \/ WeightsSkip \/ WeightsBegin \/ WeightsGroup \/ WeightsMalformed
        \/ WeightsEnd \/ Rewind
        \/ ReferenceSkip \/ ReferenceHeader \/ ReferenceGroup
        \/ ReferenceMalformed \/ ReferenceEnd \/ NoMoreReferences

Spec == Init /\ [][Next]_vars

-----------------------------------------------------------------------------
(* What the file says, read all at once.                                   *)

Headers == Places({k \in DOMAIN file : file[k].kind \in {"header", "bare"}}, Len(file))

(* The lines of the h-th reference, up to the next header.                 *)
NextHeader(h) == IF h < Len(Headers) THEN Headers[h + 1] ELSE Len(file) + 1

LinesOf(h) == Selected(file, {k \in Headers[h] + 1 .. NextHeader(h) - 1 :
                                file[k].kind \notin {"blank", "class"}})

EntryOf(h) == [name   |-> file[Headers[h]].name,
               groups |-> [k \in DOMAIN LinesOf(h) |-> LinesOf(h)[k].name]]

WellFormed(h) ==
  /\ file[Headers[h]].kind = "header"
  /\ LinesOf(h) # <<>>
  /\ \A k \in DOMAIN LinesOf(h) : LinesOf(h)[k].kind = "group"
  /\ IsInjective(EntryOf(h).groups)

(* The references handed out are the well-formed references of the file, in*)
(* order: none is skipped or read twice although a reader has to read one  *)
(* line too many to know where an entry ends. Reading stops early only for *)
(* a reason: the first reference not handed out is malformed, or the system*)
(* failed.                                                                 *)
ReadsReferencesInOrder ==
  /\ Len(entries) <= Len(Headers)
  /\ \A h \in DOMAIN entries : WellFormed(h) /\ entries[h] = EntryOf(h)
  /\ phase = "done" /\ status = 0 => Len(entries) = Len(Headers)
  /\ phase = "done" /\ status = -1 /\ ~failed /\ weights # <<>>
       => Len(entries) < Len(Headers) /\ ~WellFormed(Len(entries) + 1)
=============================================================================
