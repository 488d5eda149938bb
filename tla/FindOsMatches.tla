---------------------------- MODULE FindOsMatches ----------------------------
(***************************************************************************)
(* The database search: find_os_matches reads the references one by one,   *)
(* scores each against the observed fingerprint, and retain_best_match     *)
(* keeps the best names in a bounded array sorted by score.  main then     *)
(* prints the array and frees it.                                          *)
(*                                                                         *)
(*   src/src/matcher.c    retain_best_match, find_os_matches, free_os_matches *)
(*   src/src/database.c   what its three readers may return                *)
(*                                                                         *)
(* What a reference scores is the business of compare_fingerprints; here   *)
(* it is any score, no points at all, or a failed comparison.  A score is  *)
(* a number that is only ever compared, so Scores may be any set of        *)
(* integers.  A retained name is a heap block of its own (strdup).         *)
(***************************************************************************)
EXTENDS Integers, FiniteSets, SequencesExt

CONSTANTS
  OsNames,      \* names of the reference fingerprints
  Scores,       \* scores a comparison can yield
  NoPoints,     \* a comparison of fingerprints that share no field
  Failed,       \* a comparison that ends in an error
  max_matches,  \* length of the array, an argument of find_os_matches
  MaxElements,  \* matches an address space has room for
  MaxSeen       \* bound: candidates considered

ASSUME MatchAssumption ==
  /\ Scores \subseteq Int /\ NoPoints \notin Scores /\ Failed \notin Scores
  /\ max_matches \in Nat /\ MaxElements \in Nat /\ MaxSeen \in Nat

VARIABLES
  pc,            \* where find_os_matches is
  held,          \* what it holds: the open file and the parsed structures
  entry,         \* the reference being looked at: none, or [name, score]
  best_matches,  \* the first match_count elements of the array
  names,         \* heap blocks of os_name strings the array has allocated
  result,        \* what find_os_matches returns
  seen           \* history: every candidate that scored points

vars == <<pc, held, entry, best_matches, names, result, seen>>

-----------------------------------------------------------------------------
(* retain_best_match.                                                      *)

Existing(m, name) == {i \in DOMAIN m : m[i].name = name}

(* Mutant: a full array is compared with its best element.                 *)
Ignored_beats_first(m, name, score) ==
  \/ \E i \in Existing(m, name) : m[i].score >= score
  \/ Existing(m, name) = {} /\ Len(m) = max_matches /\ score <= m[1].score

(* The name is there with a score at least as good, or is new and does not *)
(* beat the last of a full array.                                          *)
Ignored(m, name, score) ==
  \/ \E i \in Existing(m, name) : m[i].score >= score
  \/ Existing(m, name) = {} /\ Len(m) = max_matches /\ score <= m[Len(m)].score

(* Mutant: a full array makes no room for a new name.                      *)
Leaving_known_only(m, name) == Existing(m, name)

(* The element that makes room: the older entry of the same name, else the *)
(* last of a full array.                                                   *)
Leaving(m, name) == IF Existing(m, name) # {} THEN Existing(m, name)
                    ELSE IF Len(m) = max_matches THEN {Len(m)} ELSE {}

MakeRoom(m, name) ==
  IF Leaving(m, name) = {} THEN m
  ELSE RemoveAt(m, CHOOSE i \in Leaving(m, name) : TRUE)

(* Mutant: the newcomer goes before equal scores.                          *)
Positions_before_equals(m, score) ==
  {p \in 1 .. Len(m) + 1 : /\ \A i \in 1 .. p - 1 : m[i].score > score
                           /\ p <= Len(m) => m[p].score <= score}

(* The one place before the first lower score, after every other.          *)
Positions(m, score) ==
  {p \in 1 .. Len(m) + 1 : /\ \A i \in 1 .. p - 1 : m[i].score >= score
                           /\ p <= Len(m) => m[p].score < score}

Insert(m, new) == {InsertAt(m, p, new) : p \in Positions(m, new.score)}

(* One block more than the array holds: the copy is made before the old    *)
(* element is freed.                                                       *)
NameBlock == 0 .. max_matches

Named(c, block) == [name |-> c.name, score |-> c.score, block |-> block]

-----------------------------------------------------------------------------
Init ==
  /\ pc = "open"
  /\ held = {} /\ entry = <<>>
  /\ best_matches = <<>> /\ names = {}
  /\ result = 0
  /\ seen = <<>>

Return(r) == pc' = "returned" /\ result' = r

ArrayUnchanged == UNCHANGED <<best_matches, names, seen>>

OpenDatabase ==
  /\ pc = "open"
  /\ \/ pc' = "parse_observed" /\ held' = {"file"} /\ UNCHANGED result
     \/ Return(-1) /\ UNCHANGED held
  /\ UNCHANGED entry
  /\ ArrayUnchanged

(* A text without any group parses too, and allocates nothing.             *)
ParseObserved ==
  /\ pc = "parse_observed"
  /\ \/ pc' = "read_weights" /\ UNCHANGED result
        /\ held' \in {held, held \cup {"observed"}}
     \/ Return(-1) /\ held' = held \ {"file"}
  /\ UNCHANGED entry
  /\ ArrayUnchanged

ReadWeights ==
  /\ pc = "read_weights"
  /\ \/ pc' = "rewind" /\ held' = held \cup {"weights"} /\ UNCHANGED result
     \/ Return(-1) /\ held' = held \ {"file"}
  /\ UNCHANGED entry
  /\ ArrayUnchanged

(* An array without elements or too long to exist, or a fingerprint        *)
(* without groups, is refused with EXIT_FAILURE; nothing is closed or      *)
(* freed.                                                                  *)
Acceptable == max_matches \in 1 .. MaxElements /\ "observed" \in held

Refuse ==
  /\ pc = "rewind"
  /\ ~Acceptable
  /\ Return(1)
  /\ UNCHANGED <<held, entry>>
  /\ ArrayUnchanged

Rewind ==
  /\ pc = "rewind"
  /\ Acceptable
  /\ \/ pc' = "read" /\ UNCHANGED <<held, result>>
     \/ Return(-1) /\ held' = held \ {"file"}
  /\ UNCHANGED entry
  /\ ArrayUnchanged

(* read_next_reference yields an entry, and compare_fingerprints a score   *)
(* for it, or a score out of no points at all, or an error.                *)
ReadEntry ==
  /\ pc = "read"
  /\ Len(seen) < MaxSeen
  /\ entry' \in {<<[name |-> n, score |-> s]>> :
                   n \in OsNames, s \in Scores \cup {NoPoints, Failed}}
  /\ pc' = "compare"
  /\ UNCHANGED <<held, result>>
  /\ ArrayUnchanged

ReadEnd ==
  /\ pc = "read"
  /\ Return(0)
  /\ held' = held \ {"weights", "file"}
  /\ UNCHANGED entry
  /\ ArrayUnchanged

(* Every failure from here on gives up the matches found so far.           *)

(* Mutant: the array is freed but still counted.                           *)
GiveUp_keeps_count ==
  /\ Return(-1)
  /\ held' = held \ {"weights", "file"}
  /\ entry' = <<>>
  /\ names' = {}
  /\ UNCHANGED <<best_matches, seen>>

GiveUp ==
  /\ Return(-1)
  /\ held' = held \ {"weights", "file"}
  /\ entry' = <<>>
  /\ best_matches' = <<>> /\ names' = {}
  /\ UNCHANGED seen

ReadFails ==
  /\ pc = "read"
  /\ GiveUp

(* A reference that cannot be compared is skipped, one without points is   *)
(* ignored by retain_best_match.                                           *)
SkipEntry ==
  /\ pc = "compare"
  /\ Head(entry).score \in {NoPoints, Failed}
  /\ entry' = <<>>
  /\ pc' = "read"
  /\ UNCHANGED <<held, result>>
  /\ ArrayUnchanged

IgnoreEntry ==
  /\ pc = "compare"
  /\ Head(entry).score \in Scores
  /\ Ignored(best_matches, Head(entry).name, Head(entry).score)
  /\ seen' = Append(seen, Head(entry))
  /\ entry' = <<>>
  /\ pc' = "read"
  /\ UNCHANGED <<held, best_matches, names, result>>

(* Mutant: the name of the element that leaves is not freed.               *)
RetainEntry_leaks ==
  /\ pc = "compare"
  /\ Head(entry).score \in Scores
  /\ ~Ignored(best_matches, Head(entry).name, Head(entry).score)
  /\ \E b \in NameBlock \ names :
       /\ \A c \in NameBlock \ names : b <= c
       /\ best_matches' \in Insert(MakeRoom(best_matches, Head(entry).name),
                                  Named(Head(entry), b))
       /\ names' = names \cup {b}
  /\ seen' = Append(seen, Head(entry))
  /\ entry' = <<>>
  /\ pc' = "read"
  /\ UNCHANGED <<held, result>>

(* The name is copied, into the first free block, before the array is      *)
(* touched; then the element that leaves is freed.                         *)
RetainEntry ==
  /\ pc = "compare"
  /\ Head(entry).score \in Scores
  /\ ~Ignored(best_matches, Head(entry).name, Head(entry).score)
  /\ \E b \in NameBlock \ names :
       /\ \A c \in NameBlock \ names : b <= c
       /\ best_matches' \in Insert(MakeRoom(best_matches, Head(entry).name),
                                  Named(Head(entry), b))
       /\ names' = (names \cup {b})
                   \ {best_matches[i].block :
                        i \in Leaving(best_matches, Head(entry).name)}
  /\ seen' = Append(seen, Head(entry))
  /\ entry' = <<>>
  /\ pc' = "read"
  /\ UNCHANGED <<held, result>>

(* The name cannot be copied.                                              *)
RetainFails ==
  /\ pc = "compare"
  /\ Head(entry).score \in Scores
  /\ ~Ignored(best_matches, Head(entry).name, Head(entry).score)
  /\ GiveUp

(* main prints the matches if there are any to trust, then frees them.     *)
FreeMatches ==
  /\ pc = "returned"
  /\ best_matches' = <<>>
  /\ names' = names \ {best_matches[i].block : i \in DOMAIN best_matches}
  /\ pc' = "done"
  /\ UNCHANGED <<held, entry, result, seen>>

Terminated == pc = "done" /\ UNCHANGED vars

Next == OpenDatabase \/ ParseObserved \/ ReadWeights \/ Refuse \/ Rewind
          \/ ReadEntry \/ ReadEnd \/ ReadFails \/ SkipEntry \/ IgnoreEntry
          \/ RetainEntry \/ RetainFails \/ FreeMatches \/ Terminated

Spec == Init /\ [][Next]_vars

-----------------------------------------------------------------------------
Match == [name : OsNames, score : Scores, block : NameBlock]

Result == [name : OsNames, score : Scores]

(* Every variable has its type, and an entry is held exactly while it is   *)
(* compared (src/src/matcher.c:494-521).                                   *)
TypeOK ==
  /\ pc \in {"open", "parse_observed", "read_weights", "rewind", "read",
             "compare", "returned", "done"}
  /\ held \subseteq {"file", "observed", "weights"}
  /\ entry \in Seq([name : OsNames, score : Scores \cup {NoPoints, Failed}])
  /\ Len(entry) = IF pc = "compare" THEN 1 ELSE 0
  /\ best_matches \in Seq(Match) /\ Len(best_matches) <= max_matches
  /\ names \subseteq NameBlock
  /\ result \in {-1, 0, 1}
  /\ seen \in Seq(Result)

(* Each element of the array owns its name and nothing else is allocated:  *)
(* replacing, evicting and giving up free every name once, also when main  *)
(* frees the array again after a failure                                   *)
(* (src/src/matcher.c:403-421,510-535,542-551; src/src/main.c:168).        *)
NamesOwnedOnce ==
  /\ names = {best_matches[i].block : i \in DOMAIN best_matches}
  /\ \A i, j \in DOMAIN best_matches :
       best_matches[i].block = best_matches[j].block => i = j

(* The array is sorted, holds a name once, and misses no candidate: each   *)
(* one seen is there under its name with a score at least as good, or the  *)
(* array is full of scores at least as good (src/src/matcher.c:371-443).   *)
Sorted(m) == \A i, j \in DOMAIN m : i < j => m[i].score >= m[j].score

NamesDiffer(m) == \A i, j \in DOMAIN m : m[i].name = m[j].name => i = j

Covered(m, c) ==
  \/ \E i \in DOMAIN m : m[i].name = c.name /\ m[i].score >= c.score
  \/ Len(m) = max_matches /\ \A i \in DOMAIN m : m[i].score >= c.score

KeepsTheBest ==
  pc \in {"read", "compare"} \/ (pc = "returned" /\ result = 0) =>
    /\ Sorted(best_matches) /\ NamesDiffer(best_matches)
    /\ \A k \in DOMAIN seen : Covered(best_matches, seen[k])

(* After a failure no match is reported.  The database is left open by the *)
(* refusal of arguments and by no other return, and the weights are left   *)
(* behind only by failures before a reference was looked at                *)
(* (src/src/matcher.c:451-537).                                            *)
FailureReportsNothing ==
  pc = "returned" =>
    /\ result # 0 => best_matches = <<>>
    /\ "file" \in held <=> result = 1
    /\ "weights" \in held => result # 0 /\ seen = <<>>

(* "@return 0 on success, -1 on error." (src/src/matcher.c:449)            *)
ReturnsDocumentedStatus == result \in {0, -1}

-----------------------------------------------------------------------------
(* The bounded array implements the report over the whole history: ties,   *)
(* repeated names and evicted names included.                              *)
Top == INSTANCE TopMatches
         WITH report <- [i \in DOMAIN best_matches |->
                           [name  |-> best_matches[i].name,
                            score |-> best_matches[i].score]]

ReportsTheTop == Top!Spec
=============================================================================
