----------------------------- MODULE EditCommand -----------------------------
(***************************************************************************)
(* The /edit command as a function: telegram/edit_command.py parses a      *)
(* message into updates, and edit_task_by_ref and update_task_fields of    *)
(* app/tasks.py turn the updates and the task they read into the row that  *)
(* is written.  A message is a sequence of parts, each a flag with its     *)
(* word, None for a flag that takes none; splitting the text into them is  *)
(* left out.                                                               *)
(***************************************************************************)
EXTENDS LocalTime, Sequences

CONSTANTS
  Garbled,     \* a word that cannot be read as what its flag wants
  UserZone,    \* the owner's zone
  Categories,  \* names of the owner's active categories
  TagNames     \* names of the owner's tags

ASSUME EditCommandAssumption ==
  /\ {None, Garbled} \cap (Int \cup STRING) = {} /\ None # Garbled
  /\ UserZone \in Zone
  /\ Categories \subseteq STRING \ {""} /\ TagNames \subseteq STRING \ {""}

(* The title of items, the columns of task_items, and the tags of the task. *)
Columns == {"title", "description", "category", "deadline", "type", "start", "end",
            "estimate", "urgency", "tags"}

RepeatableFlags == {"-add-tag", "-remove-tag"}

(* What a user types for a date: a day, with or without a time of day.      *)
DateWord == [day : Int, time : 0..Day - 1 \cup {None}]

(* _parse_local_date_or_datetime: a date alone is the last minute of it.    *)
WallOf(word) == word.day * Day + (IF word.time = None THEN Day - 1 ELSE word.time)
InstantOf(word) == LocalToUtc(UserZone, WallOf(word))

(* The words the parser accepts for a flag.                                 *)
Accepts(part) ==
  CASE part.flag = "-deadline" -> part.word \in DateWord
    [] part.flag \in {"-planned-start", "-planned-end"} ->
         part.word \in DateWord /\ part.word.time # None
    [] part.flag = "-deadline-type" -> part.word \in {"hard", "soft"}
    [] part.flag = "-urgency" -> part.word \in {"low", "medium", "high", "top_priority"}
    [] part.flag = "-estimate" -> part.word \in Nat \ {0}
    [] part.flag \in {"-title", "-category", "-add-tag", "-remove-tag"} -> part.word # ""
    [] OTHER -> TRUE

(* What a part puts into task_field_updates, category_name included.        *)
Sets(part) ==
  CASE part.flag = "-title" -> [title |-> part.word]
    [] part.flag = "-description" -> [description |-> part.word]
    [] part.flag = "-category" -> [category |-> part.word]
    [] part.flag = "-deadline" -> [deadline |-> InstantOf(part.word)]
    [] part.flag = "-deadline-type" -> [type |-> part.word]
    [] part.flag = "-planned-start" -> [start |-> InstantOf(part.word)]
    [] part.flag = "-planned-end" -> [end |-> InstantOf(part.word)]
    [] part.flag = "-estimate" -> [estimate |-> part.word]
    [] part.flag = "-urgency" -> [urgency |-> part.word]
    [] part.flag = "-clear-description" -> [description |-> None]
    [] part.flag = "-clear-category" -> [category |-> None]
    [] part.flag = "-clear-deadline" -> [deadline |-> None, type |-> None]
    [] part.flag = "-clear-planned-start" -> [start |-> None]
    [] part.flag = "-clear-planned-end" -> [end |-> None]
    [] part.flag = "-clear-planned-window" -> [start |-> None, end |-> None]
    [] part.flag = "-clear-estimate" -> [estimate |-> None]
    [] part.flag = "-clear-urgency" -> [urgency |-> None]
    [] OTHER -> << >>

(* _validate_conflicting_flags.                                             *)
ClashingOneToOne == {<<"-description", "-clear-description">>, <<"-category", "-clear-category">>,
                     <<"-deadline", "-clear-deadline">>,
                     <<"-planned-start", "-clear-planned-start">>,
                     <<"-planned-end", "-clear-planned-end">>,
                     <<"-estimate", "-clear-estimate">>, <<"-urgency", "-clear-urgency">>}
Clashing == {<<"-description", "-clear-description">>, <<"-category", "-clear-category">>,
             <<"-deadline", "-clear-deadline">>, <<"-deadline-type", "-clear-deadline">>,
             <<"-planned-start", "-clear-planned-start">>,
             <<"-planned-end", "-clear-planned-end">>,
             <<"-planned-start", "-clear-planned-window">>,
             <<"-planned-end", "-clear-planned-window">>,
             <<"-estimate", "-clear-estimate">>, <<"-urgency", "-clear-urgency">>}

Parts(m) == {m[i] : i \in DOMAIN m}
Flags(m) == {p.flag : p \in Parts(m)}
Words(m, flag) == {p.word : p \in {q \in Parts(m) : q.flag = flag}}

Parses(m) ==
  /\ m # << >>
  /\ \A p \in Parts(m) : Accepts(p)
  /\ \A i, j \in DOMAIN m : m[i].flag = m[j].flag /\ m[i].flag \notin RepeatableFlags => i = j
  /\ \A pair \in Clashing : ~(pair[1] \in Flags(m) /\ pair[2] \in Flags(m))
  /\ "-clear-tags" \in Flags(m) => Flags(m) \cap RepeatableFlags = {}
  /\ Words(m, "-add-tag") \cap Words(m, "-remove-tag") = {}

-----------------------------------------------------------------------------
(* task_field_updates: a later part overrides an earlier one.               *)
UpdatedFields(m) == UNION {DOMAIN Sets(p) : p \in Parts(m)}
LastSetter(m, f) == CHOOSE i \in DOMAIN m :
  /\ f \in DOMAIN Sets(m[i])
  /\ \A j \in DOMAIN m : f \in DOMAIN Sets(m[j]) => j <= i
Updates(m) == [f \in UpdatedFields(m) |-> Sets(m[LastSetter(m, f)])[f]]

(* The tags after the edit; without a tag flag they are not rewritten.      *)
TouchesTags(m) == Flags(m) \cap {"-add-tag", "-remove-tag", "-clear-tags"} # {}
NextTagsAnew(m, tags) == Words(m, "-add-tag") \ Words(m, "-remove-tag")
NextTagsToggled(m, tags) ==
  (tags \cup Words(m, "-add-tag"))
    \ ((tags \cap Words(m, "-add-tag")) \cup Words(m, "-remove-tag"))
NextTags(m, tags) ==
  ((IF "-clear-tags" \in Flags(m) THEN {} ELSE tags) \cup Words(m, "-add-tag"))
    \ Words(m, "-remove-tag")

(* edit_task_by_ref's and update_task_fields' lookups of names; the parser  *)
(* lets a title of spaces through, _validate_title does not.                *)
NamesExist(m) ==
  /\ Words(m, "-category") \subseteq Categories
  /\ Words(m, "-add-tag") \cup Words(m, "-remove-tag") \subseteq TagNames
  /\ " " \notin Words(m, "-title")

(* _validate_task_fields; an urgency, a type and an estimate come parsed.   *)
ValidatedFieldwise(row) == row.estimate # None => row.estimate > 0
Validated(row) ==
  /\ row.deadline = None => row.type = None
  /\ row.start # None /\ row.end # None => row.start <= row.end
  /\ row.estimate # None => row.estimate > 0

(* The columns update_task_fields writes, computed from the row it read.    *)
NextRow(m, row) ==
  [f \in DOMAIN row |-> CASE f = "tags" -> IF TouchesTags(m) THEN NextTags(m, row.tags)
                                                              ELSE row.tags
                          [] f # "tags" /\ f \in UpdatedFields(m) -> Updates(m)[f]
                          [] OTHER -> row[f]]

(* _require_active_category: the category to be written, named or not.      *)
CategoryActive(row) == row.category \in Categories \cup {None}

Accepted(m, row) ==
  /\ Parses(m) /\ NamesExist(m)
  /\ Validated(NextRow(m, row)) /\ CategoryActive(NextRow(m, row))
=============================================================================
