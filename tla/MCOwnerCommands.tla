---------------------------- MODULE MCOwnerCommands ----------------------------
(* Days of four minutes, weeks of three days, a window of two days.         *)
EXTENDS OwnerCommands

(* The views: the offset changes at any minute of a day and a half, by one  *)
(* or two minutes, forward or back, and once not at all.                    *)
MCZones == {z \in [at : 6..11, before : {0, 1}, after : -1..3] :
              WithinOneDay(z) /\ z.after - z.before \in -2..2}

Row(d, y, s, e, u) == [deadline |-> d, type |-> y, start |-> s, end |-> e, urgency |-> u]

MCRows ==
       {Row(d, y, None, None, "low") : d \in {8, 10, 11, 13}, y \in {"hard", None}}
  \cup {Row(None, None, s, e, None) : s \in {None, 8, 11}, e \in {None, 12}}
  \cup {Row(6, "soft", None, None, "high"), Row(15, "hard", 8, 9, "top_priority"),
        Row(None, None, 13, 15, "high"), Row(None, None, None, None, "top_priority")}

(* /remind: the offset changes at any minute of two days, and may skip a    *)
(* midnight.                                                                *)
MCRemindZones == {[at |-> t, before |-> b, after |-> b + d] :
                    t \in 5..12, b \in {-1, 0}, d \in {-2, -1, 1, 2}}
MCNows == 0..15
MCDates == -1..5
MCInstants == -8..51

(* /edit: the clocks go back within the second day.                         *)
MCBack == [at |-> 6, before |-> 1, after |-> 0]

Part(flag, word) == [flag |-> flag, word |-> word]
On(d, t) == [day |-> d, time |-> t]

MCEditedRows == {[title |-> "t", description |-> "d", category |-> None, deadline |-> d, type |-> y,
            start |-> s, end |-> e, estimate |-> n, urgency |-> None, tags |-> g] :
  <<d, y, s, e>> \in {<<None, None, None, None>>, <<4, "hard", None, None>>, <<9, None, 3, None>>,
                      <<None, None, None, 6>>, <<4, "soft", 3, 6>>, <<9, "hard", 6, 6>>},
  n \in {None, 7}, g \in {{}, {"a"}, {"a", "b"}}}

Worded ==
  {Part("-title", w) : w \in {"", " ", "u"}}
  \cup {Part("-description", w) : w \in {"", "d"}}
  \cup {Part("-category", w) : w \in {"home", "nowhere"}}
  \cup {Part("-deadline", w) : w \in {On(1, None), On(1, 2), Garbled}}
  \cup {Part("-deadline-type", w) : w \in {"hard", Garbled}}
  \cup {Part(f, w) : f \in {"-planned-start", "-planned-end"}, w \in {On(1, 0), On(1, 2), On(2, None)}}
  \cup {Part("-estimate", w) : w \in {0, 5, Garbled}}
  \cup {Part("-urgency", w) : w \in {"high", Garbled}}
  \cup {Part(f, w) : f \in {"-add-tag", "-remove-tag"}, w \in {"a", "b", "nowhere"}}
Clearing == {Part(f, None) : f \in
  {"-clear-description", "-clear-category", "-clear-deadline", "-clear-planned-start",
   "-clear-planned-end", "-clear-planned-window", "-clear-estimate", "-clear-urgency",
   "-clear-tags"}}
AllParts == Worded \cup Clearing

PlannedParts == {p \in AllParts : p.flag \in
  {"-planned-start", "-planned-end", "-clear-planned-start", "-clear-planned-window"}}

MCMessages ==
  {<<p>> : p \in AllParts} \cup {<<p, q>> : p, q \in AllParts}
  \cup {<<p, q, r>> : p, q, r \in PlannedParts}
=============================================================================
