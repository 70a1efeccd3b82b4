----------------------------- MODULE MCTaskRecord -----------------------------
(* The columns that the validation relates, a title, a tag and an estimate. *)
EXTENDS TaskRecord, TLC

(* The bots are alike.                                                      *)
BotSymmetry == Permutations(Bots)

MCZone == [at |-> 6, before |-> 1, after |-> 0]

Part(flag, word) == [flag |-> flag, word |-> word]
On(d, t) == [day |-> d, time |-> t]

MCRows == {[title |-> "t", description |-> None, category |-> None, deadline |-> d, type |-> y,
            start |-> None, end |-> None, estimate |-> None, urgency |-> None, tags |-> {}] :
              <<d, y>> \in {<<None, None>>, <<9, None>>, <<9, "hard">>}}

MCCommands == {<<Part("-title", "u"), Part("-add-tag", "a")>>, <<Part("-clear-tags", None)>>,
               <<Part("-deadline", On(1, None))>>, <<Part("-deadline-type", "hard")>>,
               <<Part("-clear-deadline", None)>>,
               <<Part("-planned-start", On(1, 2))>>, <<Part("-planned-end", On(1, 0))>>,
               <<Part("-clear-planned-start", None)>>, <<Part("-clear-planned-end", None)>>}
=============================================================================
