-------------------------- MODULE MCReminderStore --------------------------
(* A table of two reminders that compete for one slot of one task.  All     *)
(* retry delays are one tick, so that four attempts fit below MaxTime.      *)
EXTENDS ReminderStore

MCTasks == {1}
MCReminders == 1..2
MCTaskOf == <<1, 1>>
MCOwnerOf == <<"ann">>
MCSchedOf == <<1, 1>>
MCRetryDelay == <<1, 1, 1>>
=============================================================================
