-------------------------- MODULE ReminderPromise --------------------------
(***************************************************************************)
(* What the reminder feature promises a user, reminder by reminder: the    *)
(* lifecycle of its row, and how often Telegram took it.  A reminder is    *)
(* told only while an attempt is under way, is called sent only after it   *)
(* was told (at least once), and once settled never stirs again.           *)
(***************************************************************************)
EXTENDS Naturals

CONSTANT Reminders

VARIABLES
  life,   \* status of each reminder; "none" before it exists
  told    \* how often Telegram took it

Init ==
  /\ life = [r \in Reminders |-> "none"]
  /\ told = [r \in Reminders |-> 0]

Moves ==
  {<<"none", "pending">>} \cup
  {"pending"} \X {"processing", "cancelled"} \cup
  {"processing"} \X {"pending", "sent", "failed", "cancelled", "expired"}

Stays(r) == life'[r] = life[r] /\ told'[r] = told[r]

Tells(r) ==
  /\ life[r] = "processing" /\ life'[r] = "processing"
  /\ told'[r] = told[r] + 1

Lives(r) ==
  /\ <<life[r], life'[r]>> \in Moves
  /\ life'[r] = "sent" => told[r] > 0
  /\ told'[r] = told[r]

(* One transaction or message may concern several reminders.                *)
Next ==
  /\ \A r \in Reminders : Stays(r) \/ Tells(r) \/ Lives(r)
  /\ life' = [r \in Reminders |-> life'[r]]
  /\ told' = [r \in Reminders |-> told'[r]]

Spec == Init /\ [][Next]_<<life, told>>
=============================================================================
