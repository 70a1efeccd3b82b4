------------------------------ MODULE MCTwoBots ------------------------------
(* One or two reminders of one task, due at once.                           *)
EXTENDS TwoBots

One == {1}
OneTask == <<1>>
OneSched == <<1>>
OneOwner == <<"ann">>
MCAllowLists == {{"ann"}, {}}
MCRetryDelay == <<1, 1, 1>>
=============================================================================
