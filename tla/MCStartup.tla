------------------------------ MODULE MCStartup ------------------------------
(* Two tasks and a note of one owner, the tasks created at the same time;   *)
(* the allowlist may be empty, one id, or two in either order.              *)
EXTENDS Startup

MCProcesses == {"bot", "tool"}
MCItems == 1..3
MCKindOf == <<"task", "task", "note">>
MCCreatedAt == <<1, 1, 1>>
MCTelegramIds == {"ann", "bob"}
MCAllowLists == {<<>>, <<"ann">>, <<"ann", "bob">>, <<"bob", "ann">>}

(* One task alone and a shorter choice of allowlists, for the run under fairness that fails. *)
MCOneTask == {1}
MCKindOfOne == <<"task">>
MCCreatedAtOne == <<1>>
MCAllowListsLive == {<<"ann">>, <<"bob", "ann">>}
=============================================================================
