------------------------------ MODULE TaskViews ------------------------------
(***************************************************************************)
(* The task views of app/tasks.py: /today (get_focus_today), /due          *)
(* (list_due_tasks) and /urgent (list_urgent_tasks), for one owner whose   *)
(* zone may change its clocks, as time goes by and tasks are finished.     *)
(***************************************************************************)
EXTENDS LocalTime, Sequences

CONSTANTS
  Window,    \* days the /due window reaches: midnight of today + Window
  Zones,     \* the zones of owners
  Rows,      \* the tasks an owner may have, validated
  Refs,      \* the numbers of the owner's tasks
  FirstNow,  \* the clock starts here
  LastNow    \* bound on the clock

Instant == Int \cup {None}
Task == [deadline : Instant, type : {"hard", "soft", None}, start : Instant, end : Instant,
         urgency : {"low", "medium", "high", "top_priority", None}]

Reasons == {"overdue", "due today", "hard due tomorrow", "planned today", "urgent undated"}

ASSUME TaskViewsAssumption ==
  /\ None \notin Int \cup Reasons \cup {"hard", "soft", "low", "medium", "high", "top_priority"}
  /\ Window \in Nat \ {0}
  /\ Zones \subseteq {z \in Zone : WithinOneDay(z)}
  /\ Rows \subseteq {r \in Task : r.start # None /\ r.end # None => r.start <= r.end}
  /\ Refs \subseteq Nat
  /\ FirstNow \in Int /\ LastNow \in Int /\ FirstNow <= LastNow

VARIABLES
  zone,    \* users.timezone
  task,    \* the rows, by number
  active,  \* the numbers list_active_tasks returns
  now

viewVars == <<zone, task, active, now>>

ViewsInit ==
  /\ zone \in Zones /\ task \in [Refs -> Rows]
  /\ active = Refs
  /\ now = FirstNow

-----------------------------------------------------------------------------
(* The two views' readings of the clock and of a deadline.                  *)

Today == DateOf(Wall(zone, now))

(* datetime.combine(local_now.date() + timedelta(days=k), time.min, zone).  *)
StartOfDayBy24Hours(k) == LocalToUtc(zone, Today * Day) + k * Day
StartOfDay(k) == LocalToUtc(zone, (Today + k) * Day)

Dated(t) == task[t].deadline # None

OverdueByTheWall(t) == Wall(zone, task[t].deadline) < Wall(zone, now)
Overdue(t) == task[t].deadline < now

(* list_due_tasks.                                                          *)
Due == {t \in active : Dated(t) /\ task[t].deadline < StartOfDay(Window)}

Timing(t) ==
  CASE Overdue(t) -> "overdue"
    [] ~Overdue(t) /\ DateOf(Wall(zone, task[t].deadline)) = Today -> "due today"
    [] OTHER -> "upcoming"

(* _planned_window_overlaps_today.                                          *)
PlannedTodayClosed(t) ==
  /\ task[t].start # None \/ task[t].end # None
  /\ task[t].start # None => task[t].start <= StartOfDay(1)
  /\ task[t].end # None => task[t].end > StartOfDay(0)
PlannedToday(t) ==
  /\ task[t].start # None \/ task[t].end # None
  /\ task[t].start # None => task[t].start < StartOfDay(1)
  /\ task[t].end # None => task[t].end > StartOfDay(0)

(* get_focus_today: the first reason that holds.                            *)
Reason(t) ==
  IF Dated(t) /\ Overdue(t) THEN "overdue"
  ELSE IF Dated(t) /\ task[t].deadline < StartOfDay(1) THEN "due today"
  ELSE IF Dated(t) /\ task[t].type = "hard" /\ task[t].deadline < StartOfDay(2)
       THEN "hard due tomorrow"
  ELSE IF PlannedToday(t) THEN "planned today"
  ELSE IF ~Dated(t) /\ task[t].urgency \in {"high", "top_priority"} THEN "urgent undated"
  ELSE None

Focus == {t \in active : Reason(t) # None}
Urgent == {t \in active : task[t].urgency \in {"high", "top_priority"}}

(* The sort keys of the two views, compared as Python compares tuples.      *)
ReasonPriority == [r \in Reasons |->
  CASE r = "overdue" -> 0 [] r = "due today" -> 1 [] r = "hard due tomorrow" -> 2
    [] r = "planned today" -> 3 [] r = "urgent undated" -> 4]
UrgencyPriority(u) == CASE u = "top_priority" -> 0 [] u = "high" -> 1 [] OTHER -> 2

ScheduledAt(t) ==
  CASE Dated(t) -> <<0, task[t].deadline>>
    [] ~Dated(t) /\ task[t].start # None -> <<0, task[t].start>>
    [] ~Dated(t) /\ task[t].start = None /\ task[t].end # None -> <<0, task[t].end>>
    [] OTHER -> <<1, 0>>

FocusKeyByUrgency(t) == <<UrgencyPriority(task[t].urgency), ReasonPriority[Reason(t)]>>
                          \o ScheduledAt(t) \o <<t>>
FocusKey(t) == <<ReasonPriority[Reason(t)]>> \o ScheduledAt(t)
                 \o <<UrgencyPriority(task[t].urgency), t>>
DueKey(t) == <<task[t].deadline, t>>

Sorted(key, other) == \E i \in DOMAIN key :
  key[i] < other[i] /\ \A j \in 1..i - 1 : key[j] = other[j]

-----------------------------------------------------------------------------
Tick ==
  /\ now < LastNow
  /\ now' = now + 1
  /\ UNCHANGED <<zone, task, active>>

Finish(t) ==
  /\ t \in active
  /\ active' = active \ {t}
  /\ UNCHANGED <<zone, task, now>>

Reopen(t) ==
  /\ t \in Refs \ active
  /\ active' = active \cup {t}
  /\ UNCHANGED <<zone, task, now>>

ViewsNext == Tick \/ \E t \in Refs : Finish(t) \/ Reopen(t)

ViewsSpec == ViewsInit /\ [][ViewsNext]_viewVars

-----------------------------------------------------------------------------
(* Properties.                                                              *)

DeadlineDate(t) == DateOf(Wall(zone, task[t].deadline))

(* /due is what is overdue or due on one of the owner's calendar dates of   *)
(* the window, and both views call a deadline overdue, due today or due     *)
(* tomorrow by the calendar of the owner, whatever the clocks did between.  *)
DeadlinesByDate == \A t \in active : Dated(t) =>
  /\ t \in Due <=> DeadlineDate(t) < Today + Window
  /\ Timing(t) = "due today" <=> ~Overdue(t) /\ DeadlineDate(t) = Today
  /\ Reason(t) = "overdue" <=> Overdue(t)
  /\ Reason(t) = "due today" <=> ~Overdue(t) /\ DeadlineDate(t) = Today
  /\ Reason(t) = "hard due tomorrow" <=>
       DeadlineDate(t) = Today + 1 /\ task[t].type = "hard"

(* A period of planned work puts an undated task in /today on exactly the   *)
(* local dates at some moment of which the work is planned.                 *)
Moments == {u \in FirstNow - 3 * Day..LastNow + 3 * Day : DateOf(Wall(zone, u)) = Today}
WorkPlanned(t, u) == /\ task[t].start = None \/ task[t].start <= u
                     /\ task[t].end = None \/ u < task[t].end
PlannedByDay == \A t \in active :
  ~Dated(t) /\ task[t].start # task[t].end =>
     (Reason(t) = "planned today" <=> \E u \in Moments : WorkPlanned(t, u))

(* The two lists never disagree on which of two deadlines comes first: what *)
(* /today shows because of its deadline it shows in the order of /due.      *)
ByDeadline == {t \in Focus : Reason(t) \in {"overdue", "due today", "hard due tomorrow"}}
ListsAgree ==
  /\ Window > 1 => ByDeadline \subseteq Due
  /\ \A a, b \in ByDeadline : task[a].deadline < task[b].deadline =>
       Sorted(FocusKey(a), FocusKey(b)) /\ Sorted(DueKey(a), DueKey(b))
  /\ {t \in Urgent : ~Dated(t)} \subseteq Focus

(* While a task stays active its deadline only comes closer: it never       *)
(* leaves /due, and it goes from upcoming to due today to overdue and never *)
(* back, also in the hour that the clocks show twice.                       *)
Stage(t) == CASE Timing(t) = "upcoming" -> 0
              [] Timing(t) = "due today" -> 1
              [] Timing(t) = "overdue" -> 2
DeadlinesOnlyApproach == [][\A t \in active \cap active' : t \in Due =>
                              t \in Due' /\ Stage(t) <= Stage(t)']_viewVars
=============================================================================
