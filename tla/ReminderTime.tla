----------------------------- MODULE ReminderTime -----------------------------
(***************************************************************************)
(* parse_reminder_time_expression (app/reminder_time_parser.py): a request *)
(* ("tomorrow", a weekday or a date, with a time of day) made at some      *)
(* clock by an owner in some zone becomes a future instant or an error.    *)
(***************************************************************************)
EXTENDS LocalTime

CONSTANTS
  Week,         \* days of a week
  RemindZones,  \* the zones of owners; a change of a whole day, as Samoa's in
                \* 2011, is left out
  Nows,         \* the reference times of requests
  Dates,        \* the dates an expression may name
  Instants      \* the instants the properties look at: all of them or, for TLC,
                \* those that the zones and the requests come near

ASSUME ReminderTimeAssumption ==
  /\ Week \in Nat \ {0, 1}
  /\ RemindZones \subseteq {z \in Zone : High(z) - Low(z) < Day}
  /\ Nows \subseteq Int /\ Dates \subseteq Int
  /\ Instants \subseteq Int

TimesOfDay == 0..Day - 1

Expressions ==
       [kind : {"tomorrow"}, day : {0}, time : TimesOfDay]
  \cup [kind : {"weekday"}, day : 0..Week - 1, time : TimesOfDay]
  \cup [kind : {"date"}, day : Dates, time : TimesOfDay]

VARIABLES
  remindZone, expr, asked,  \* the request, and when it is made
  reply                     \* what the parser answers

remindVars == <<remindZone, expr, asked, reply>>

Unanswered == [is |-> "unanswered", at |-> 0, warning |-> "none"]
Past == [is |-> "past", at |-> 0, warning |-> "none"]
Answer(z, w) == [is |-> "future", at |-> Resolved(z, w), warning |-> Warning(z, w)]

RemindInit ==
  /\ remindZone \in RemindZones /\ expr \in Expressions /\ asked \in Nows
  /\ reply = Unanswered

-----------------------------------------------------------------------------
(* _resolve_weekday_date: today, when today is that weekday.                *)
DaysUntilAfterToday(weekday, date) == ((weekday - date - 1) % Week) + 1
DaysUntil(weekday, date) == (weekday - date) % Week

LocalCandidate(z, e, u) ==
  LET today == DateOf(Wall(z, u))
      date == CASE e.kind = "tomorrow" -> today + 1
                [] e.kind = "weekday" -> today + DaysUntil(e.day, today)
                [] e.kind = "date" -> e.day
  IN  date * Day + e.time

(* A weekday whose time has passed means the one of next week.              *)
Parse(z, e, u) ==
  LET w == LocalCandidate(z, e, u)
      next == w + Week * Day
  IN  IF Resolved(z, w) > u THEN Answer(z, w)
      ELSE IF e.kind = "weekday" /\ Resolved(z, next) > u THEN Answer(z, next)
      ELSE Past

ParseExpression ==
  /\ reply = Unanswered
  /\ reply' = Parse(remindZone, expr, asked)
  /\ UNCHANGED <<remindZone, expr, asked>>

RemindNext == ParseExpression

RemindSpec == RemindInit /\ [][RemindNext]_remindVars

-----------------------------------------------------------------------------
(* Properties, against the definition by the clocks on the wall.            *)

(* The first instant at which a clock on the wall shows w or later.         *)
FirstShowing(z, w) == CHOOSE u \in Instants :
  /\ Wall(z, u) >= w
  /\ \A v \in Instants : Wall(z, v) >= w => u <= v

Asked(e, u) ==
  LET today == DateOf(Wall(remindZone, u))
  IN  {d \in today..today + 2 * Week :
         \/ e.kind = "tomorrow" /\ d = today + 1
         \/ e.kind = "weekday" /\ d % Week = e.day}
      \cup (IF e.kind = "date" THEN {e.day} ELSE {})

Meant == {FirstShowing(remindZone, d * Day + expr.time) : d \in Asked(expr, asked)}

(* The answer is the next time, after now, that a clock in the owner's zone *)
(* first comes to what was asked for, and an error when there is none: a    *)
(* weekday, which has a next week, never is.                                *)
AnswerIsTheNextTime ==
  LET future == {u \in Meant : u > asked}
  IN  /\ reply.is = "future" => future # {} /\ reply.at = Earliest(future)
      /\ reply.is = "past" => future = {}

(* The confirmation's note on daylight saving is true of the time of day    *)
(* that was asked for: it comes twice on that day, or never.                *)
Shown == {u \in Instants : /\ Wall(remindZone, u) % Day = expr.time
                          /\ DateOf(Wall(remindZone, u)) = DateOf(Wall(remindZone, reply.at))}
WarningIsTrue == reply.is = "future" =>
  /\ reply.warning = "ambiguous_time_first_occurrence" <=> Cardinality(Shown) = 2
  /\ reply.warning = "nonexistent_time_moved_forward" <=> reply.at \notin Shown
=============================================================================
