------------------------------ MODULE LocalTime ------------------------------
(***************************************************************************)
(* Local time (time_utils.py and the resolution of local times in          *)
(* app/reminder_time_parser.py).  An instant and a wall time are numbers   *)
(* of minutes; a zone is one change of the offset from UTC, forward (a gap *)
(* of wall times that do not exist) or back (an overlap of wall times that *)
(* come twice).  ZoneInfo has many changes, but months lie between them.   *)
(***************************************************************************)
EXTENDS Integers, FiniteSets

CONSTANTS
  Day,   \* minutes of a calendar day
  None   \* NULL, for the modules that keep instants

ASSUME DayAssumption == Day \in Nat \ {0}

Zone == [at : Int, before : Int, after : Int]

(* astimezone(zone): the offset changes at the instant z.at.                *)
Offset(z, u) == IF u < z.at THEN z.before ELSE z.after
Wall(z, u) == u + Offset(z, u)

DateOf(w) == w \div Day

(* The wall times the change concerns: those of the gap, or of the overlap. *)
Low(z) == z.at + (IF z.before < z.after THEN z.before ELSE z.after)
High(z) == z.at + (IF z.before < z.after THEN z.after ELSE z.before)

(* A change of clocks that stays within one calendar day.                   *)
WithinOneDay(z) == Low(z) < High(z) => DateOf(Low(z)) = DateOf(High(z) - 1)

(* replace(tzinfo=zone, fold=f).astimezone(utc): fold 0 keeps the offset    *)
(* before the change for every wall time concerned, fold 1 the one after.   *)
ToUtc(z, w, f) == IF w < (IF f = 0 THEN High(z) ELSE Low(z)) THEN w - z.before
                                                             ELSE w - z.after

(* local_to_utc of a naive datetime.                                        *)
LocalToUtc(z, w) == ToUtc(z, w, 0)

(* _find_valid_utc_candidates: the folds that come back to the wall time.   *)
Candidates(z, w) == {u \in {ToUtc(z, w, 0), ToUtc(z, w, 1)} : Wall(z, u) = w}

Earliest(S) == CHOOSE u \in S : \A v \in S : u <= v

(* _resolve_nonexistent_local_datetime: the first of the next 24 hours'     *)
(* minutes that exists.                                                     *)
NextMinutes(z, w) == {m \in w + 1..w + Day : Candidates(z, m) # {}}
NextMinute(z, w) == Earliest(NextMinutes(z, w))

(* _resolve_local_datetime.                                                 *)
Resolved(z, w) ==
  IF Candidates(z, w) # {} THEN Earliest(Candidates(z, w))
                           ELSE Earliest(Candidates(z, NextMinute(z, w)))

WarningByOffsets(z, w) ==
  IF ToUtc(z, w, 0) # ToUtc(z, w, 1) THEN "ambiguous_time_first_occurrence" ELSE "none"
Warning(z, w) ==
  CASE Candidates(z, w) = {} -> "nonexistent_time_moved_forward"
    [] Cardinality(Candidates(z, w)) = 2 -> "ambiguous_time_first_occurrence"
    [] OTHER -> "none"
=============================================================================
