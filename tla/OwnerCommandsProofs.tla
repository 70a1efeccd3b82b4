-------------------------- MODULE OwnerCommandsProofs --------------------------
(***************************************************************************)
(* Theorems about OwnerCommands, for any zones, tasks, messages, windows   *)
(* and expressions: what the conversions of local time mean, that the      *)
(* views follow the owner's calendar and agree with each other, that an    *)
(* edit does what its flags say whatever their order, and that /remind     *)
(* answers with the next time and a true warning.                          *)
(***************************************************************************)
EXTENDS OwnerCommands, FiniteSetTheorems, SequenceTheorems, WellFoundedInduction, TLAPS

-----------------------------------------------------------------------------
(* PART 1: local time.  What the conversions of LocalTime mean, for every   *)
(* zone, every instant and every length of a day.                           *)

(* A date and its first minute: the division by a day, in the two           *)
(* directions that the views use it.                                        *)
LEMMA DateBounds ==
  ASSUME NEW w \in Int
  PROVE  /\ DateOf(w) \in Int
         /\ DateOf(w) * Day <= w
         /\ w < (DateOf(w) + 1) * Day
  BY DayAssumption, Z3 DEF DateOf

LEMMA MultiplesInOrder ==
  ASSUME NEW c \in Int, NEW d \in Int, c <= d
  PROVE  c * Day <= d * Day
  BY DayAssumption, Z3

LEMMA DateBefore ==
  ASSUME NEW w \in Int, NEW d \in Int
  PROVE  DateOf(w) < d <=> w < d * Day
  <1> DEFINE c == DateOf(w)
  <1>1. c \in Int /\ c * Day <= w /\ w < (c + 1) * Day
    BY DateBounds
  <1>2. /\ c * Day \in Int /\ (c + 1) * Day \in Int /\ d * Day \in Int
    BY <1>1, DayAssumption
  <1>3. CASE c < d
    <2>1. (c + 1) * Day <= d * Day
      BY <1>1, <1>3, MultiplesInOrder
    <2> QED
      BY <1>1, <1>2, <1>3, <2>1
  <1>4. CASE d <= c
    <2>1. d * Day <= c * Day
      BY <1>1, <1>4, MultiplesInOrder
    <2> QED
      BY <1>1, <1>2, <1>4, <2>1
  <1> QED
    BY <1>1, <1>3, <1>4

-----------------------------------------------------------------------------
LEMMA WallTypes ==
  ASSUME NEW z \in Zone, NEW u \in Int
  PROVE  Wall(z, u) \in Int /\ Low(z) \in Int /\ High(z) \in Int /\ Low(z) <= High(z)
  BY DEF Zone, Wall, Offset, Low, High

(* _find_valid_utc_candidates finds exactly the instants at which a clock   *)
(* in the zone shows the wall time: none in a gap, two in an overlap.       *)
THEOREM CandidatesAreShowings ==
  ASSUME NEW z \in Zone, NEW w \in Int, NEW u \in Int
  PROVE  u \in Candidates(z, w) <=> Wall(z, u) = w
  <1>1. Candidates(z, w) = {v \in {ToUtc(z, w, 0), ToUtc(z, w, 1)} : Wall(z, v) = w}
    BY DEF Candidates
  <1>2. Wall(z, u) = w => u = ToUtc(z, w, 0) \/ u = ToUtc(z, w, 1)
    BY DEF Zone, Wall, Offset, ToUtc, Low, High
  <1> QED
    BY <1>1, <1>2

(* local_to_utc of a wall time that no change of clocks concerns, or of the *)
(* first one it concerns, divides the instants before it from the others.   *)
LEMMA LocalToUtcDivides ==
  ASSUME NEW z \in Zone, NEW w \in Int, w <= Low(z) \/ High(z) <= w, NEW u \in Int
  PROVE  u < LocalToUtc(z, w) <=> Wall(z, u) < w
  BY DEF Zone, Wall, Offset, LocalToUtc, ToUtc, Low, High

LEMMA LocalToUtcType ==
  ASSUME NEW z \in Zone, NEW w \in Int
  PROVE  LocalToUtc(z, w) \in Int
  BY DEF Zone, LocalToUtc, ToUtc, Low, High

(* The start of a date, as the views compute it: in a zone that changes its *)
(* clocks within a calendar day it divides the earlier dates from it.       *)
THEOREM StartOfDate ==
  ASSUME NEW z \in Zone, WithinOneDay(z), NEW d \in Int, NEW u \in Int
  PROVE  u < LocalToUtc(z, d * Day) <=> DateOf(Wall(z, u)) < d
  <1>1. d * Day \in Int /\ Low(z) \in Int /\ High(z) \in Int /\ Wall(z, u) \in Int
    BY WallTypes, DayAssumption
  <1>2. d * Day <= Low(z) \/ High(z) <= d * Day
    <2> SUFFICES ASSUME Low(z) < d * Day, d * Day < High(z)
                 PROVE  FALSE
      BY <1>1
    <2>1. DateOf(Low(z)) < d
      BY <1>1, DateBefore
    <2>2. ~(DateOf(High(z) - 1) < d)
      <3>1. High(z) - 1 \in Int /\ ~(High(z) - 1 < d * Day)
        BY <1>1
      <3> QED
        BY <3>1, DateBefore
    <2> QED
      BY <1>1, <2>1, <2>2 DEF WithinOneDay
  <1>3. u < LocalToUtc(z, d * Day) <=> Wall(z, u) < d * Day
    BY <1>1, <1>2, LocalToUtcDivides
  <1> QED
    BY <1>1, <1>3, DateBefore

(* The calendar of such a zone never turns back.                            *)
THEOREM DatesInOrder ==
  ASSUME NEW z \in Zone, WithinOneDay(z), NEW u \in Int, NEW v \in Int, u <= v
  PROVE  DateOf(Wall(z, u)) <= DateOf(Wall(z, v))
  <1> DEFINE d == DateOf(Wall(z, u))
  <1>1. d \in Int /\ DateOf(Wall(z, v)) \in Int
    BY WallTypes, DateBounds
  <1>2. LocalToUtc(z, d * Day) \in Int
    BY <1>1, LocalToUtcType, DayAssumption
  <1>3. ~(u < LocalToUtc(z, d * Day))
    BY <1>1, StartOfDate
  <1>4. ~(v < LocalToUtc(z, d * Day))
    BY <1>2, <1>3
  <1>5. ~(DateOf(Wall(z, v)) < d)
    BY <1>1, <1>4, StartOfDate
  <1> QED
    BY <1>1, <1>5

-----------------------------------------------------------------------------
(* What _resolve_local_datetime finds.                                      *)

LEMMA EarliestIs ==
  ASSUME NEW S \in SUBSET Int, NEW e \in S, \A v \in S : e <= v
  PROVE  Earliest(S) = e
  <1>1. \E u \in S : \A v \in S : u <= v
    OBVIOUS
  <1>2. Earliest(S) \in S /\ \A v \in S : Earliest(S) <= v
    BY <1>1 DEF Earliest
  <1>3. e \in Int /\ Earliest(S) \in Int /\ e <= Earliest(S) /\ Earliest(S) <= e
    BY <1>2
  <1> QED
    BY <1>3

LEMMA CandidatesType ==
  ASSUME NEW z \in Zone, NEW w \in Int
  PROVE  Candidates(z, w) \subseteq Int
  BY DEF Candidates, Zone, ToUtc, Low, High

(* A wall time that a clock shows has a first instant at which it does, and *)
(* later wall times come after it.                                          *)
LEMMA FirstCandidate ==
  ASSUME NEW z \in Zone, NEW w \in Int, Candidates(z, w) # {}
  PROVE  /\ Earliest(Candidates(z, w)) \in Int
         /\ Wall(z, Earliest(Candidates(z, w))) = w
         /\ \A u \in Int : Wall(z, u) = w => Earliest(Candidates(z, w)) <= u
  <1> DEFINE S == Candidates(z, w)
             a == ToUtc(z, w, 0)
             b == ToUtc(z, w, 1)
  <1>1. a \in Int /\ b \in Int
    BY DEF Zone, ToUtc, Low, High
  <1>2. S \subseteq {a, b} /\ S # {}
    BY DEF Candidates
  <1>3. PICK e \in S : \A v \in S : e <= v
    <2>1. CASE a <= b
      BY <1>1, <1>2, <2>1
    <2>2. CASE b <= a
      BY <1>1, <1>2, <2>2
    <2> QED
      BY <1>1, <2>1, <2>2
  <1>4. Earliest(S) = e
    BY <1>3, CandidatesType, EarliestIs
  <1>5. e \in Int
    BY <1>3, CandidatesType
  <1> QED
    BY <1>3, <1>4, <1>5, CandidatesAreShowings

(* The wall times no clock shows are those of a gap.                        *)
LEMMA NotShown ==
  ASSUME NEW z \in Zone, NEW w \in Int
  PROVE  Candidates(z, w) = {} <=> z.before < z.after /\ Low(z) <= w /\ w < High(z)
  <1>1. Candidates(z, w) = {} <=> \A u \in Int : Wall(z, u) # w
    BY CandidatesAreShowings, CandidatesType
  <1>2. ASSUME z.before < z.after, Low(z) <= w, w < High(z), NEW u \in Int
        PROVE  Wall(z, u) # w
    BY <1>2 DEF Zone, Wall, Offset, Low, High
  <1>3. ASSUME ~(z.before < z.after /\ Low(z) <= w /\ w < High(z))
        PROVE  Wall(z, ToUtc(z, w, 0)) = w /\ ToUtc(z, w, 0) \in Int
    BY <1>3 DEF Zone, Wall, Offset, ToUtc, Low, High
  <1> QED
    BY <1>1, <1>2, <1>3

(* A time of day that is asked for resolves to the first instant at which a *)
(* clock on the wall shows it or, when it is in a gap, any later time: the  *)
(* loop over the next 24 hours' minutes ends at the end of the gap.         *)
THEOREM ResolvedIsFirst ==
  ASSUME NEW z \in Zone, High(z) - Low(z) <= Day, NEW w \in Int
  PROVE  /\ Resolved(z, w) \in Int
         /\ Wall(z, Resolved(z, w)) >= w
         /\ \A u \in Int : Wall(z, u) >= w => Resolved(z, w) <= u
  <1>0. Low(z) \in Int /\ High(z) \in Int
    BY WallTypes
  <1>1. CASE Candidates(z, w) # {}
    <2> DEFINE r == Earliest(Candidates(z, w))
    <2>1. /\ r \in Int /\ Wall(z, r) = w
          /\ \A u \in Int : Wall(z, u) = w => r <= u
      BY <1>1, FirstCandidate
    <2>2. ASSUME NEW u \in Int, Wall(z, u) >= w, u < r
          PROVE  FALSE
      <3>1. z.at \in Int /\ z.before \in Int /\ z.after \in Int
        BY DEF Zone
      <3>2. CASE u < z.at /\ ~(r < z.at)
        <4>1. Wall(z, w - z.before) = w /\ w - z.before \in Int /\ w - z.before <= u
          BY <2>2, <3>1, <3>2 DEF Wall, Offset
        <4> QED
          BY <2>1, <2>2, <4>1
      <3>3. CASE ~(u < z.at /\ ~(r < z.at))
        BY <2>1, <2>2, <3>1, <3>3 DEF Wall, Offset
      <3> QED
        BY <3>2, <3>3
    <2>3. Resolved(z, w) = r
      BY <1>1 DEF Resolved
    <2>4. \A u \in Int : Wall(z, u) \in Int
      BY WallTypes
    <2> QED
      BY <2>1, <2>2, <2>3, <2>4
  <1>2. CASE Candidates(z, w) = {}
    <2>1. z.before < z.after /\ Low(z) <= w /\ w < High(z)
      BY <1>2, NotShown
    <2>2. NextMinute(z, w) = High(z)
      <3>1. High(z) \in w + 1..w + Day
        BY <1>0, <2>1, DayAssumption
      <3>2. High(z) \in NextMinutes(z, w)
        BY <3>1, <1>0, NotShown DEF NextMinutes
      <3>3. ASSUME NEW v \in NextMinutes(z, w)
            PROVE  High(z) <= v
        <4>1. v \in Int /\ w < v /\ Candidates(z, v) # {}
          BY <3>3, DayAssumption DEF NextMinutes
        <4> QED
          BY <4>1, <2>1, <1>0, NotShown
      <3>4. NextMinutes(z, w) \subseteq Int
        BY DayAssumption DEF NextMinutes
      <3> QED
        BY <3>2, <3>3, <3>4, EarliestIs DEF NextMinute
    <2>3. Candidates(z, High(z)) # {}
      BY <1>0, NotShown
    <2> DEFINE r == Earliest(Candidates(z, High(z)))
    <2>4. /\ r \in Int /\ Wall(z, r) = High(z)
          /\ \A u \in Int : Wall(z, u) = High(z) => r <= u
      BY <1>0, <2>3, FirstCandidate
    <2>5. r = z.at
      BY <2>1, <2>4 DEF Zone, Wall, Offset, Low, High
    <2>6. ASSUME NEW u \in Int, Wall(z, u) >= w
          PROVE  r <= u
      BY <2>1, <2>5, <2>6 DEF Zone, Wall, Offset, Low, High
    <2>7. Resolved(z, w) = r
      BY <1>2, <2>2 DEF Resolved
    <2> QED
      BY <1>0, <2>1, <2>4, <2>6, <2>7
  <1> QED
    BY <1>1, <1>2

-----------------------------------------------------------------------------
(* PART 2: the invariant.  A behaviour handles one of the commands, and the *)
(* state of the other two says nothing: no task is active for the views,    *)
(* the edit and the request for a reminder have no answer.                  *)

(* The types the theorems on the views need.                                *)
ViewsInv ==
  /\ zone \in Zone /\ WithinOneDay(zone)
  /\ task \in [Refs -> Rows]
  /\ active \subseteq Refs
  /\ now \in FirstNow..LastNow

(* What the handler of /edit has answered and stored.                       *)
RequestInv ==
  /\ message \in Messages
  /\ found \in EditedRows
  /\ answer \in {"none", "updated", "refused"}
  /\ answer = "none" => row = found
  /\ answer = "updated" => Accepted(message, found) /\ row = NextRow(message, found)
  /\ answer = "refused" => ~Accepted(message, found)

(* What the parser of /remind has answered.                                 *)
RemindInv ==
  /\ remindZone \in RemindZones
  /\ expr \in Expressions
  /\ asked \in Int
  /\ reply \in {Unanswered, Parse(remindZone, expr, asked)}

OwnerInv ==
  /\ handled \in {"views", "edit", "remind"}
  /\ IF handled = "views" THEN ViewsInv ELSE active = {}
  /\ IF handled = "edit" THEN RequestInv ELSE answer = "none"
  /\ IF handled = "remind" THEN RemindInv ELSE reply = Unanswered

LEMMA ViewsInvNext == ViewsInv /\ [ViewsNext]_viewVars => ViewsInv'
  <1> SUFFICES ASSUME ViewsInv, [ViewsNext]_viewVars
               PROVE  ViewsInv'
    OBVIOUS
  <1> USE DEF ViewsInv
  <1>1. CASE Tick
    BY <1>1, TaskViewsAssumption DEF Tick
  <1>2. ASSUME NEW t \in Refs, Finish(t)
        PROVE  ViewsInv'
    BY <1>2 DEF Finish
  <1>3. ASSUME NEW t \in Refs, Reopen(t)
        PROVE  ViewsInv'
    BY <1>3 DEF Reopen
  <1>4. CASE UNCHANGED viewVars
    BY <1>4 DEF viewVars
  <1> QED
    BY <1>1, <1>2, <1>3, <1>4 DEF ViewsNext

LEMMA RequestInvNext == RequestInv /\ [EditNext]_editVars => RequestInv'
  <1> SUFFICES ASSUME RequestInv, [EditNext]_editVars
               PROVE  RequestInv'
    OBVIOUS
  <1> USE DEF RequestInv
  <1>1. CASE Store
    BY <1>1 DEF Store
  <1>2. CASE Refuse
    BY <1>2 DEF Refuse
  <1>3. CASE UNCHANGED editVars
    BY <1>3 DEF editVars
  <1> QED
    BY <1>1, <1>2, <1>3 DEF EditNext

LEMMA RemindInvNext == RemindInv /\ [RemindNext]_remindVars => RemindInv'
  <1> SUFFICES ASSUME RemindInv, [RemindNext]_remindVars
               PROVE  RemindInv'
    OBVIOUS
  <1> USE DEF RemindInv
  <1>1. CASE ParseExpression
    BY <1>1 DEF ParseExpression
  <1>2. CASE UNCHANGED remindVars
    BY <1>2 DEF remindVars
  <1> QED
    BY <1>1, <1>2 DEF RemindNext

LEMMA OwnerInvInit == OwnerInit => OwnerInv
  <1> SUFFICES ASSUME OwnerInit PROVE OwnerInv
    OBVIOUS
  <1>1. CASE handled = "views" /\ ViewsInit /\ NoEdit /\ NoRemind
    <2>1. ViewsInv
      BY <1>1, TaskViewsAssumption DEF ViewsInit, ViewsInv
    <2> QED
      BY <1>1, <2>1 DEF OwnerInv, NoEdit, NoRemind
  <1>2. CASE handled = "edit" /\ EditInit /\ NoViews /\ NoRemind
    <2>1. RequestInv
      BY <1>2 DEF EditInit, RequestInv
    <2> QED
      BY <1>2, <2>1 DEF OwnerInv, NoViews, NoRemind
  <1>3. CASE handled = "remind" /\ RemindInit /\ NoViews /\ NoEdit
    <2>1. RemindInv
      BY <1>3, ReminderTimeAssumption DEF RemindInit, RemindInv
    <2> QED
      BY <1>3, <2>1 DEF OwnerInv, NoViews, NoEdit
  <1> QED
    BY <1>1, <1>2, <1>3 DEF OwnerInit

LEMMA OwnerInvNext == OwnerInv /\ [OwnerNext]_ownerVars => OwnerInv'
  <1> SUFFICES ASSUME OwnerInv, [OwnerNext]_ownerVars
               PROVE  OwnerInv'
    OBVIOUS
  <1>1. CASE LookAtViews
    <2>1. ViewsInv => ViewsInv'
      BY <1>1, ViewsInvNext DEF LookAtViews
    <2>2. answer' = answer /\ reply' = reply /\ handled' = handled /\ handled = "views"
      BY <1>1 DEF LookAtViews, editVars, remindVars
    <2> QED
      BY <2>1, <2>2 DEF OwnerInv
  <1>2. CASE HandleEdit
    <2>1. RequestInv => RequestInv'
      BY <1>2, RequestInvNext DEF HandleEdit
    <2>2. active' = active /\ reply' = reply /\ handled' = handled /\ handled = "edit"
      BY <1>2 DEF HandleEdit, viewVars, remindVars
    <2> QED
      BY <2>1, <2>2 DEF OwnerInv
  <1>3. CASE HandleRemind
    <2>1. RemindInv => RemindInv'
      BY <1>3, RemindInvNext DEF HandleRemind
    <2>2. active' = active /\ answer' = answer /\ handled' = handled /\ handled = "remind"
      BY <1>3 DEF HandleRemind, viewVars, editVars
    <2> QED
      BY <2>1, <2>2 DEF OwnerInv
  <1>4. CASE UNCHANGED ownerVars
    <2>1. UNCHANGED <<viewVars, editVars, remindVars, handled>>
      BY <1>4 DEF ownerVars
    <2>2. /\ ViewsInv => ViewsInv'
          /\ RequestInv => RequestInv'
          /\ RemindInv => RemindInv'
      BY <2>1, ViewsInvNext, RequestInvNext, RemindInvNext
    <2> QED
      BY <2>1, <2>2 DEF OwnerInv, viewVars, editVars, remindVars
  <1> QED
    BY <1>1, <1>2, <1>3, <1>4 DEF OwnerNext

LEMMA OwnerAlways == OwnerSpec => []OwnerInv
  BY OwnerInvInit, OwnerInvNext, PTL DEF OwnerSpec

-----------------------------------------------------------------------------
(* PART 3: the views.                                                       *)

LEMMA NoneIsNoReason ==
  None # "overdue" /\ None # "due today" /\ None # "hard due tomorrow"
  BY TaskViewsAssumption DEF Reasons

(* What a dated task's row has for the views.                               *)
LEMMA DatedDeadline ==
  ASSUME ViewsInv, NEW t \in Refs, Dated(t)
  PROVE  task[t].deadline \in Int
  BY TaskViewsAssumption DEF ViewsInv, Dated, Task, Instant

LEMMA TodayType ==
  ASSUME ViewsInv
  PROVE  Today \in Int
  BY WallTypes, DateBounds DEF ViewsInv, Today

(* The start of the day k days from today divides the deadlines by date.    *)
LEMMA StartOfDayDivides ==
  ASSUME ViewsInv, NEW t \in Refs, Dated(t), NEW k \in Int
  PROVE  task[t].deadline < StartOfDay(k) <=> DeadlineDate(t) < Today + k
  <1>1. task[t].deadline \in Int /\ Today + k \in Int
    BY DatedDeadline, TodayType
  <1> QED
    BY <1>1, StartOfDate DEF ViewsInv, StartOfDay, DeadlineDate

LEMMA OverdueIsPast ==
  ASSUME ViewsInv, NEW t \in Refs, Dated(t)
  PROVE  /\ DeadlineDate(t) \in Int
         /\ Overdue(t) => DeadlineDate(t) <= Today
         /\ ~Overdue(t) => Today <= DeadlineDate(t)
  <1>1. task[t].deadline \in Int
    BY DatedDeadline
  <1>2. DeadlineDate(t) \in Int
    BY <1>1, WallTypes, DateBounds DEF ViewsInv, DeadlineDate
  <1> QED
    BY <1>1, <1>2, DatesInOrder DEF ViewsInv, Overdue, DeadlineDate, Today

LEMMA ViewsByDate == ViewsInv => DeadlinesByDate
  <1> SUFFICES ASSUME ViewsInv, NEW t \in active, Dated(t)
               PROVE  /\ t \in Due <=> DeadlineDate(t) < Today + Window
                      /\ Timing(t) = "due today" <=> ~Overdue(t) /\ DeadlineDate(t) = Today
                      /\ Reason(t) = "overdue" <=> Overdue(t)
                      /\ Reason(t) = "due today" <=> ~Overdue(t) /\ DeadlineDate(t) = Today
                      /\ Reason(t) = "hard due tomorrow" <=>
                           DeadlineDate(t) = Today + 1 /\ task[t].type = "hard"
    BY DEF DeadlinesByDate
  <1>0. t \in Refs /\ Window \in Int
    BY TaskViewsAssumption DEF ViewsInv
  <1>a. None # "overdue" /\ None # "due today" /\ None # "hard due tomorrow"
    BY NoneIsNoReason
  <1>1. Today \in Int /\ DeadlineDate(t) \in Int
    BY <1>0, TodayType, OverdueIsPast
  <1>2. t \in Due <=> DeadlineDate(t) < Today + Window
    BY <1>0, StartOfDayDivides DEF Due
  <1>3. Timing(t) = "due today" <=> ~Overdue(t) /\ DeadlineDate(t) = Today
    BY DEF Timing, DeadlineDate
  <1>4. /\ Overdue(t) => DeadlineDate(t) <= Today
        /\ ~Overdue(t) => Today <= DeadlineDate(t)
    BY <1>0, OverdueIsPast
  <1>5. /\ task[t].deadline < StartOfDay(1) <=> DeadlineDate(t) <= Today
        /\ task[t].deadline < StartOfDay(2) <=> DeadlineDate(t) <= Today + 1
    <2>1. /\ task[t].deadline < StartOfDay(1) <=> DeadlineDate(t) < Today + 1
          /\ task[t].deadline < StartOfDay(2) <=> DeadlineDate(t) < Today + 2
      <3>1. 1 \in Int /\ 2 \in Int
        OBVIOUS
      <3> HIDE <3>1
      <3> QED
        BY <3>1, <1>0, StartOfDayDivides
    <2>2. \A a, b \in Int : (a < b + 1 <=> a <= b) /\ (a < b + 2 <=> a <= b + 1)
      OBVIOUS
    <2> QED
      BY <2>1, <2>2, <1>1
  <1>6. Reason(t) = "overdue" <=> Overdue(t)
    BY <1>a DEF Reason
  <1>7. Reason(t) = "due today" <=> ~Overdue(t) /\ DeadlineDate(t) = Today
    <2>1. ~Overdue(t) /\ DeadlineDate(t) <= Today <=> ~Overdue(t) /\ DeadlineDate(t) = Today
      BY <1>1, <1>4
    <2>2. Reason(t) = "due today" <=> ~Overdue(t) /\ task[t].deadline < StartOfDay(1)
      BY <1>a DEF Reason
    <2> QED
      BY <2>1, <2>2, <1>5, Zenon
  <1>8. Reason(t) = "hard due tomorrow" <=>
          DeadlineDate(t) = Today + 1 /\ task[t].type = "hard"
    <2>1. ~Overdue(t) /\ ~(DeadlineDate(t) <= Today) /\ DeadlineDate(t) <= Today + 1
            <=> DeadlineDate(t) = Today + 1
      BY <1>1, <1>4
    <2>2. Reason(t) = "hard due tomorrow" <=>
            /\ ~Overdue(t) /\ ~(task[t].deadline < StartOfDay(1))
            /\ task[t].type = "hard" /\ task[t].deadline < StartOfDay(2)
      BY <1>a DEF Reason
    <2> QED
      BY <2>1, <2>2, <1>5, Zenon
  <1> QED
    BY <1>2, <1>3, <1>6, <1>7, <1>8

(* /due and /today follow the calendar of the owner (list_due_tasks,        *)
(* get_focus_today), in every zone and for every window.                    *)
THEOREM ViewsFollowTheCalendar == OwnerSpec => []DeadlinesByDate
  <1>1. OwnerInv => DeadlinesByDate
    BY ViewsByDate DEF OwnerInv, DeadlinesByDate
  <1> QED
    BY <1>1, OwnerAlways, PTL

(* While a task stays active its deadline only comes closer, also in the    *)
(* hour that the clocks show twice.                                         *)
THEOREM DeadlinesComeCloser == OwnerSpec => DeadlinesOnlyApproach
  <1>1. ViewsInv /\ [ViewsNext]_viewVars =>
          [\A t \in active \cap active' : t \in Due => t \in Due' /\ Stage(t) <= Stage(t)']_viewVars
    <2> SUFFICES ASSUME ViewsInv, [ViewsNext]_viewVars, NEW t \in active \cap active', t \in Due
                 PROVE  t \in Due' /\ Stage(t) <= Stage(t)'
      OBVIOUS
    <2>1. ViewsInv'
      BY ViewsInvNext
    <2>2. zone' = zone /\ task' = task /\ now <= now' /\ now' \in Int /\ now \in Int
      BY <2>1, TaskViewsAssumption DEF ViewsInv, ViewsNext, Tick, Finish, Reopen, viewVars
    <2>3. t \in Refs /\ Dated(t) /\ Dated(t)' /\ Window \in Int
      BY <2>2, TaskViewsAssumption DEF ViewsInv, Due, Dated
    <2>4. Today <= Today' /\ Today \in Int /\ Today' \in Int
      <3>1. Today' = DateOf(Wall(zone, now'))
        BY <2>2 DEF Today
      <3>2. Today' \in Int
        BY <3>1, <2>2, WallTypes, DateBounds DEF ViewsInv
      <3> QED
        BY <3>1, <3>2, <2>2, TodayType, DatesInOrder DEF ViewsInv, Today
    <2>5. DeadlineDate(t)' = DeadlineDate(t) /\ DeadlineDate(t) \in Int
      BY <2>2, <2>3, OverdueIsPast DEF DeadlineDate
    <2>6. t \in Due'
      <3>1. DeadlineDate(t) < Today + Window
        BY <2>3, StartOfDayDivides DEF Due
      <3>2. task'[t].deadline < StartOfDay(Window)' <=> DeadlineDate(t)' < Today' + Window
        <4>1. task[t].deadline \in Int /\ Today' + Window \in Int
          BY <2>3, <2>4, DatedDeadline
        <4> QED
          BY <4>1, <2>2, StartOfDate DEF ViewsInv, StartOfDay, DeadlineDate
      <3> QED
        BY <3>1, <3>2, <2>3, <2>4, <2>5 DEF Due
    <2>7. task[t].deadline \in Int /\ (Overdue(t) => Overdue(t)')
      BY <2>2, <2>3, DatedDeadline DEF Overdue
    <2>8. ~Overdue(t)' => Today' <= DeadlineDate(t)
      <3> SUFFICES ASSUME ~Overdue(t)' PROVE Today' <= DeadlineDate(t)
        OBVIOUS
      <3>1. now' <= task[t].deadline
        BY <2>2, <2>7 DEF Overdue
      <3> QED
        BY <3>1, <2>2, <2>7, DatesInOrder DEF ViewsInv, Today, DeadlineDate
    <2>9. /\ Timing(t) = IF Overdue(t) THEN "overdue"
                         ELSE IF DeadlineDate(t) = Today THEN "due today" ELSE "upcoming"
          /\ Timing(t)' = IF Overdue(t)' THEN "overdue"
                          ELSE IF DeadlineDate(t) = Today' THEN "due today" ELSE "upcoming"
      BY <2>5 DEF Timing, DeadlineDate
    <2>10. Stage(t) <= Stage(t)'
      <3>1. /\ Stage(t) = IF Overdue(t) THEN 2 ELSE IF DeadlineDate(t) = Today THEN 1 ELSE 0
            /\ Stage(t)' = IF Overdue(t)' THEN 2 ELSE IF DeadlineDate(t) = Today' THEN 1 ELSE 0
        BY <2>9 DEF Stage
      <3> QED
        BY <3>1, <2>4, <2>5, <2>7, <2>8
    <2> QED
      BY <2>6, <2>10
  <1>2. OwnerInv /\ [OwnerNext]_ownerVars =>
          [\A t \in active \cap active' : t \in Due => t \in Due' /\ Stage(t) <= Stage(t)']_viewVars
    <2>1. OwnerInv => ViewsInv \/ active = {}
      BY DEF OwnerInv
    <2>2. [OwnerNext]_ownerVars => [ViewsNext]_viewVars
      BY DEF OwnerNext, ownerVars, LookAtViews, HandleEdit, HandleRemind
    <2> QED
      BY <1>1, <2>1, <2>2
  <1> QED
    BY <1>2, OwnerAlways, PTL DEF OwnerSpec, DeadlinesOnlyApproach

(* The owner's day: the instants from its start to the start of the next    *)
(* one, at most two days' minutes with a change of the clocks in it.        *)
LEMMA TheDay ==
  ASSUME ViewsInv
  PROVE  /\ StartOfDay(0) \in Int /\ StartOfDay(1) \in Int
         /\ StartOfDay(1) <= StartOfDay(0) + 2 * Day
         /\ \A u \in Int : DateOf(Wall(zone, u)) = Today <=>
                             StartOfDay(0) <= u /\ u < StartOfDay(1)
  <1> DEFINE w == Today * Day
  <1>0. zone \in Zone /\ WithinOneDay(zone) /\ Today \in Int /\ Day \in Int
    BY TodayType, DayAssumption DEF ViewsInv
  <1>1. /\ w \in Int /\ (Today + 1) * Day = w + Day
        /\ (Today + 0) * Day = w
    BY <1>0
  <1>2. StartOfDay(0) = LocalToUtc(zone, w) /\ StartOfDay(1) = LocalToUtc(zone, w + Day)
    BY <1>1 DEF StartOfDay
  <1>3. StartOfDay(0) \in Int /\ StartOfDay(1) \in Int
    BY <1>0, <1>1, <1>2, LocalToUtcType
  <1>4. High(zone) <= Low(zone) + Day
    <2>1. Low(zone) \in Int /\ High(zone) \in Int /\ Low(zone) <= High(zone)
      BY <1>0, WallTypes
    <2>2. CASE Low(zone) < High(zone)
      <3> DEFINE d == DateOf(Low(zone))
      <3>1. d \in Int /\ d * Day <= Low(zone)
        BY <2>1, DateBounds
      <3>2. High(zone) - 1 < (d + 1) * Day
        BY <1>0, <2>1, <2>2, DateBounds DEF WithinOneDay
      <3>3. (d + 1) * Day = d * Day + Day /\ d * Day \in Int
        BY <1>0, <3>1
      <3> QED
        BY <1>0, <2>1, <3>1, <3>2, <3>3
    <2> QED
      BY <2>1, <2>2, DayAssumption
  <1>5. StartOfDay(1) <= StartOfDay(0) + 2 * Day
    BY <1>0, <1>1, <1>2, <1>4, DayAssumption DEF Zone, LocalToUtc, ToUtc, Low, High
  <1>6. ASSUME NEW u \in Int
        PROVE  DateOf(Wall(zone, u)) = Today <=> StartOfDay(0) <= u /\ u < StartOfDay(1)
    <2> DEFINE c == DateOf(Wall(zone, u))
    <2>1. c \in Int
      BY <1>0, WallTypes, DateBounds
    <2>2. u < StartOfDay(0) <=> c < Today
      BY <1>0, <1>2, StartOfDate
    <2>3. u < StartOfDay(1) <=> c < Today + 1
      <3>1. Today + 1 \in Int
        BY <1>0
      <3> QED
        BY <1>0, <1>1, <1>2, <3>1, StartOfDate
    <2> QED
      BY <1>0, <1>3, <2>1, <2>2, <2>3
  <1> QED
    BY <1>3, <1>5, <1>6

(* What an undated task's period of work has for the views.                 *)
LEMMA PeriodTypes ==
  ASSUME ViewsInv, NEW t \in Refs
  PROVE  /\ task[t].start \in Int \cup {None} /\ task[t].end \in Int \cup {None}
         /\ task[t].start # None /\ task[t].end # None => task[t].start <= task[t].end
  BY TaskViewsAssumption DEF ViewsInv, Task, Instant

LEMMA UndatedReason ==
  ASSUME ViewsInv, NEW t \in Refs, ~Dated(t)
  PROVE  /\ Reason(t) = "planned today" <=> PlannedToday(t)
         /\ task[t].urgency \in {"high", "top_priority"} => Reason(t) # None
         /\ Reason(t) \notin {"overdue", "due today", "hard due tomorrow"}
  BY TaskViewsAssumption DEF Reason, Reasons

(* /today shows an undated task as planned on exactly the dates at some     *)
(* moment of which its work is planned (_planned_window_overlaps_today):    *)
(* in every zone, also on a day with a change of the clocks.                *)
THEOREM PlansByTheCalendar == OwnerSpec => []PlannedByDay
  <1>1. ASSUME ViewsInv, NEW t \in active, ~Dated(t), task[t].start # task[t].end
        PROVE  Reason(t) = "planned today" <=> \E u \in Moments : WorkPlanned(t, u)
    <2> DEFINE s == task[t].start
               e == task[t].end
               first == StartOfDay(0)
               next == StartOfDay(1)
    <2>0. /\ t \in Refs
          /\ Day \in Nat /\ FirstNow \in Int /\ LastNow \in Int
          /\ now \in Int /\ FirstNow <= now /\ now <= LastNow
          /\ None \notin Int
      BY <1>1, DayAssumption, TaskViewsAssumption DEF ViewsInv
    <2>1. /\ s \in Int \cup {None} /\ e \in Int \cup {None} /\ s # e
          /\ s # None /\ e # None => s <= e
      BY <1>1, <2>0, PeriodTypes
    <2>2. /\ first \in Int /\ next \in Int /\ next <= first + 2 * Day
          /\ \A u \in Int : DateOf(Wall(zone, u)) = Today <=> first <= u /\ u < next
      BY <1>1, TheDay
    <2>3. first <= now /\ now < next
      BY <2>0, <2>2 DEF Today
    <2>4. \A u \in Int : first <= u /\ u < next => u \in Moments
      <3>1. ASSUME NEW u \in Int, first <= u, u < next
            PROVE  u \in FirstNow - 3 * Day..LastNow + 3 * Day
        BY <2>0, <2>2, <2>3, <3>1
      <3> QED
        BY <3>1, <2>2 DEF Moments
    <2>5. \A u \in Moments : u \in Int /\ first <= u /\ u < next
      BY <2>0, <2>2 DEF Moments
    <2>6. ASSUME PlannedToday(t)
          PROVE  \E u \in Moments : WorkPlanned(t, u)
      <3>1. /\ s # None => s < next
            /\ e # None => e > first
        BY <2>6 DEF PlannedToday
      <3>2. CASE s # None /\ s >= first
        <4>1. s \in Moments
          BY <2>0, <2>1, <2>4, <3>1, <3>2
        <4>2. WorkPlanned(t, s)
          BY <2>0, <2>1, <3>2 DEF WorkPlanned
        <4> QED
          BY <4>1, <4>2
      <3>3. CASE ~(s # None /\ s >= first)
        <4>1. first \in Moments
          BY <2>0, <2>2, <2>3, <2>4
        <4>2. WorkPlanned(t, first)
          BY <2>0, <2>1, <2>2, <3>1, <3>3 DEF WorkPlanned
        <4> QED
          BY <4>1, <4>2
      <3> QED
        BY <3>2, <3>3
    <2>7. ASSUME NEW u \in Moments, WorkPlanned(t, u)
          PROVE  PlannedToday(t)
      BY <2>0, <2>1, <2>2, <2>5, <2>7 DEF WorkPlanned, PlannedToday
    <2> QED
      BY <1>1, <2>0, <2>6, <2>7, UndatedReason
  <1>2. OwnerInv => PlannedByDay
    BY <1>1 DEF OwnerInv, PlannedByDay
  <1> QED
    BY <1>2, OwnerAlways, PTL

-----------------------------------------------------------------------------
(* The reason that puts a dated task into /today, from most to least        *)
(* pressing, never falls behind that of a later deadline.                   *)
LEMMA ReasonsInOrder ==
  ASSUME ViewsInv, NEW a \in ByDeadline, NEW b \in ByDeadline,
         task[a].deadline < task[b].deadline
  PROVE  /\ Dated(a) /\ Dated(b)
         /\ ReasonPriority[Reason(a)] \in 0..2 /\ ReasonPriority[Reason(b)] \in 0..2
         /\ ReasonPriority[Reason(a)] <= ReasonPriority[Reason(b)]
  <1>1. a \in Refs /\ b \in Refs
    BY DEF ViewsInv, ByDeadline, Focus
  <1>2. Dated(a) /\ Dated(b)
    BY <1>1, UndatedReason DEF ByDeadline
  <1>3. task[a].deadline \in Int /\ task[b].deadline \in Int
    BY <1>1, <1>2, DatedDeadline
  <1>4. StartOfDay(1) \in Int /\ now \in Int
    BY TheDay, TaskViewsAssumption DEF ViewsInv
  <1>5. /\ Reason(b) = "overdue" => Reason(a) = "overdue"
        /\ Reason(b) = "due today" => Reason(a) \in {"overdue", "due today"}
    <2>1. Reason(b) = "overdue" => Overdue(b)
      BY <1>1, NoneIsNoReason DEF Reason
    <2>2. Reason(b) = "due today" => task[b].deadline < StartOfDay(1)
      BY <1>1, NoneIsNoReason DEF Reason
    <2>3. Overdue(a) => Reason(a) = "overdue"
      BY <1>2 DEF Reason
    <2>4. task[a].deadline < StartOfDay(1) => Reason(a) \in {"overdue", "due today"}
      BY <1>2 DEF Reason
    <2>5. Overdue(b) => Overdue(a)
      BY <1>3, <1>4 DEF Overdue
    <2>6. task[b].deadline < StartOfDay(1) => task[a].deadline < StartOfDay(1)
      BY <1>3, <1>4
    <2> QED
      BY <2>1, <2>2, <2>3, <2>4, <2>5, <2>6, Zenon
  <1>6. /\ Reason(a) \in {"overdue", "due today", "hard due tomorrow"}
        /\ Reason(b) \in {"overdue", "due today", "hard due tomorrow"}
    BY DEF ByDeadline
  <1>7. /\ ReasonPriority["overdue"] = 0 /\ ReasonPriority["due today"] = 1
        /\ ReasonPriority["hard due tomorrow"] = 2
    BY DEF ReasonPriority, Reasons
  <1> DEFINE p == ReasonPriority[Reason(a)]
             q == ReasonPriority[Reason(b)]
  <1>8. \/ p = 0 /\ q = 0
        \/ p \in {0, 1} /\ q = 1
        \/ p \in {0, 1, 2} /\ q = 2
    <2>1. CASE Reason(b) = "overdue"
      BY <1>5, <1>7, <2>1
    <2>2. CASE Reason(b) = "due today"
      BY <1>5, <1>7, <2>2
    <2>3. CASE Reason(b) = "hard due tomorrow"
      BY <1>6, <1>7, <2>3
    <2> QED
      BY <1>6, <2>1, <2>2, <2>3
  <1>9. p \in 0..2 /\ q \in 0..2 /\ p <= q
    <2> HIDE DEF p, q
    <2> QED
      BY <1>8
  <1> QED
    BY <1>2, <1>9

LEMMA FirstThree ==
  ASSUME NEW x, NEW y, NEW z
  PROVE  <<x>> \o <<y, z>> = <<x, y, z>>
  <1> DEFINE S == {x, y, z}
             s == <<x>> \o <<y, z>>
  <1>1. <<x>> \in Seq(S) /\ <<y, z>> \in Seq(S) /\ <<x, y, z>> \in Seq(S)
    OBVIOUS
  <1>2. Len(<<x>>) = 1 /\ Len(<<y, z>>) = 2 /\ Len(<<x, y, z>>) = 3
    OBVIOUS
  <1>3. /\ s \in Seq(S) /\ Len(s) = 3
        /\ s[1] = x /\ s[2] = y /\ s[3] = z
    BY <1>1, <1>2, ConcatProperties
  <1>4. \A i \in 1..3 : s[i] = <<x, y, z>>[i]
    BY <1>3
  <1>5. s = <<x, y, z>>
    <2> HIDE DEF s, S
    <2> QED
      BY <1>1, <1>2, <1>3, <1>4, SeqEqual
  <1> QED
    BY <1>5

LEMMA AllFive ==
  ASSUME NEW x, NEW y, NEW z, NEW u, NEW v
  PROVE  <<x, y, z>> \o <<u, v>> = <<x, y, z, u, v>>
  <1> DEFINE S == {x, y, z, u, v}
             s == <<x, y, z>> \o <<u, v>>
  <1>1. <<x, y, z>> \in Seq(S) /\ <<u, v>> \in Seq(S) /\ <<x, y, z, u, v>> \in Seq(S)
    OBVIOUS
  <1>2. Len(<<x, y, z>>) = 3 /\ Len(<<u, v>>) = 2 /\ Len(<<x, y, z, u, v>>) = 5
    OBVIOUS
  <1>3. /\ s \in Seq(S) /\ Len(s) = 5
        /\ s[1] = x /\ s[2] = y /\ s[3] = z /\ s[4] = u /\ s[5] = v
    BY <1>1, <1>2, ConcatProperties
  <1>4. \A i \in 1..5 : s[i] = <<x, y, z, u, v>>[i]
    BY <1>3
  <1>5. s = <<x, y, z, u, v>>
    <2> HIDE DEF s, S
    <2> QED
      BY <1>1, <1>2, <1>3, <1>4, SeqEqual
  <1> QED
    BY <1>5

LEMMA FocusKeyIs ==
  ASSUME NEW t, Dated(t)
  PROVE  FocusKey(t) = <<ReasonPriority[Reason(t)], 0, task[t].deadline,
                         UrgencyPriority(task[t].urgency), t>>
  <1>1. ScheduledAt(t) = <<0, task[t].deadline>>
    BY DEF ScheduledAt
  <1> DEFINE r == ReasonPriority[Reason(t)]
             d == task[t].deadline
             g == UrgencyPriority(task[t].urgency)
  <1>2. FocusKey(t) = (<<r>> \o ScheduledAt(t)) \o <<g, t>>
    BY DEF FocusKey
  <1>3. <<r>> \o <<0, d>> = <<r, 0, d>>
    BY FirstThree
  <1>4. <<r, 0, d>> \o <<g, t>> = <<r, 0, d, g, t>>
    BY AllFive
  <1> QED
    BY <1>1, <1>2, <1>3, <1>4, Zenon

(* /today and /due never disagree on which of two deadlines comes first,    *)
(* and what /urgent lists without a deadline is in /today.                  *)
THEOREM ViewsAgree == OwnerSpec => []ListsAgree
  <1>1. ASSUME ViewsInv, Window > 1, NEW t \in ByDeadline
        PROVE  t \in Due
    <2>1. t \in active /\ t \in Refs
      BY <1>1 DEF ViewsInv, ByDeadline, Focus
    <2>a. Window \in Int
      BY TaskViewsAssumption
    <2>2. Dated(t)
      BY <1>1, <2>1, UndatedReason DEF ByDeadline
    <2>3. /\ t \in Due <=> DeadlineDate(t) < Today + Window
          /\ Reason(t) = "overdue" <=> Overdue(t)
          /\ Reason(t) = "due today" <=> ~Overdue(t) /\ DeadlineDate(t) = Today
          /\ Reason(t) = "hard due tomorrow" <=>
               DeadlineDate(t) = Today + 1 /\ task[t].type = "hard"
      BY <1>1, <2>1, <2>2, ViewsByDate DEF DeadlinesByDate
    <2>4. Today \in Int /\ DeadlineDate(t) \in Int /\ (Overdue(t) => DeadlineDate(t) <= Today)
      BY <1>1, <2>1, <2>2, TodayType, OverdueIsPast
    <2>5. DeadlineDate(t) <= Today + 1
      <3>1. CASE Overdue(t)
        BY <2>4, <3>1
      <3>2. CASE ~Overdue(t)
        <4>1. Reason(t) \in {"due today", "hard due tomorrow"}
          BY <1>1, <2>3, <3>2 DEF ByDeadline
        <4>2. DeadlineDate(t) = Today \/ DeadlineDate(t) = Today + 1
          BY <2>3, <4>1, Zenon
        <4> QED
          BY <2>4, <4>2
      <3> QED
        BY <3>1, <3>2
    <2>6. DeadlineDate(t) < Today + Window
      BY <1>1, <2>a, <2>4, <2>5
    <2> QED
      BY <2>3, <2>6
  <1>2. ASSUME ViewsInv, NEW a \in ByDeadline, NEW b \in ByDeadline,
               task[a].deadline < task[b].deadline
        PROVE  Sorted(FocusKey(a), FocusKey(b)) /\ Sorted(DueKey(a), DueKey(b))
    <2> DEFINE p == ReasonPriority[Reason(a)]
               q == ReasonPriority[Reason(b)]
    <2>1. /\ Dated(a) /\ Dated(b)
          /\ p \in 0..2 /\ q \in 0..2 /\ p <= q
      BY <1>2, ReasonsInOrder
    <2>2. /\ FocusKey(a) = <<p, 0, task[a].deadline, UrgencyPriority(task[a].urgency), a>>
          /\ FocusKey(b) = <<q, 0, task[b].deadline, UrgencyPriority(task[b].urgency), b>>
      BY <2>1, FocusKeyIs
    <2>3. Sorted(FocusKey(a), FocusKey(b))
      <3>1. CASE p < q
        <4>1. 1 \in DOMAIN FocusKey(a) /\ FocusKey(a)[1] < FocusKey(b)[1]
          BY <2>2, <3>1
        <4>2. \A j \in 1..1 - 1 : FALSE
          OBVIOUS
        <4> QED
          BY <4>1, <4>2 DEF Sorted
      <3>2. CASE p = q
        <4>1. \A j \in 1..2 : FocusKey(a)[j] = FocusKey(b)[j]
          BY <2>2, <3>2
        <4>2. 3 \in DOMAIN FocusKey(a) /\ FocusKey(a)[3] < FocusKey(b)[3] /\ 3 - 1 = 2
          BY <1>2, <2>2
        <4> QED
          BY <4>1, <4>2 DEF Sorted
      <3> HIDE DEF p, q
      <3> QED
        BY <2>1, <3>1, <3>2
    <2>4. Sorted(DueKey(a), DueKey(b))
      <3>1. 1 \in DOMAIN DueKey(a) /\ DueKey(a)[1] < DueKey(b)[1]
        BY <1>2 DEF DueKey
      <3>2. \A j \in 1..1 - 1 : FALSE
        OBVIOUS
      <3> QED
        BY <3>1, <3>2 DEF Sorted
    <2> QED
      BY <2>3, <2>4
  <1>3. ASSUME ViewsInv, NEW t \in Urgent, ~Dated(t)
        PROVE  t \in Focus
    BY <1>3, UndatedReason DEF ViewsInv, Urgent, Focus
  <1>4. ViewsInv => ListsAgree
    BY <1>1, <1>2, <1>3 DEF ListsAgree
  <1>5. active = {} => ListsAgree
    BY DEF ListsAgree, ByDeadline, Focus, Urgent
  <1>6. OwnerInv => ListsAgree
    BY <1>4, <1>5 DEF OwnerInv
  <1> QED
    BY <1>6, OwnerAlways, PTL

-----------------------------------------------------------------------------
(* PART 4: /edit.                                                           *)

IsMessage(m) == \E n \in Nat : DOMAIN m = 1..n

-----------------------------------------------------------------------------
(* Which flags set a column.                                                *)

SettersOf == [
  title |-> {"-title"},
  description |-> {"-description", "-clear-description"},
  category |-> {"-category", "-clear-category"},
  deadline |-> {"-deadline", "-clear-deadline"},
  type |-> {"-deadline-type", "-clear-deadline"},
  start |-> {"-planned-start", "-clear-planned-start", "-clear-planned-window"},
  end |-> {"-planned-end", "-clear-planned-end", "-clear-planned-window"},
  estimate |-> {"-estimate", "-clear-estimate"},
  urgency |-> {"-urgency", "-clear-urgency"}]

LEMMA SettersSet ==
  ASSUME NEW p, NEW f, f \in DOMAIN Sets(p)
  PROVE  f \in DOMAIN SettersOf /\ p.flag \in SettersOf[f]
  BY DEF Sets, SettersOf

(* A flag that clears leaves nothing in each column it sets.                *)
LEMMA WindowClears ==
  ASSUME NEW p, NEW f \in {"start", "end"}, f \in DOMAIN Sets(p),
         p.flag \in {"-clear-planned-start", "-clear-planned-end", "-clear-planned-window"}
  PROVE  Sets(p)[f] = None
  BY DEF Sets

LEMMA NoClash ==
  ASSUME NEW m, Parses(m), NEW a, NEW b, <<a, b>> \in Clashing, a \in Flags(m)
  PROVE  b \notin Flags(m)
  <1>1. \A pair \in Clashing : ~(pair[1] \in Flags(m) /\ pair[2] \in Flags(m))
    BY DEF Parses
  <1>2. <<a, b>>[1] = a /\ <<a, b>>[2] = b
    OBVIOUS
  <1> QED
    BY <1>1, <1>2

(* Two parts of a message that parses and that set the same column set it   *)
(* to the same value: _validate_conflicting_flags leaves no other pair.     *)
LEMMA PartsAgree ==
  ASSUME NEW m, Parses(m), NEW p \in Parts(m), NEW q \in Parts(m), NEW f,
         f \in DOMAIN Sets(p), f \in DOMAIN Sets(q)
  PROVE  Sets(p)[f] = Sets(q)[f]
  <1>1. /\ f \in DOMAIN SettersOf
        /\ p.flag \in SettersOf[f] /\ q.flag \in SettersOf[f]
    BY SettersSet
  <1>2. p.flag \in Flags(m) /\ q.flag \in Flags(m)
    BY DEF Flags
  <1>3. CASE p.flag = q.flag
    <2>1. PICK i \in DOMAIN m, j \in DOMAIN m : p = m[i] /\ q = m[j]
      BY DEF Parts
    <2>2. p.flag \notin RepeatableFlags
      BY <1>1 DEF SettersOf, RepeatableFlags
    <2>3. i = j
      BY <1>3, <2>1, <2>2 DEF Parses
    <2> QED
      BY <2>1, <2>3
  <1>4. CASE p.flag # q.flag
    <2>1. f \notin {"title"}
      BY <1>1, <1>4 DEF SettersOf
    <2>2. CASE f \in {"start", "end"}
      <3>1. \/ p.flag \in {"-planned-start", "-planned-end"}
            \/ q.flag \in {"-planned-start", "-planned-end"}
            \/ /\ p.flag \in {"-clear-planned-start", "-clear-planned-end", "-clear-planned-window"}
               /\ q.flag \in {"-clear-planned-start", "-clear-planned-end", "-clear-planned-window"}
        BY <1>1, <2>2 DEF SettersOf
      <3>2. \A b : \A a \in {"-planned-start", "-planned-end"} :
              /\ f \in DOMAIN SettersOf /\ a \in SettersOf[f] /\ b \in SettersOf[f] /\ a # b
              => <<a, b>> \in Clashing
        BY <2>2 DEF SettersOf, Clashing
      <3>3. ~(p.flag \in {"-planned-start", "-planned-end"})
        BY <1>1, <1>2, <1>4, <3>2, NoClash
      <3>4. ~(q.flag \in {"-planned-start", "-planned-end"})
        BY <1>1, <1>2, <1>4, <3>2, NoClash
      <3> QED
        BY <2>2, <3>1, <3>3, <3>4, WindowClears
    <2>3. CASE f \notin {"start", "end"}
      <3>1. <<p.flag, q.flag>> \in Clashing \/ <<q.flag, p.flag>> \in Clashing
        BY <1>1, <1>4, <2>1, <2>3 DEF SettersOf, Clashing
      <3> QED
        BY <3>1, <1>2, NoClash
    <2> QED
      BY <2>2, <2>3
  <1> QED
    BY <1>3, <1>4

-----------------------------------------------------------------------------
(* The last part that sets a column exists, and any part that sets it will  *)
(* do in its place.                                                         *)
LEMMA LastSetterSets ==
  ASSUME NEW m, IsMessage(m), NEW f, f \in UpdatedFields(m)
  PROVE  LastSetter(m, f) \in DOMAIN m /\ f \in DOMAIN Sets(m[LastSetter(m, f)])
  <1>1. PICK n \in Nat : DOMAIN m = 1..n
    BY DEF IsMessage
  <1> DEFINE S == {i \in DOMAIN m : f \in DOMAIN Sets(m[i])}
             T == {n - i : i \in S}
  <1>2. S # {} /\ S \subseteq 1..n
    BY <1>1 DEF UpdatedFields, Parts
  <1>3. T \subseteq Nat /\ T # {}
    BY <1>2
  <1>4. PICK k \in T : \A l \in T : <<l, k>> \notin OpToRel(<, Nat)
    BY <1>3, WFMin, NatLessThanWellFounded, Zenon
  <1>5. \A l \in T : ~(l < k)
    BY <1>3, <1>4, Zenon DEF OpToRel
  <1>6. PICK i \in S : k = n - i
    OBVIOUS
  <1>7. \A j \in S : j <= i
    BY <1>2, <1>5, <1>6
  <1>8. \E e \in DOMAIN m : /\ f \in DOMAIN Sets(m[e])
                            /\ \A j \in DOMAIN m : f \in DOMAIN Sets(m[j]) => j <= e
    BY <1>6, <1>7
  <1> QED
    BY <1>8 DEF LastSetter

LEMMA UpdatesOfPart ==
  ASSUME NEW m, IsMessage(m), Parses(m), NEW p \in Parts(m), NEW f, f \in DOMAIN Sets(p)
  PROVE  f \in UpdatedFields(m) /\ Updates(m)[f] = Sets(p)[f]
  <1>1. f \in UpdatedFields(m)
    BY DEF UpdatedFields
  <1> DEFINE q == m[LastSetter(m, f)]
  <1>2. q \in Parts(m) /\ f \in DOMAIN Sets(q)
    BY <1>1, LastSetterSets DEF Parts
  <1>3. Sets(q)[f] = Sets(p)[f]
    BY <1>2, PartsAgree
  <1> QED
    BY <1>1, <1>3 DEF Updates

(* The updates depend on the parts alone.                                   *)
LEMMA UpdatesOfParts ==
  ASSUME NEW m, IsMessage(m), Parses(m), NEW o, IsMessage(o), Parses(o), Parts(m) = Parts(o)
  PROVE  /\ UpdatedFields(m) = UpdatedFields(o)
         /\ \A f \in UpdatedFields(m) : Updates(m)[f] = Updates(o)[f]
  <1>1. UpdatedFields(m) = UpdatedFields(o)
    BY DEF UpdatedFields
  <1>2. ASSUME NEW f \in UpdatedFields(m)
        PROVE  Updates(m)[f] = Updates(o)[f]
    <2>1. PICK p \in Parts(m) : f \in DOMAIN Sets(p)
      BY DEF UpdatedFields
    <2> QED
      BY <2>1, UpdatesOfPart
  <1> QED
    BY <1>1, <1>2

LEMMA NextRowOfParts ==
  ASSUME NEW m, IsMessage(m), Parses(m), NEW o, IsMessage(o), Parses(o), Parts(m) = Parts(o),
         NEW r
  PROVE  NextRow(m, r) = NextRow(o, r)
  <1>1. /\ UpdatedFields(m) = UpdatedFields(o)
        /\ \A f \in UpdatedFields(m) : Updates(m)[f] = Updates(o)[f]
    BY UpdatesOfParts
  <1>2. /\ Flags(m) = Flags(o)
        /\ \A flag : Words(m, flag) = Words(o, flag)
    BY DEF Flags, Words
  <1>3. /\ TouchesTags(m) <=> TouchesTags(o)
        /\ \A tags : NextTags(m, tags) = NextTags(o, tags)
    BY <1>2 DEF TouchesTags, NextTags
  <1>4. ASSUME NEW f \in DOMAIN r
        PROVE  NextRow(m, r)[f] = NextRow(o, r)[f]
    BY <1>1, <1>3, <1>4 DEF NextRow
  <1> QED
    BY <1>4 DEF NextRow

-----------------------------------------------------------------------------
(* Another order of the flags is a message with the same parts that parses  *)
(* if the message does.                                                     *)
LEMMA OrdersKeepParts ==
  ASSUME NEW m, IsMessage(m), NEW o \in Orders(m)
  PROVE  IsMessage(o) /\ Parts(o) = Parts(m) /\ (Parses(o) <=> Parses(m))
  <1>1. PICK q \in [DOMAIN m -> DOMAIN m] :
          /\ \A i, j \in DOMAIN m : q[i] = q[j] => i = j
          /\ o = [i \in DOMAIN m |-> m[q[i]]]
    BY DEF Orders
  <1>2. IsFiniteSet(DOMAIN m)
    BY FS_Interval DEF IsMessage
  <1>3. q \in Injection(DOMAIN m, DOMAIN m)
    BY <1>1 DEF Injection, IsInjective
  <1>4. q \in Surjection(DOMAIN m, DOMAIN m)
    BY <1>2, <1>3, FS_Injection
  <1>5. \A j \in DOMAIN m : \E i \in DOMAIN m : q[i] = j
    BY <1>4 DEF Surjection
  <1>6. DOMAIN o = DOMAIN m /\ IsMessage(o)
    BY <1>1 DEF IsMessage
  <1>7. Parts(o) = Parts(m)
    BY <1>1, <1>5, <1>6 DEF Parts
  <1>8. Flags(o) = Flags(m) /\ \A flag : Words(o, flag) = Words(m, flag)
    BY <1>7 DEF Flags, Words
  <1>9. (\A i, j \in DOMAIN o : o[i].flag = o[j].flag /\ o[i].flag \notin RepeatableFlags => i = j)
    <=> (\A i, j \in DOMAIN m : m[i].flag = m[j].flag /\ m[i].flag \notin RepeatableFlags => i = j)
    <2>1. ASSUME \A i, j \in DOMAIN m : m[i].flag = m[j].flag /\ m[i].flag \notin RepeatableFlags => i = j,
                 NEW i \in DOMAIN o, NEW j \in DOMAIN o,
                 o[i].flag = o[j].flag, o[i].flag \notin RepeatableFlags
          PROVE  i = j
      BY <1>1, <1>6, <2>1
    <2>2. ASSUME \A i, j \in DOMAIN o : o[i].flag = o[j].flag /\ o[i].flag \notin RepeatableFlags => i = j,
                 NEW i \in DOMAIN m, NEW j \in DOMAIN m,
                 m[i].flag = m[j].flag, m[i].flag \notin RepeatableFlags
          PROVE  i = j
      <3>1. PICK a \in DOMAIN m, b \in DOMAIN m : q[a] = i /\ q[b] = j
        BY <1>5
      <3>2. o[a] = m[i] /\ o[b] = m[j]
        BY <1>1, <3>1
      <3>3. a = b
        BY <1>6, <2>2, <3>2
      <3> QED
        BY <3>1, <3>3
    <2> QED
      BY <2>1, <2>2
  <1>10. m # << >> <=> o # << >>
    <2>1. \A s : s \in {m, o} => (s = << >> <=> Parts(s) = {})
      <3>1. ASSUME NEW s \in {m, o}, Parts(s) = {}
            PROVE  s = << >>
        <4>1. DOMAIN s = {}
          BY <3>1 DEF Parts
        <4> QED
          BY <4>1
      <3> QED
        BY <3>1 DEF Parts
    <2> QED
      BY <2>1, <1>7
  <1>11. Parses(o) <=> Parses(m)
    <2>1. (\A p \in Parts(o) : Accepts(p)) <=> (\A p \in Parts(m) : Accepts(p))
      BY <1>7
    <2>2. (\A pair \in Clashing : ~(pair[1] \in Flags(o) /\ pair[2] \in Flags(o)))
      <=> (\A pair \in Clashing : ~(pair[1] \in Flags(m) /\ pair[2] \in Flags(m)))
      BY <1>8
    <2>3. ("-clear-tags" \in Flags(o) => Flags(o) \cap RepeatableFlags = {})
      <=> ("-clear-tags" \in Flags(m) => Flags(m) \cap RepeatableFlags = {})
      BY <1>8
    <2>4. (Words(o, "-add-tag") \cap Words(o, "-remove-tag") = {})
      <=> (Words(m, "-add-tag") \cap Words(m, "-remove-tag") = {})
      BY <1>8
    <2> QED
      BY <1>9, <1>10, <2>1, <2>2, <2>3, <2>4, Zenon DEF Parses
  <1> QED
    BY <1>6, <1>7, <1>11

-----------------------------------------------------------------------------
(* "Flags may be in any order" (_edit_handler): for messages of any length. *)
THEOREM FlagOrderIsFree == OwnerSpec => []FlagsInAnyOrder
  <1>1. RequestInv => FlagsInAnyOrder
    <2> SUFFICES ASSUME RequestInv, answer # "none", NEW o \in Orders(message)
                 PROVE  /\ Accepted(o, found) <=> answer = "updated"
                        /\ answer = "updated" => NextRow(o, found) = row
      BY DEF FlagsInAnyOrder
    <2>1. /\ IsMessage(message) /\ IsMessage(o) /\ Parts(o) = Parts(message)
          /\ Parses(o) <=> Parses(message)
      BY OrdersKeepParts, EditRequestAssumption DEF RequestInv, IsMessage
    <2>2. Parses(message) => NextRow(o, found) = NextRow(message, found)
      BY <2>1, NextRowOfParts
    <2>3. NamesExist(o) <=> NamesExist(message)
      <3>1. \A flag : Words(o, flag) = Words(message, flag)
        BY <2>1 DEF Words
      <3> QED
        BY <3>1 DEF NamesExist
    <2>4. Accepted(o, found) <=> Accepted(message, found)
      BY <2>1, <2>2, <2>3, Zenon DEF Accepted
    <2>5. Accepted(message, found) => Parses(message)
      BY DEF Accepted
    <2>6. answer = "updated" <=> Accepted(message, found)
      BY DEF RequestInv
    <2>7. answer = "updated" => row = NextRow(message, found)
      BY DEF RequestInv
    <2> QED
      BY <2>2, <2>4, <2>5, <2>6, <2>7, Zenon
  <1>2. OwnerInv => FlagsInAnyOrder
    BY <1>1 DEF OwnerInv, FlagsInAnyOrder
  <1> QED
    BY <1>2, OwnerAlways, PTL

(* An /edit that Telegram delivers a second time is accepted and changes    *)
(* nothing more (edit_task_by_ref).                                         *)
THEOREM SecondEditChangesNothing == OwnerSpec => []EditingTwiceIsEditingOnce
  <1>1. ASSUME NEW m, NEW r
        PROVE  NextRow(m, NextRow(m, r)) = NextRow(m, r)
    <2> DEFINE s == NextRow(m, r)
    <2>1. DOMAIN s = DOMAIN r
      BY DEF NextRow
    <2>2. ASSUME NEW f \in DOMAIN r
          PROVE  NextRow(m, s)[f] = s[f]
      <3>1. CASE f = "tags"
        <4>1. /\ s["tags"] = IF TouchesTags(m) THEN NextTags(m, r.tags) ELSE r.tags
              /\ NextRow(m, s)["tags"] = IF TouchesTags(m) THEN NextTags(m, s.tags) ELSE s.tags
          BY <2>1, <2>2, <3>1 DEF NextRow
        <4>2. NextTags(m, NextTags(m, r.tags)) = NextTags(m, r.tags)
          BY DEF NextTags
        <4> QED
          BY <3>1, <4>1, <4>2
      <3>2. CASE f # "tags"
        BY <2>1, <2>2, <3>2 DEF NextRow
      <3> QED
        BY <3>1, <3>2
    <2>3. NextRow(m, s) = [f \in DOMAIN r |-> NextRow(m, s)[f]] /\ s = [f \in DOMAIN r |-> s[f]]
      BY <2>1 DEF NextRow
    <2> QED
      BY <2>2, <2>3
  <1>2. RequestInv => EditingTwiceIsEditingOnce
    BY <1>1 DEF RequestInv, EditingTwiceIsEditingOnce, Accepted
  <1>3. OwnerInv => EditingTwiceIsEditingOnce
    BY <1>2 DEF OwnerInv, EditingTwiceIsEditingOnce
  <1> QED
    BY <1>3, OwnerAlways, PTL
-----------------------------------------------------------------------------
(* What local_to_utc does with a wall time that exists: it is the first     *)
(* instant at which a clock shows it.                                       *)
LEMMA LocalToUtcIsFirst ==
  ASSUME NEW z \in Zone, NEW w \in Int, Candidates(z, w) # {}
  PROVE  /\ Wall(z, LocalToUtc(z, w)) = w
         /\ \A v \in Int : v < LocalToUtc(z, w) => Wall(z, v) # w
  <1>1. ~(z.before < z.after /\ Low(z) <= w /\ w < High(z))
    BY NotShown
  <1> QED
    BY <1>1 DEF Zone, Wall, Offset, LocalToUtc, ToUtc, Low, High

(* A column that a part sets holds what the part says once the edit is      *)
(* stored.                                                                  *)
LEMMA RowOfPart ==
  ASSUME NEW m, IsMessage(m), Parses(m), NEW r, DOMAIN r = Columns,
         NEW p \in Parts(m), NEW f, f \in DOMAIN Sets(p)
  PROVE  f \in Columns /\ NextRow(m, r)[f] = Sets(p)[f]
  <1>1. f \in DOMAIN SettersOf
    BY SettersSet
  <1>2. f \in Columns /\ f # "tags"
    BY <1>1 DEF SettersOf, Columns
  <1>3. f \in UpdatedFields(m) /\ Updates(m)[f] = Sets(p)[f]
    BY UpdatesOfPart
  <1>4. NextRow(m, r)[f] = Updates(m)[f]
    BY <1>2, <1>3 DEF NextRow
  <1> QED
    BY <1>2, <1>3, <1>4

LEMMA TagsOfRow ==
  ASSUME NEW m, NEW r, DOMAIN r = Columns
  PROVE  NextRow(m, r).tags = IF TouchesTags(m) THEN NextTags(m, r.tags) ELSE r.tags
  <1>1. "tags" \in Columns
    BY DEF Columns
  <1> QED
    BY <1>1 DEF NextRow

LEMMA DateOfPart ==
  ASSUME NEW m, Parses(m), NEW p \in Parts(m), p.flag \in DOMAIN DateField
  PROVE  /\ DateField[p.flag] \in DOMAIN Sets(p)
         /\ Sets(p)[DateField[p.flag]] = LocalToUtc(UserZone, WallOf(p.word))
         /\ WallOf(p.word) \in Int
  <1>1. Accepts(p)
    BY DEF Parses
  <1>2. p.flag \in {"-deadline", "-planned-start", "-planned-end"}
    BY DEF DateField
  <1>3. p.word \in DateWord
    BY <1>1, <1>2 DEF Accepts
  <1>4. WallOf(p.word) \in Int
    BY <1>3, DayAssumption DEF DateWord, WallOf
  <1>5. CASE p.flag = "-deadline"
    <2>1. DateField[p.flag] = "deadline"
      BY <1>5 DEF DateField
    <2>2. Sets(p) = [deadline |-> InstantOf(p.word)]
      BY <1>5 DEF Sets
    <2> QED
      BY <1>4, <2>1, <2>2 DEF InstantOf
  <1>6. CASE p.flag = "-planned-start"
    <2>1. DateField[p.flag] = "start"
      BY <1>6 DEF DateField
    <2>2. Sets(p) = [start |-> InstantOf(p.word)]
      BY <1>6 DEF Sets
    <2> QED
      BY <1>4, <2>1, <2>2 DEF InstantOf
  <1>7. CASE p.flag = "-planned-end"
    <2>1. DateField[p.flag] = "end"
      BY <1>7 DEF DateField
    <2>2. Sets(p) = [end |-> InstantOf(p.word)]
      BY <1>7 DEF Sets
    <2> QED
      BY <1>4, <2>1, <2>2 DEF InstantOf
  <1> QED
    BY <1>2, <1>5, <1>6, <1>7

(* An accepted /edit does what every flag asks for, a date at the first     *)
(* instant that the owner's clock shows it, and leaves the rest as it was   *)
(* (parse_edit_command, edit_task_by_ref, update_task_fields).              *)
THEOREM EditsAreExact == OwnerSpec => []EditsDoWhatTheySay
  <1>1. ASSUME RequestInv, answer = "updated"
        PROVE  EditsDoWhatTheySay
    <2> DEFINE m == message
               added == Words(m, "-add-tag")
               removed == Words(m, "-remove-tag")
    <2>1. /\ IsMessage(m) /\ Parses(m)
          /\ DOMAIN found = Columns /\ row = NextRow(m, found) /\ DOMAIN row = Columns
      BY <1>1, EditRequestAssumption DEF RequestInv, Accepted, IsMessage, NextRow
    <2>2. row.tags = IF TouchesTags(m) THEN NextTags(m, found.tags) ELSE found.tags
      BY <2>1, TagsOfRow
    <2>3. ASSUME NEW p \in Parts(m), NEW f \in DOMAIN Sets(p)
          PROVE  row[f] = Sets(p)[f]
      BY <2>1, <2>3, RowOfPart
    <2>4. ASSUME NEW p \in Parts(m)
          PROVE  Done(p)
      <3>1. p.flag \in Flags(m)
        BY <2>4 DEF Flags
      <3>2. CASE p.flag \in DOMAIN DateField
        <4> DEFINE u == row[DateField[p.flag]]
                   w == WallOf(p.word)
        <4>1. u = LocalToUtc(UserZone, w) /\ w \in Int
          BY <2>1, <2>3, <2>4, <3>2, DateOfPart
        <4>2. UserZone \in Zone /\ None \notin Int
          BY EditCommandAssumption
        <4>3. u \in Int /\ u # None
          BY <4>1, <4>2, LocalToUtcType
        <4>4. Candidates(UserZone, w) # {} => ShowsFirst(u, w)
          BY <4>1, <4>2, <4>3, LocalToUtcIsFirst, DayAssumption DEF ShowsFirst
        <4>5. p.flag \notin {"-add-tag", "-remove-tag", "-clear-tags"}
          BY <3>2 DEF DateField
        <4>6. Done(p) <=> u # None /\ (Candidates(UserZone, w) # {} => ShowsFirst(u, w))
          BY <3>2, <4>5 DEF Done
        <4> QED
          BY <4>3, <4>4, <4>6, Zenon
      <3>3. CASE p.flag = "-add-tag"
        <4>1. p.word \in added /\ p.word \notin removed
          BY <2>1, <2>4, <3>3 DEF Words, Parses
        <4>2. p.word \in row.tags
          BY <2>2, <3>1, <3>3, <4>1 DEF TouchesTags, NextTags
        <4> QED
          BY <3>3, <4>2 DEF Done, DateField
      <3>4. CASE p.flag = "-remove-tag"
        <4>1. p.word \in removed
          BY <2>4, <3>4 DEF Words
        <4>2. p.word \notin row.tags
          BY <2>2, <3>1, <3>4, <4>1 DEF TouchesTags, NextTags
        <4> QED
          BY <3>4, <4>2 DEF Done, DateField
      <3>5. CASE p.flag = "-clear-tags"
        <4>1. "-add-tag" \notin Flags(m)
          BY <2>1, <3>1, <3>5 DEF Parses, RepeatableFlags
        <4>2. added = {}
          BY <4>1 DEF Words, Flags
        <4>3. row.tags = {}
          BY <2>2, <3>1, <3>5, <4>2 DEF TouchesTags, NextTags
        <4> QED
          BY <3>5, <4>3 DEF Done, DateField
      <3>6. CASE p.flag \notin DOMAIN DateField \cup {"-add-tag", "-remove-tag", "-clear-tags"}
        BY <2>3, <2>4, <3>6 DEF Done
      <3> QED
        BY <3>2, <3>3, <3>4, <3>5, <3>6
    <2>5. ASSUME NEW f \in DOMAIN row \ (UpdatedFields(m) \cup {"tags"})
          PROVE  row[f] = found[f]
      BY <2>1, <2>5 DEF NextRow
    <2>6. ASSUME "-clear-tags" \notin Flags(m)
          PROVE  row.tags \ (added \cup removed) = found.tags \ (added \cup removed)
      BY <2>2, <2>6 DEF NextTags
    <2> QED
      BY <2>4, <2>5, <2>6 DEF EditsDoWhatTheySay
  <1>2. OwnerInv => EditsDoWhatTheySay
    BY <1>1 DEF OwnerInv, EditsDoWhatTheySay
  <1> QED
    BY <1>2, OwnerAlways, PTL

-----------------------------------------------------------------------------
(* PART 5: /remind.  Division with a remainder, for the days of a week and  *)
(* the minutes of a day.                                                    *)

LEMMA Remainder ==
  ASSUME NEW n \in Nat \ {0}, NEW x \in Int
  PROVE  /\ x \div n \in Int /\ x % n \in 0..n - 1
         /\ x = (x \div n) * n + (x % n)
  <1>1. x \div n \in Int
    BY Z3
  <1>2. x % n \in 0..n - 1
    BY Z3
  <1>3. x = (x \div n) * n + (x % n)
    BY Z3
  <1> QED
    BY <1>1, <1>2, <1>3

LEMMA MultiplesRise ==
  ASSUME NEW n \in Nat \ {0}, NEW c \in Int, NEW d \in Int, c < d
  PROVE  c * n + n <= d * n
  <1>1. (c + 1) * n <= d * n
    BY Z3
  <1>2. (c + 1) * n = c * n + n /\ c * n \in Int /\ d * n \in Int
    OBVIOUS
  <1> QED
    BY <1>1, <1>2

LEMMA RemainderIs ==
  ASSUME NEW n \in Nat \ {0}, NEW a \in Int, NEW r \in 0..n - 1
  PROVE  (a * n + r) % n = r /\ (a * n + r) \div n = a
  <1> DEFINE x == a * n + r
             b == x \div n
             s == x % n
  <1>1. x \in Int /\ b \in Int /\ s \in 0..n - 1 /\ x = b * n + s
    BY Remainder
  <1>2. ~(a < b)
    <2>1. a < b => a * n + n <= b * n
      BY <1>1, MultiplesRise
    <2>2. a * n \in Int /\ b * n \in Int
      BY <1>1
    <2> HIDE DEF b, s
    <2> QED
      BY <1>1, <2>1, <2>2
  <1>3. ~(b < a)
    <2>1. b < a => b * n + n <= a * n
      BY <1>1, MultiplesRise
    <2>2. a * n \in Int /\ b * n \in Int
      BY <1>1
    <2> HIDE DEF b, s
    <2> QED
      BY <1>1, <2>1, <2>2
  <1>4. a = b
    <2> HIDE DEF b, s, x
    <2> QED
      BY <1>1, <1>2, <1>3
  <1>5. s = r
    <2>1. a * n \in Int
      OBVIOUS
    <2> HIDE DEF b, s
    <2> QED
      BY <1>1, <1>4, <2>1
  <1> QED
    BY <1>4, <1>5

-----------------------------------------------------------------------------
(* The clock on the wall and the parser's resolution agree.                 *)

LEMMA FirstShowingIsResolved ==
  ASSUME Instants = Int, NEW z \in Zone, High(z) - Low(z) <= Day, NEW w \in Int
  PROVE  FirstShowing(z, w) = Resolved(z, w)
  <1> DEFINE r == Resolved(z, w)
             Is(u) == Wall(z, u) >= w /\ \A v \in Int : Wall(z, v) >= w => u <= v
  <1>1. r \in Int /\ Is(r)
    BY ResolvedIsFirst
  <1>2. FirstShowing(z, w) = CHOOSE u \in Int : Is(u)
    BY Zenon DEF FirstShowing
  <1>3. (CHOOSE u \in Int : Is(u)) \in Int /\ Is(CHOOSE u \in Int : Is(u))
    <2> HIDE DEF Is
    <2> QED
      BY <1>1, Zenon
  <1>4. ASSUME NEW u \in Int, Is(u)
        PROVE  u = r
    <2>1. u <= r /\ r <= u
      BY <1>1, <1>4
    <2> HIDE DEF r
    <2> QED
      BY <1>1, <2>1
  <1> HIDE DEF Is
  <1> QED
    BY <1>2, <1>3, <1>4

LEMMA ResolvedInOrder ==
  ASSUME NEW z \in Zone, High(z) - Low(z) <= Day, NEW v \in Int, NEW w \in Int, v <= w
  PROVE  Resolved(z, v) <= Resolved(z, w)
  <1>1. /\ Resolved(z, w) \in Int /\ Wall(z, Resolved(z, w)) >= w
        /\ \A u \in Int : Wall(z, u) >= v => Resolved(z, v) <= u
    BY ResolvedIsFirst
  <1>2. Wall(z, Resolved(z, w)) \in Int
    BY <1>1, WallTypes
  <1> QED
    BY <1>1, <1>2

(* A time two days ahead by the calendar is in the future: no change of the *)
(* clocks turns the wall back by a day.                                     *)
LEMMA TwoDaysAhead ==
  ASSUME NEW z \in Zone, High(z) - Low(z) < Day, NEW u \in Int, NEW w \in Int,
         w >= (DateOf(Wall(z, u)) + 2) * Day
  PROVE  Resolved(z, w) > u
  <1> DEFINE c == DateOf(Wall(z, u))
             r == Resolved(z, w)
  <1>1. High(z) - Low(z) <= Day
    BY WallTypes, DayAssumption
  <1>2. r \in Int /\ Wall(z, r) >= w
    BY <1>1, ResolvedIsFirst
  <1>3. c \in Int /\ Wall(z, u) \in Int /\ Wall(z, u) < (c + 1) * Day
    BY WallTypes, DateBounds
  <1>4. (c + 2) * Day = (c + 1) * Day + Day /\ (c + 1) * Day \in Int /\ Day \in Int
    BY <1>3, DayAssumption
  <1>5. Wall(z, r) \in Int /\ Wall(z, r) > Wall(z, u) + Day
    <2> HIDE DEF r, c
    <2>1. Wall(z, r) \in Int
      BY <1>2, WallTypes
    <2> QED
      BY <1>2, <1>3, <1>4, <2>1 DEF c
  <1>6. ASSUME r <= u
        PROVE  Wall(z, r) <= Wall(z, u) + Day
    BY <1>2, <1>4, <1>6 DEF Zone, Wall, Offset, Low, High
  <1>7. r > u
    <2> HIDE DEF r
    <2> QED
      BY <1>2, <1>3, <1>4, <1>5, <1>6
  <1> QED
    BY <1>7

-----------------------------------------------------------------------------
(* The wall time the parser settles on: the one it first thinks of or, when *)
(* that has passed, the one of the next week.                               *)
LEMMA CandidateTypes ==
  ASSUME RemindInv
  PROVE  /\ remindZone \in Zone /\ High(remindZone) - Low(remindZone) < Day
         /\ High(remindZone) - Low(remindZone) <= Day
         /\ asked \in Int /\ DateOf(Wall(remindZone, asked)) \in Int
         /\ expr.time \in 0..Day - 1
         /\ expr.kind \in {"tomorrow", "weekday", "date"}
         /\ expr.kind = "weekday" => expr.day \in 0..Week - 1
         /\ expr.kind = "date" => expr.day \in Int
  <1>1. remindZone \in Zone /\ High(remindZone) - Low(remindZone) < Day
    BY ReminderTimeAssumption DEF RemindInv
  <1>2. High(remindZone) - Low(remindZone) <= Day
    BY <1>1, WallTypes, DayAssumption
  <1>3. asked \in Int /\ DateOf(Wall(remindZone, asked)) \in Int
    BY <1>1, WallTypes, DateBounds DEF RemindInv
  <1>4. /\ expr.time \in 0..Day - 1
        /\ expr.kind \in {"tomorrow", "weekday", "date"}
        /\ expr.kind = "weekday" => expr.day \in 0..Week - 1
        /\ expr.kind = "date" => expr.day \in Int
    BY ReminderTimeAssumption DEF RemindInv, Expressions, TimesOfDay
  <1> QED
    BY <1>1, <1>2, <1>3, <1>4

(* The days of the calendar that a weekday stands for, from today on: the   *)
(* first is within the week, the others a week later or more.               *)
LEMMA WeekdaysAhead ==
  ASSUME NEW day \in 0..Week - 1, NEW today \in Int
  PROVE  LET first == today + DaysUntil(day, today)
         IN  /\ first \in today..today + Week - 1
             /\ first % Week = day /\ (first + Week) % Week = day
             /\ \A d \in Int : d >= today /\ d % Week = day => d = first \/ d >= first + Week
  <1> DEFINE k == DaysUntil(day, today)
             q == (day - today) \div Week
             first == today + k
  <1>0. Week \in Nat \ {0}
    BY ReminderTimeAssumption
  <1>1. k \in 0..Week - 1 /\ q \in Int /\ day - today = q * Week + k /\ q * Week \in Int
    <2>1. day - today \in Int /\ k = (day - today) % Week
      BY <1>0 DEF DaysUntil
    <2>2. q \in Int /\ k \in 0..Week - 1 /\ day - today = q * Week + k
      BY <1>0, <2>1, Remainder
    <2> HIDE DEF q, k
    <2> QED
      BY <1>0, <2>2
  <1>2. first = (0 - q) * Week + day /\ first + Week = (1 - q) * Week + day
    BY <1>0, <1>1
  <1>3. first % Week = day /\ (first + Week) % Week = day
    <2>1. 0 - q \in Int /\ 1 - q \in Int
      BY <1>1
    <2> HIDE DEF q, first
    <2> QED
      BY <1>0, <1>2, <2>1, RemainderIs
  <1>4. ASSUME NEW d \in Int, d >= today, d % Week = day, d # first
        PROVE  d >= first + Week
    <2> DEFINE p == d \div Week
    <2>1. p \in Int /\ d = p * Week + day /\ p * Week \in Int
      BY <1>0, <1>4, Remainder
    <2>2. 0 - q \in Int /\ 1 - q \in Int /\ (0 - q) * Week \in Int
          /\ (1 - q) * Week = (0 - q) * Week + Week
      BY <1>0, <1>1
    <2> HIDE DEF p, q, k
    <2>3. ~(p < 0 - q)
      <3>1. p < 0 - q => p * Week + Week <= (0 - q) * Week
        BY <1>0, <2>1, <2>2, MultiplesRise
      <3> QED
        BY <1>0, <1>1, <1>2, <1>4, <2>1, <2>2, <3>1
    <2>4. p # 0 - q
      BY <1>2, <1>4, <2>1
    <2>5. (0 - q) * Week + Week <= p * Week
      <3>1. 0 - q < p
        BY <2>1, <2>2, <2>3, <2>4
      <3> QED
        BY <1>0, <2>1, <2>2, <3>1, MultiplesRise
    <2> HIDE DEF first
    <2> QED
      BY <1>0, <1>2, <2>1, <2>2, <2>5
  <1>5. first \in today..today + Week - 1
    <2> HIDE DEF k
    <2> QED
      BY <1>0, <1>1
  <1> QED
    BY <1>3, <1>4, <1>5

-----------------------------------------------------------------------------
(* What the parser answers: the first of the wall times it may mean that    *)
(* comes after now, and nothing when there is none.                         *)
LEMMA ReplyIs ==
  ASSUME RemindInv, reply.is \in {"future", "past"}
  PROVE  LET w == LocalCandidate(remindZone, expr, asked)
             next == w + Week * Day
             R(x) == Resolved(remindZone, x)
         IN  \/ /\ reply.is = "future" /\ reply.at = R(w) /\ R(w) > asked
                /\ reply.warning = Warning(remindZone, w)
             \/ /\ reply.is = "future" /\ reply.at = R(next) /\ R(next) > asked
                /\ reply.warning = Warning(remindZone, next)
                /\ ~(R(w) > asked) /\ expr.kind = "weekday"
             \/ /\ reply.is = "past" /\ ~(R(w) > asked)
                /\ expr.kind = "weekday" => ~(R(next) > asked)
  <1>1. reply = Parse(remindZone, expr, asked)
    BY DEF RemindInv, Unanswered
  <1> QED
    BY <1>1 DEF Parse, Answer, Past

(* The answer is the next time, after now, that a clock in the owner's zone *)
(* first comes to what was asked for, and an error when there is none       *)
(* (parse_reminder_time_expression): over all instants, for a week and a    *)
(* day of any length, in every zone whose change is shorter than a day.     *)
THEOREM AnswersWithTheNextTime ==
  ASSUME Instants = Int
  PROVE  OwnerSpec => []AnswerIsTheNextTime
  <1>1. ASSUME RemindInv, reply.is \in {"future", "past"}
        PROVE  AnswerIsTheNextTime
    <2> DEFINE z == remindZone
               today == DateOf(Wall(z, asked))
               At(d) == d * Day + expr.time
               R(x) == Resolved(z, x)
               w == LocalCandidate(z, expr, asked)
               next == w + Week * Day
               future == {u \in Meant : u > asked}
    <2>0. /\ z \in Zone /\ High(z) - Low(z) < Day /\ High(z) - Low(z) <= Day
          /\ asked \in Int /\ today \in Int
          /\ expr.time \in 0..Day - 1 /\ Day \in Nat \ {0} /\ Week \in Nat /\ Week >= 2
          /\ expr.kind \in {"tomorrow", "weekday", "date"}
          /\ expr.kind = "weekday" => expr.day \in 0..Week - 1
          /\ expr.kind = "date" => expr.day \in Int
      BY <1>1, CandidateTypes, DayAssumption, ReminderTimeAssumption
    <2>1. \A d \in Int : At(d) \in Int
      BY <2>0
    <2>2. Asked(expr, asked) \subseteq Int
      BY <2>0 DEF Asked
    <2>3. Meant = {R(At(d)) : d \in Asked(expr, asked)}
      <3>1. \A d \in Asked(expr, asked) : FirstShowing(z, At(d)) = R(At(d))
        BY <2>0, <2>1, <2>2, FirstShowingIsResolved
      <3> QED
        BY <3>1, Zenon DEF Meant
    <2>4. \A d \in Int : R(At(d)) \in Int
      BY <2>0, <2>1, ResolvedIsFirst
    <2>5. future \subseteq Int
      BY <2>2, <2>3, <2>4
    <2>6. CASE expr.kind # "weekday"
      <3> DEFINE d == IF expr.kind = "tomorrow" THEN today + 1 ELSE expr.day
      <3>1. Asked(expr, asked) = {d}
        BY <2>0, <2>6 DEF Asked
      <3>2. w = At(d)
        BY <2>0, <2>6 DEF LocalCandidate
      <3>3. Meant = {R(w)}
        BY <2>3, <3>1, <3>2
      <3>4. \/ reply.is = "future" /\ reply.at = R(w) /\ R(w) > asked
            \/ reply.is = "past" /\ ~(R(w) > asked)
        BY <1>1, <2>6, ReplyIs
      <3>5. CASE R(w) > asked
        <4>1. future = {R(w)}
          BY <3>3, <3>5
        <4>2. Earliest(future) = R(w)
          BY <2>5, <4>1, EarliestIs
        <4> QED
          BY <3>4, <3>5, <4>1, <4>2 DEF AnswerIsTheNextTime
      <3>6. CASE ~(R(w) > asked)
        <4>1. future = {}
          BY <3>3, <3>6
        <4> QED
          BY <3>4, <3>6, <4>1 DEF AnswerIsTheNextTime
      <3> QED
        BY <3>5, <3>6
    <2>7. CASE expr.kind = "weekday"
      <3> DEFINE first == today + DaysUntil(expr.day, today)
      <3>1. /\ first \in today..today + Week - 1
            /\ first % Week = expr.day /\ (first + Week) % Week = expr.day
            /\ \A d \in Int : d >= today /\ d % Week = expr.day => d = first \/ d >= first + Week
        BY <2>0, <2>7, WeekdaysAhead
      <3>2. w = At(first) /\ first \in Int /\ first + Week \in Int
        BY <2>0, <2>7, <3>1 DEF LocalCandidate
      <3>3. next = At(first + Week)
        <4> HIDE DEF first, w
        <4> QED
          BY <2>0, <3>2
      <3>4. first \in Asked(expr, asked) /\ first + Week \in Asked(expr, asked)
        <4>1. first \in today..today + 2 * Week /\ first + Week \in today..today + 2 * Week
          <5> HIDE DEF first, today
          <5> QED
            BY <2>0, <3>1
        <4>2. Asked(expr, asked) = {d \in today..today + 2 * Week : d % Week = expr.day}
          BY <2>7 DEF Asked
        <4> HIDE DEF first, today
        <4> QED
          BY <3>1, <4>1, <4>2
      <3>5. ASSUME NEW d \in Asked(expr, asked)
            PROVE  d \in Int /\ (d = first \/ d >= first + Week)
        <4>1. d \in Int /\ d >= today /\ d % Week = expr.day
          BY <2>0, <2>7, <3>5 DEF Asked
        <4> QED
          BY <3>1, <4>1
      <3>6. R(w) \in Meant /\ R(next) \in Meant
        BY <2>3, <3>2, <3>3, <3>4
      <3>7. ASSUME NEW u \in Meant
            PROVE  u = R(w) \/ R(next) <= u
        <4>1. PICK d \in Asked(expr, asked) : u = R(At(d))
          BY <2>3, <3>7
        <4>2. CASE d = first
          BY <3>2, <4>1, <4>2
        <4>3. CASE d >= first + Week
          <5>1. d \in Int /\ first + Week \in Int /\ first + Week <= d
            BY <3>2, <3>5, <4>3
          <5>2. (first + Week) * Day <= d * Day
            BY <5>1, MultiplesInOrder
          <5>3. (first + Week) * Day \in Int /\ d * Day \in Int
            BY <2>0, <5>1
          <5>4. At(first + Week) <= At(d)
            <6> HIDE DEF first
            <6> QED
              BY <2>0, <5>2, <5>3
          <5>5. At(first + Week) \in Int /\ At(d) \in Int
            BY <2>1, <5>1
          <5> HIDE DEF At
          <5> QED
            BY <2>0, <3>3, <4>1, <5>4, <5>5, ResolvedInOrder
        <4> QED
          BY <3>5, <4>2, <4>3
      <3>8. R(w) \in Int /\ R(next) \in Int /\ R(w) <= R(next)
        <4>1. R(w) \in Int /\ R(next) \in Int /\ w \in Int /\ next \in Int
          BY <2>1, <2>4, <3>2, <3>3
        <4>2. w <= next
          <5> HIDE DEF w
          <5>1. Week * Day >= 0
            BY <2>0
          <5> QED
            BY <2>0, <4>1, <5>1
        <4> QED
          BY <2>0, <4>1, <4>2, ResolvedInOrder
      <3>9. R(next) > asked
        <4>1. (today + 2) * Day <= (first + Week) * Day
          <5>1. today + 2 \in Int /\ first + Week \in Int /\ today + 2 <= first + Week
            <6> HIDE DEF first, today
            <6> QED
              BY <2>0, <3>1
          <5> HIDE DEF first
          <5> QED
            BY <5>1, MultiplesInOrder
        <4>2. next \in Int /\ next >= (today + 2) * Day
          <5>1. (today + 2) * Day \in Int /\ (first + Week) * Day \in Int
            BY <2>0, <3>2
          <5> HIDE DEF first, today, next
          <5> QED
            BY <2>0, <3>3, <4>1, <5>1
        <4> HIDE DEF next
        <4> QED
          BY <2>0, <4>2, TwoDaysAhead
      <3>10. \/ reply.is = "future" /\ reply.at = R(w) /\ R(w) > asked
             \/ reply.is = "future" /\ reply.at = R(next) /\ ~(R(w) > asked)
        BY <1>1, <2>7, <3>9, ReplyIs
      <3>11. CASE R(w) > asked
        <4>1. R(w) \in future /\ \A u \in future : R(w) <= u
          <5> HIDE DEF w, next, R
          <5> QED
            BY <2>5, <3>6, <3>7, <3>8, <3>11
        <4>2. Earliest(future) = R(w)
          BY <2>5, <4>1, EarliestIs
        <4> QED
          BY <3>10, <3>11, <4>1, <4>2 DEF AnswerIsTheNextTime
      <3>12. CASE ~(R(w) > asked)
        <4>1. R(next) \in future /\ \A u \in future : R(next) <= u
          <5> HIDE DEF w, next, R
          <5> QED
            BY <2>5, <3>6, <3>7, <3>9, <3>12
        <4>2. Earliest(future) = R(next)
          BY <2>5, <4>1, EarliestIs
        <4> QED
          BY <3>10, <3>12, <4>1, <4>2 DEF AnswerIsTheNextTime
      <3> QED
        BY <3>11, <3>12
    <2> QED
      BY <2>6, <2>7
  <1>2. ASSUME reply.is \notin {"future", "past"}
        PROVE  AnswerIsTheNextTime
    BY <1>2 DEF AnswerIsTheNextTime
  <1>3. OwnerInv => AnswerIsTheNextTime
    BY <1>1, <1>2 DEF OwnerInv, Unanswered
  <1> QED
    BY <1>3, OwnerAlways, PTL

-----------------------------------------------------------------------------
(* A wall time is its date and its time of day.                             *)
LEMMA DateAndTime ==
  ASSUME NEW v \in Int, NEW d \in Int, NEW t \in 0..Day - 1
  PROVE  v % Day = t /\ DateOf(v) = d <=> v = d * Day + t
  <1>1. v = (v \div Day) * Day + (v % Day)
    BY DayAssumption, Remainder
  <1>2. (d * Day + t) % Day = t /\ (d * Day + t) \div Day = d
    BY DayAssumption, RemainderIs
  <1> QED
    BY <1>1, <1>2 DEF DateOf

(* What is shown on the day of an instant: the candidates of that day's     *)
(* wall time.                                                               *)
LEMMA ShownAre ==
  ASSUME Instants = Int, RemindInv, NEW at \in Int, reply.at = at
  PROVE  LET v == DateOf(Wall(remindZone, at)) * Day + expr.time
         IN  v \in Int /\ Shown = Candidates(remindZone, v)
  <1> DEFINE z == remindZone
             d == DateOf(Wall(z, at))
             v == d * Day + expr.time
  <1>1. z \in Zone /\ expr.time \in 0..Day - 1
    BY CandidateTypes
  <1>2. d \in Int
    BY <1>1, WallTypes, DateBounds
  <1>3. v \in Int
    BY <1>1, <1>2, DayAssumption
  <1>4. ASSUME NEW u \in Int
        PROVE  u \in Shown <=> u \in Candidates(z, v)
    <2>1. u \in Shown <=> Wall(z, u) % Day = expr.time /\ DateOf(Wall(z, u)) = d
      BY DEF Shown
    <2>2. Wall(z, u) \in Int
      BY <1>1, WallTypes
    <2>3. Wall(z, u) % Day = expr.time /\ DateOf(Wall(z, u)) = d <=> Wall(z, u) = v
      BY <1>1, <1>2, <2>2, DateAndTime
    <2>4. u \in Candidates(z, v) <=> Wall(z, u) = v
      BY <1>1, <1>3, CandidatesAreShowings
    <2> QED
      BY <2>1, <2>3, <2>4, Zenon
  <1>5. Shown \subseteq Int /\ Candidates(z, v) \subseteq Int
    BY <1>1, <1>3, CandidatesType DEF Shown
  <1> QED
    BY <1>3, <1>4, <1>5

(* Where a clock skips wall times none is shown twice.                      *)
LEMMA OnceAtMost ==
  ASSUME NEW z \in Zone, z.before < z.after, NEW v \in Int
  PROVE  Cardinality(Candidates(z, v)) # 2
  <1>1. \A a, b \in Candidates(z, v) : a = b
    <2>1. \A a, b \in Int : Wall(z, a) = v /\ Wall(z, b) = v => a = b
      BY DEF Zone, Wall, Offset
    <2> QED
      BY <2>1, CandidatesType, CandidatesAreShowings
  <1>2. CASE Candidates(z, v) = {}
    BY <1>2, FS_EmptySet
  <1>3. CASE Candidates(z, v) # {}
    <2>1. PICK a \in Candidates(z, v) : TRUE
      BY <1>3
    <2>2. Candidates(z, v) = {a}
      BY <1>1, <2>1
    <2> QED
      BY <2>2, FS_Singleton
  <1> QED
    BY <1>2, <1>3

(* The note on daylight saving is true, for every date and time of day.     *)
LEMMA WarningOf ==
  ASSUME Instants = Int, RemindInv, NEW date \in Int,
         reply.at = Resolved(remindZone, date * Day + expr.time),
         reply.warning = Warning(remindZone, date * Day + expr.time)
  PROVE  /\ reply.warning = "ambiguous_time_first_occurrence" <=> Cardinality(Shown) = 2
         /\ reply.warning = "nonexistent_time_moved_forward" <=> reply.at \notin Shown
  <1> DEFINE z == remindZone
             w == date * Day + expr.time
             at == Resolved(z, w)
             d == DateOf(Wall(z, at))
             v == d * Day + expr.time
  <1>0. /\ z \in Zone /\ High(z) - Low(z) < Day /\ High(z) - Low(z) <= Day
        /\ expr.time \in 0..Day - 1 /\ Day \in Nat \ {0}
        /\ Low(z) \in Int /\ High(z) \in Int
    BY CandidateTypes, DayAssumption, WallTypes
  <1>1. w \in Int
    BY <1>0
  <1>2. /\ at \in Int /\ Wall(z, at) >= w
        /\ \A u \in Int : Wall(z, u) >= w => at <= u
    BY <1>0, <1>1, ResolvedIsFirst
  <1>3. v \in Int /\ Shown = Candidates(z, v)
    BY <1>2, ShownAre
  <1>4. at \in Shown <=> Wall(z, at) = v
    BY <1>0, <1>2, <1>3, CandidatesAreShowings
  <1>5. CASE Candidates(z, w) # {}
    <2>1. at = Earliest(Candidates(z, w))
      BY <1>5 DEF Resolved
    <2>2. Wall(z, at) = w
      BY <1>0, <1>1, <1>5, <2>1, FirstCandidate
    <2>3. d = date
      BY <1>0, <1>1, <2>2, DateAndTime
    <2>4. v = w
      BY <2>3
    <2>5. at \in Shown /\ Shown = Candidates(z, w)
      BY <1>3, <1>4, <2>2, <2>4
    <2>6. reply.warning = IF Cardinality(Shown) = 2 THEN "ambiguous_time_first_occurrence"
                                                    ELSE "none"
      BY <1>5, <2>5 DEF Warning
    <2> QED
      BY <2>5, <2>6
  <1>6. CASE Candidates(z, w) = {}
    <2>1. z.before < z.after /\ Low(z) <= w /\ w < High(z)
      BY <1>0, <1>1, <1>6, NotShown
    <2>2. reply.warning = "nonexistent_time_moved_forward"
      <3>1. Cardinality(Candidates(z, w)) = 0
        BY <1>6, FS_EmptySet
      <3> QED
        BY <1>6, <3>1 DEF Warning
    <2>3. Wall(z, at) = High(z)
      <3>1. z.at \in Int /\ Wall(z, z.at) = High(z)
        BY <1>0, <2>1 DEF Zone, Wall, Offset, High
      <3>2. at <= z.at
        BY <1>0, <1>1, <1>2, <2>1, <3>1
      <3>3. ~(at < z.at)
        <4>1. at < z.at => Wall(z, at) < Low(z)
          BY <1>0, <1>2, <2>1 DEF Zone, Wall, Offset, Low
        <4>2. Wall(z, at) \in Int
          BY <1>0, <1>2, WallTypes
        <4> QED
          BY <1>0, <1>1, <1>2, <2>1, <4>1, <4>2
      <3>4. at = z.at
        BY <1>2, <3>1, <3>2, <3>3
      <3> QED
        BY <3>1, <3>4
    <2>4. Wall(z, at) # v
      <3> SUFFICES ASSUME Wall(z, at) = v
                   PROVE  FALSE
        OBVIOUS
      <3>1. High(z) = d * Day + expr.time /\ d \in Int
        BY <1>0, <1>2, <2>3, WallTypes, DateBounds
      <3>2. date < d \/ d <= date
        BY <3>1
      <3>3. CASE date < d
        <4>1. date * Day + Day <= d * Day
          BY <1>0, <3>1, <3>3, MultiplesRise
        <4>2. date * Day \in Int /\ d * Day \in Int
          BY <1>0, <3>1
        <4> HIDE DEF d
        <4> QED
          BY <1>0, <2>1, <3>1, <4>1, <4>2
      <3>4. CASE d <= date
        <4>1. d * Day <= date * Day
          BY <3>1, <3>4, MultiplesInOrder
        <4>2. date * Day \in Int /\ d * Day \in Int
          BY <1>0, <3>1
        <4> HIDE DEF d
        <4> QED
          BY <1>0, <2>1, <3>1, <4>1, <4>2
      <3> QED
        BY <3>2, <3>3, <3>4
    <2>5. Cardinality(Shown) # 2
      BY <1>0, <1>3, <2>1, OnceAtMost
    <2> QED
      BY <1>4, <2>2, <2>4, <2>5
  <1> QED
    BY <1>5, <1>6

LEMMA CandidateOfADate ==
  ASSUME RemindInv
  PROVE  \E date \in Int :
           LocalCandidate(remindZone, expr, asked) = date * Day + expr.time
  <1> DEFINE today == DateOf(Wall(remindZone, asked))
  <1>0. /\ today \in Int /\ Week \in Nat \ {0}
        /\ expr.kind \in {"tomorrow", "weekday", "date"}
        /\ expr.kind = "weekday" => expr.day \in 0..Week - 1
        /\ expr.kind = "date" => expr.day \in Int
    BY CandidateTypes, ReminderTimeAssumption
  <1>1. CASE expr.kind = "tomorrow"
    <2>1. today + 1 \in Int
      BY <1>0
    <2> QED
      BY <1>1, <2>1 DEF LocalCandidate
  <1>2. CASE expr.kind = "weekday"
    <2>1. expr.day - today \in Int
      BY <1>0, <1>2
    <2>2. DaysUntil(expr.day, today) \in 0..Week - 1
      BY <1>0, <2>1, Remainder DEF DaysUntil
    <2>3. today + DaysUntil(expr.day, today) \in Int
      <3> HIDE DEF today
      <3> QED
        BY <1>0, <2>2
    <2> QED
      BY <1>2, <2>3 DEF LocalCandidate
  <1>3. CASE expr.kind = "date"
    BY <1>0, <1>3 DEF LocalCandidate
  <1> QED
    BY <1>0, <1>1, <1>2, <1>3

(* The confirmation's note on daylight saving is true of the time of day    *)
(* that was asked for (_find_valid_utc_candidates,                          *)
(* _resolve_local_datetime): it comes twice on that day, or never.          *)
THEOREM WarningsAreTrue ==
  ASSUME Instants = Int
  PROVE  OwnerSpec => []WarningIsTrue
  <1>1. ASSUME RemindInv, reply.is = "future"
        PROVE  WarningIsTrue
    <2> DEFINE w == LocalCandidate(remindZone, expr, asked)
    <2>1. PICK date \in Int : w = date * Day + expr.time
      BY <1>1, CandidateOfADate
    <2>2. /\ expr.time \in Int /\ Week * Day \in Int /\ date * Day \in Int
          /\ (date + Week) * Day = date * Day + Week * Day
          /\ date + Week \in Int
      BY <1>1, CandidateTypes, DayAssumption, ReminderTimeAssumption
    <2>3. w + Week * Day = (date + Week) * Day + expr.time
      <3> HIDE DEF w
      <3> QED
        BY <2>1, <2>2
    <2>4. \E d \in Int : /\ reply.at = Resolved(remindZone, d * Day + expr.time)
                         /\ reply.warning = Warning(remindZone, d * Day + expr.time)
      <3>1. \/ /\ reply.at = Resolved(remindZone, w)
               /\ reply.warning = Warning(remindZone, w)
            \/ /\ reply.at = Resolved(remindZone, w + Week * Day)
               /\ reply.warning = Warning(remindZone, w + Week * Day)
        BY <1>1, ReplyIs
      <3> HIDE DEF w
      <3> QED
        BY <2>1, <2>2, <2>3, <3>1
    <2> QED
      BY <1>1, <2>4, WarningOf DEF WarningIsTrue
  <1>2. OwnerInv => WarningIsTrue
    BY <1>1 DEF OwnerInv, Unanswered, WarningIsTrue
  <1> QED
    BY <1>2, OwnerAlways, PTL

=============================================================================
