----------------------------- MODULE CronSearch -----------------------------
(***************************************************************************)
(* next_fire_after and the loop of preview (and of due_firing) around it:   *)
(* the search for the instants at which a five-field expression fires in a  *)
(* zone with one daylight-saving transition.                                *)
(*                                                                          *)
(* The calendar is scaled down: Minutes to the hour, Hours to the day and a *)
(* week of two days.  A civil time is its number of minutes since the       *)
(* start, and so is an instant, the offset being zero before the            *)
(* transition.  Months are left out: they only narrow the date.             *)
(***************************************************************************)
EXTENDS Integers, FiniteSets, FiniteSetsExt

CONSTANTS
    Minutes, Hours, Days,   \* the scaled calendar; Days is the horizon
    Zones,                  \* the zones: which transition, and its length in minutes
    StepMax,                \* CRON_SEARCH_STEP_COUNT_MAX
    RunMax                  \* CRON_PREVIEW_COUNT_MAX

Civil == 0..(Minutes * Hours * Days - 1)
MinuteOf(c) == c % Minutes
HourOf(c) == (c \div Minutes) % Hours
DayOf(c) == c \div (Minutes * Hours)
WeekDays == {0, 1}

(* CronExpr: the bitsets and, for the Vixie rule, which day fields are "*".   *)
DayFields(range) == [set: (SUBSET range) \ {{}}, restricted: BOOLEAN]
IsStarOrList(f, range) == ~f.restricted => f.set = range
Exprs == {e \in [minutes: (SUBSET (0..(Minutes - 1))) \ {{}}, hours: (SUBSET (0..(Hours - 1))) \ {{}},
                 dom: DayFields(0..(Days - 1)), dow: DayFields(WeekDays)] :
            IsStarOrList(e.dom, 0..(Days - 1)) /\ IsStarOrList(e.dow, WeekDays)}

(* The transition falls at the start of hour 1 of day 0.                     *)
Transition == Minutes

ASSUME SearchAssumption ==
    /\ Minutes \in Nat \ {0} /\ Hours \in Nat \ {0} /\ Days \in Nat \ {0}
    /\ Zones \subseteq [kind: {"fixed", "gap", "fold"}, shift: Nat \ {0}]
    /\ StepMax \in Nat \ {0} /\ RunMax \in Nat \ {0}

VARIABLES
    expr, zone,   \* the schedule
    start,        \* the instant the preview starts after
    searchPc,           \* "search", "next" or "done"
    cursor,       \* after_ts_ms of the current search
    candidate,    \* the civil minute under test
    steps,        \* steps of the current search
    found          \* the firings found, in order

searchVars == <<expr, zone, start, searchPc, cursor, candidate, steps, found>>

-----------------------------------------------------------------------------
(* The zone: what the tz library answers.                                    *)
CivilOf(z, t) ==
    CASE z.kind = "gap" /\ t >= Transition -> t + z.shift
      [] z.kind = "fold" /\ t >= Transition + z.shift -> t - z.shift
      [] OTHER -> t

(* Disambiguation::Compatible: a gap shifts forward, a fold takes the first. *)
Compatible(z, c) ==
    CASE z.kind = "gap" /\ c >= Transition + z.shift -> c - z.shift
      [] z.kind = "fold" /\ c >= Transition + z.shift -> c + z.shift
      [] OTHER -> c

InGap(z, c) == z.kind = "gap" /\ Transition <= c /\ c < Transition + z.shift

MatchesMinute(e, c) == MinuteOf(c) \in e.minutes
MatchesHour(e, c) == HourOf(c) \in e.hours

(* matches_date: when both day fields are restricted either one will do.     *)
MatchesDate(e, c) ==
    LET dom == DayOf(c) \in e.dom.set
        dow == DayOf(c) % 2 \in e.dow.set
    IN IF e.dom.restricted /\ e.dow.restricted THEN dom \/ dow ELSE dom /\ dow

(* Slip of StartOfNextHour: the first minute of the hour is passed over.     *)
StartOfNextHourLate(c) == (c \div Minutes + 1) * Minutes + 1

StartOfNextHour(c) == (c \div Minutes + 1) * Minutes
StartOfNextDay(c) == (DayOf(c) + 1) * Minutes * Hours

-----------------------------------------------------------------------------
SearchInit ==
    /\ expr \in Exprs
    /\ zone \in Zones
    /\ start \in 0..(Transition + 2 * zone.shift)
    /\ searchPc = "next"
    /\ cursor = start
    /\ candidate = 0
    /\ steps = 0
    /\ found = {}

(* preview: the next search starts at the minute after the cursor.           *)
BeginSearch ==
    /\ searchPc = "next"
    /\ Cardinality(found) < RunMax
    /\ candidate' = CivilOf(zone, cursor) + 1
    /\ steps' = 0
    /\ searchPc' = "search"
    /\ UNCHANGED <<expr, zone, start, cursor, found>>

Searching == searchPc = "search" /\ steps < StepMax /\ candidate \in Civil

Step(next) ==
    /\ candidate' = next
    /\ steps' = steps + 1
    /\ UNCHANGED <<expr, zone, start, searchPc, cursor, found>>

SkipDay ==
    /\ Searching
    /\ ~MatchesDate(expr, candidate)
    /\ Step(StartOfNextDay(candidate))

SkipHour ==
    /\ Searching
    /\ MatchesDate(expr, candidate)
    /\ ~MatchesHour(expr, candidate)
    /\ Step(StartOfNextHour(candidate))

Matches(e, c) == MatchesDate(e, c) /\ MatchesHour(e, c) /\ MatchesMinute(e, c)

(* The minute does not match, or it does at an instant already past.         *)
SkipMinute ==
    /\ Searching
    /\ MatchesDate(expr, candidate) /\ MatchesHour(expr, candidate)
    /\ ~MatchesMinute(expr, candidate) \/ Compatible(zone, candidate) <= cursor
    /\ Step(candidate + 1)

Hit ==
    /\ Searching
    /\ Matches(expr, candidate)
    /\ Compatible(zone, candidate) > cursor
    /\ cursor' = Compatible(zone, candidate)
    /\ found' = found \cup {cursor'}
    /\ searchPc' = "next"
    /\ UNCHANGED <<expr, zone, start, candidate, steps>>

(* No firing within the bound: next_fire_after answers None, or the preview  *)
(* has all the firings it was asked for.                                        *)
Stop ==
    /\ \/ searchPc = "search" /\ ~Searching
       \/ searchPc = "next" /\ Cardinality(found) = RunMax
    /\ searchPc' = "done"
    /\ UNCHANGED <<expr, zone, start, cursor, candidate, steps, found>>

SearchNext == BeginSearch \/ SkipDay \/ SkipHour \/ SkipMinute \/ Hit \/ Stop

SearchSpec == SearchInit /\ [][SearchNext]_searchVars

-----------------------------------------------------------------------------
(* The reference: every matching civil minute, at the instant it falls on.    *)
Matching == {c \in Civil : Matches(expr, c)}
Firings == {Compatible(zone, c) : c \in Matching}

(* Types of the search.                                                      *)
SearchTypeOK ==
    /\ expr \in Exprs /\ zone \in Zones
    /\ searchPc \in {"next", "search", "done"}
    /\ steps \in 0..StepMax
    /\ candidate \in Nat
    /\ found \subseteq Nat

(* Only firings of the schedule are found, each one once and after the start *)
(* (a repeated civil hour is not visited a second time).                     *)
OnlyFirings ==
    /\ found \subseteq {f \in Firings : f > start}
    /\ \A f \in found : f <= cursor

(* A firing inside a gap, moved forward, falls on a later instant than c      *)
(* although its civil time is earlier: a search that began before the        *)
(* transition finds it first and never looks at c.                           *)
Overtaken(c) ==
    /\ start < Transition
    /\ \E x \in Matching : InGap(zone, x) /\ x < c /\ Compatible(zone, c) < Compatible(zone, x)

(* The minutes whose firing is due: the civil time exists, its instant is    *)
(* after the start and, unless the gap is an hour long, no firing of the gap *)
(* overtakes it.                                                             *)
FallsDue(c) ==
    /\ ~InGap(zone, c)
    /\ Compatible(zone, c) > start
    /\ zone.shift = Minutes \/ ~Overtaken(c)

(* No firing that is due is passed over, in the hours around a transition    *)
(* and in the search that skips whole days and hours; and the step bound is  *)
(* never what ends a search.                                                 *)
NoFiringPassedOver ==
    /\ \A c \in Matching : FallsDue(c) /\ Compatible(zone, c) <= cursor => Compatible(zone, c) \in found
    /\ searchPc = "done" /\ Cardinality(found) < RunMax =>
          \A c \in Matching : FallsDue(c) => Compatible(zone, c) \in found

(* A preview lists the firings due after its start, all of them, and nothing *)
(* that is not a firing.                                                     *)
SearchSound == SearchTypeOK /\ OnlyFirings /\ NoFiringPassedOver
=============================================================================
