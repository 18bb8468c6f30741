------------------------------- MODULE WallClock -------------------------------
(***************************************************************************)
(* Instants and wall-clock times on the calendar page                      *)
(* (apps/web/lib/api/calendar.ts and the form of                           *)
(* components/calendar/detail-panel.tsx): how an item of the database is   *)
(* shown in its timezone, what the form of a shown item holds, and what    *)
(* the form sends back.                                                    *)
(*                                                                         *)
(* Instants and local times are integers, a date and a time of day one     *)
(* number: date * Day + time.  They are finer than a minute, as the columns *)
(* and the API are; the page shows and sends whole minutes.  A timezone     *)
(* changes its offset once; around the change local times are skipped or    *)
(* shown twice.                                                            *)
(***************************************************************************)
EXTENDS ApiRequests, Integers

CONSTANTS
  Minute, \* the length of a minute
  Day,   \* the length of a day
  Nine,  \* 09:00 and 10:00, the times the forms start from
  Ten

(* The whole minutes. *)
Minutes == {x \in Int : x % Minute = 0}

ASSUME WallClockAssumption ==
  /\ Minute \in Nat \ {0}
  /\ Day \in Minutes /\ Day > 0
  /\ Nine \in Minutes \cap 0..(Day - 1) /\ Ten \in Minutes \cap 0..(Day - 1)
  /\ Null \notin Int

(* An offset before the change and one from then on, of whole minutes (as   *)
(* all are since 1972). *)
Zone == [change : Minutes, before : Minutes, after : Minutes]

-----------------------------------------------------------------------------
(* partsInTimezone: what a clock of the zone shows at an instant, with the  *)
(* seconds its callers drop.                                               *)
Rendered(z, instant) == instant + IF instant < z.change THEN z.before ELSE z.after

ToMinute(local) == local - (local % Minute)

(* zonedDate; zonedTime, which is HH:MM. *)
DateOf(local) == local \div Day
TimeOf(local) == ToMinute(local) % Day

(* One round of the loop of zonedDateTimeToIso, which sets the seconds it   *)
(* compares to 0.                                                          *)
Corrected(z, local, guess) == guess + (local - ToMinute(Rendered(z, guess)))

Once(z, local) == Corrected(z, local, local)

(* The loop runs four times; after a correction of 0 it would change        *)
(* nothing.                                                                *)
Converted(z, local) ==
  LET second == Corrected(z, local, Corrected(z, local, local))
  IN Corrected(z, local, Corrected(z, local, second))

(* zonedDateTimeToIso: a local time that does not exist is refused.         *)
Zoned(z, date, time) ==
  LET local == date * Day + time
      instant == Converted(z, local)
  IN IF ToMinute(Rendered(z, instant)) = local THEN instant ELSE Null

-----------------------------------------------------------------------------
(* The columns of calendar_items that say when an item is.  startsAt is set *)
(* for every item, startsOn just for an all-day one.                       *)
Timing(allDay, startsAt, endsAt, startsOn, endsOn) ==
  [allDay |-> allDay, startsAt |-> startsAt, endsAt |-> endsAt,
   startsOn |-> startsOn, endsOn |-> endsOn]

TimingRow ==
  [allDay : BOOLEAN, startsAt : Int \cup {Null}, endsAt : Int \cup {Null},
   startsOn : Int \cup {Null}, endsOn : Int \cup {Null}]

MidnightUtc(date) == IF date = Null THEN Null ELSE date * Day

(* normalizedTiming of the server, Null where it throws. *)
Normalized(t) ==
  IF t.allDay
  THEN IF t.startsOn = Null \/ (t.endsOn # Null /\ t.endsOn < t.startsOn) THEN Null
       ELSE Timing(TRUE, MidnightUtc(t.startsOn), MidnightUtc(t.endsOn), t.startsOn, t.endsOn)
  ELSE IF t.endsAt # Null /\ t.endsAt < t.startsAt THEN Null
       ELSE Timing(FALSE, t.startsAt, t.endsAt, Null, Null)

(* The timings of stored items. *)
Normal == {t \in TimingRow : t.startsAt # Null /\ Normalized(t) = t}

Clocked(t) == t.endsAt # Null /\ ~t.allDay

ZonedDate(z, t) == DateOf(Rendered(z, t.startsAt))
StartDate(z, t) == IF t.allDay THEN t.startsOn ELSE DateOf(Rendered(z, t.startsAt))

(* toCalendarItemView: an end on the day of the start is not shown as a     *)
(* date of its own.                                                        *)
View(z, t) ==
  [ allDay |-> t.allDay,
    date |-> StartDate(z, t),
    endDate |->
      IF t.allDay THEN t.endsOn
      ELSE IF Clocked(t) /\ DateOf(Rendered(z, t.endsAt)) # StartDate(z, t)
           THEN DateOf(Rendered(z, t.endsAt)) ELSE Null,
    time |-> IF t.allDay THEN Null ELSE TimeOf(Rendered(z, t.startsAt)),
    endTime |-> IF Clocked(t) THEN TimeOf(Rendered(z, t.endsAt)) ELSE Null ]

Or(value, default) == IF value = Null THEN default ELSE value

(* The state the detail panel starts from when it is mounted for an item.   *)
FormOf(view) ==
  [ allDay |-> view.allDay, date |-> view.date, endDate |-> Or(view.endDate, view.date),
    time |-> Or(view.time, Nine), endTime |-> Or(view.endTime, Ten) ]

FormRow == [allDay : BOOLEAN, date : Int, endDate : Int, time : Minutes, endTime : Minutes]

(* The times of an input: what toUpdateRequest and toCreateRequest make of  *)
(* the fields the form hands over.  A timed item ends on the day it starts. *)
Requested(z, form) ==
  IF form.allDay
  THEN Timing(TRUE, Null, Null, form.date,
              IF form.endDate # form.date THEN form.endDate ELSE Null)
  ELSE Timing(FALSE, Zoned(z, form.date, form.time), Zoned(z, form.date, form.endTime),
              Null, Null)

(* zonedDateTimeToIso throws before anything is sent. *)
CannotSend(t) == ~t.allDay /\ (t.startsAt = Null \/ t.endsAt = Null)

-----------------------------------------------------------------------------
(* An item's times without the seconds the page does not show.              *)
OnTheMinute(t) ==
  [t EXCEPT !.startsAt = ToMinute(@), !.endsAt = IF @ = Null THEN Null ELSE ToMinute(@)]

(* The items whose times the form can hold to the minute: all-day and of    *)
(* one day without an end or of more, or timed with an end on the local day *)
(* of the start and not in a minute the clock shows twice.                 *)
ShownTwice(z, instant) ==
  LET moved == z.after - z.before
  IN \E other \in {instant - moved, instant + moved} :
       other # instant /\ Rendered(z, other) = Rendered(z, instant)

Holdable(z, t) ==
  IF t.allDay THEN t.endsOn # t.startsOn
  ELSE /\ t.endsAt # Null
       /\ DateOf(Rendered(z, t.endsAt)) = DateOf(Rendered(z, t.startsAt))
       /\ ~ShownTwice(z, ToMinute(t.startsAt)) /\ ~ShownTwice(z, ToMinute(t.endsAt))
=============================================================================
