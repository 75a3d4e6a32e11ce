------------------------------- MODULE Timer -------------------------------
(***************************************************************************)
(* The times of a timer (cTimer, cTimer::const_iterator): when it occurs,   *)
(* when it has expired, which occurrence it is sorted by, and whether two   *)
(* timers conflict.  A timer has a first start, a duration, a set of        *)
(* weekdays, empty if it occurs once, and the start of its last day.        *)
(***************************************************************************)
EXTENDS Integers, FiniteSetsExt

CONSTANTS
  Day,        \* the length of a day
  Weekdays    \* the number of days of a week

ASSUME DayAssumption == {Day, Weekdays} \subseteq Nat \ {0}

Weekday(time) == (time \div Day) % Weekdays

(* The rewind to a day of the mask never takes place: its condition         *)
(* "weekdayMask & (1 << day) == 0" compares before it masks.                *)
GetExpiration(start, mask, deadline) ==
  IF mask = {} \/ deadline < start THEN start
  ELSE start + Day * ((deadline - start) \div Day)

(* The starts from begin() to end(): the first one whatever its weekday,    *)
(* then the days of the mask up to the last one.                            *)
Starts(t) ==
  {s \in t.start .. t.expires :
     /\ (s - t.start) % Day = 0
     /\ s # t.start => Weekday(s) \in t.mask}

IsExpired(t, now) == t.expires + t.duration <= now

IsOccurring(t, now) == \E s \in Starts(t) : s <= now /\ now < s + t.duration

(* Mutant: the occurrence that ends now is taken for the next one. *)
GetSortOccurrenceEnding(t, now) ==
  LET ahead == {s \in Starts(t) : now <= s + t.duration}
  IN IF IsExpired(t, now) THEN t.expires
     ELSE IF ahead = {} THEN t.expires + Day
     ELSE Min(ahead)

(* Past the last day of the mask the iterator stops on the day after the    *)
(* last.                                                                    *)
GetSortOccurrence(t, now) ==
  LET ahead == {s \in Starts(t) : now < s + t.duration}
  IN IF IsExpired(t, now) THEN t.expires
     ELSE IF ahead = {} THEN t.expires + Day
     ELSE Min(ahead)

(* The starts are looked at in order, until the other timer has expired.    *)
Conflicts(t, other) ==
  \E s \in Starts(t) :
    /\ ~IsExpired(other, s)
    /\ IsOccurring(other, s) \/ GetSortOccurrence(other, s) < s + t.duration

=============================================================================
