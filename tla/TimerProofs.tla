---------------------------- MODULE TimerProofs ----------------------------
(***************************************************************************)
(* Proofs about the timers: that the test for conflicts finds every        *)
(* overlap, so that AddTimer() admits none, and that Stop() reaches the     *)
(* thread.                                                                  *)
(***************************************************************************)
EXTENDS TimerManager, FiniteSetTheorems, WellFoundedInduction, TLAPS

-----------------------------------------------------------------------------
(* The times.                                                               *)

(* A set of times that is not empty has a first one, which Min() returns.   *)
LEMMA MinIsLeast ==
  ASSUME NEW S, S \subseteq Nat, S # {}
  PROVE  Min(S) \in S /\ \A y \in S : Min(S) <= y
<1>1. PICK x \in S : \A y \in S : ~(<<y, x>> \in OpToRel(<, Nat))
  BY NatLessThanWellFounded, WFMin
<1>2. \A y \in S : ~(y < x)
  BY <1>1 DEF OpToRel
<1>3. \A y \in S : x <= y
  BY <1>2
<1> QED
  BY <1>3 DEF Min

(* The times of a timer in the table.                                       *)
TimesOK(t) == t.start \in Nat /\ t.duration \in Nat /\ t.expires \in Nat

(* The starts are from the first to the last.                               *)
LEMMA StartsAreTimes ==
  ASSUME NEW t, TimesOK(t)
  PROVE  Starts(t) \subseteq Nat /\ \A s \in Starts(t) : s <= t.expires
BY DEF Starts, TimesOK

(* Conflicts() looks for a coincidence only at the starts of one timer and  *)
(* with the next occurrence of the other; it finds every overlap all the    *)
(* same.                                                                    *)
THEOREM ConflictsIsComplete ==
  ASSUME NEW t, NEW other, TimesOK(t), TimesOK(other), Overlap(t, other)
  PROVE  Conflicts(t, other)
<1>1. PICK s \in Starts(t), u \in Starts(other) : s < u + other.duration /\ u < s + t.duration
  BY DEF Overlap
<1>2. /\ s \in Nat /\ u \in Nat /\ u <= other.expires
      /\ t.duration \in Nat /\ other.duration \in Nat /\ other.expires \in Nat
  BY StartsAreTimes DEF TimesOK
<1>3. ~IsExpired(other, s)
  BY <1>1, <1>2 DEF IsExpired
<1>4. CASE u <= s
  BY <1>1, <1>3, <1>4 DEF Conflicts, IsOccurring
<1>5. CASE s < u
  <2> DEFINE ahead == {v \in Starts(other) : s < v + other.duration}
  <2>1. u \in ahead /\ ahead \subseteq Nat
    BY <1>1, StartsAreTimes
  <2>2. Min(ahead) \in Nat /\ Min(ahead) <= u
    BY <2>1, MinIsLeast
  <2>3. GetSortOccurrence(other, s) = Min(ahead)
    BY <1>3, <2>1 DEF GetSortOccurrence
  <2>4. GetSortOccurrence(other, s) < s + t.duration
    BY <1>1, <1>2, <2>2, <2>3
  <2> QED
    BY <1>3, <2>4 DEF Conflicts
<1> QED
  BY <1>2, <1>4, <1>5

(* An occurrence is sorted by its own start.                                *)
LEMMA OccurringIsSortedByItsStart ==
  ASSUME NEW t, NEW now \in Nat, TimesOK(t), IsOccurring(t, now)
  PROVE  GetSortOccurrence(t, now) \in Nat /\ GetSortOccurrence(t, now) <= now
<1> DEFINE ahead == {v \in Starts(t) : now < v + t.duration}
<1>1. PICK s \in Starts(t) : s <= now /\ now < s + t.duration
  BY DEF IsOccurring
<1>2. s \in Nat /\ s <= t.expires /\ t.duration \in Nat /\ t.expires \in Nat
  BY StartsAreTimes DEF TimesOK
<1>3. ~IsExpired(t, now)
  BY <1>1, <1>2 DEF IsExpired
<1>4. s \in ahead /\ ahead \subseteq Nat
  BY <1>1, StartsAreTimes
<1>5. Min(ahead) \in Nat /\ Min(ahead) <= s
  BY <1>4, MinIsLeast
<1>6. GetSortOccurrence(t, now) = Min(ahead)
  BY <1>3, <1>4 DEF GetSortOccurrence
<1> QED
  BY <1>1, <1>2, <1>5, <1>6

(* The occurrence a timer is sorted by is a time.                           *)
LEMMA SortOccurrenceIsTime ==
  ASSUME NEW t, NEW now \in Nat, TimesOK(t)
  PROVE  GetSortOccurrence(t, now) \in Nat
<1> DEFINE ahead == {v \in Starts(t) : now < v + t.duration}
<1>1. ahead # {} => Min(ahead) \in Nat
  BY StartsAreTimes, MinIsLeast
<1>2. t.expires \in Nat /\ t.expires + Day \in Nat
  BY DayAssumption DEF TimesOK
<1> QED
  BY <1>1, <1>2 DEF GetSortOccurrence

-----------------------------------------------------------------------------
(* The types of the timers, the recordings and the requests.                *)

TimerType ==
  [start : Nat, duration : Nat, mask : SUBSET (0..(Weekdays - 1)), expires : Nat,
   channel : Nat, active : BOOLEAN, named : BOOLEAN, recording : Nat]

RecordingType == [channel : Nat, start : Nat, end : Nat]

SettingsType ==
  [start : Nat, duration : Nat, mask : SUBSET (0..(Weekdays - 1)), lifetime : Nat,
   channel : Nat, active : BOOLEAN, named : BOOLEAN]

RequestType ==
  [at : {"idle", "time", "channel", "active", "announce", "saving"}, id : Nat, new : SettingsType]

EventType == [signaled : BOOLEAN, broadcast : BOOLEAN, waiting : 0..2]

ThreadType(n) ==
  [at : {"loop", "list", "wait", "off"}, now : Nat, list : Seq(1..n), until : Nat, ticked : BOOLEAN]

(* What a client sends is well typed.                                       *)
LEMMA SettingsAreTyped == ASSUME NEW new \in Settings PROVE new \in SettingsType
BY SettingsAssumption DEF SettingsType

(* A well typed timer has proper times.                                     *)
LEMMA TimerTypeIsOK == ASSUME NEW t \in TimerType PROVE TimesOK(t)
BY DEF TimerType, TimesOK

(* The last day of what a client sends is a time.                           *)
LEMMA ExpirationIsTime ==
  ASSUME NEW new \in Settings
  PROVE  GetExpiration(new.start, new.mask, new.start + new.lifetime * Day) \in Nat
<1>1. new.start \in Nat /\ new.lifetime \in Nat
  BY SettingsAssumption
<1>2. Day \in Nat /\ Day # 0
  BY DayAssumption
<1>3. ASSUME NEW a \in Nat, NEW l \in Nat
      PROVE  (a + l * Day) - a = l * Day /\ l * Day \in Nat
  BY <1>2
<1>4. ASSUME NEW p \in Nat
      PROVE  p \div Day \in Nat
  BY <1>2
<1>5. ASSUME NEW q \in Nat
      PROVE  Day * q \in Nat
  BY <1>2
<1>6. ASSUME NEW a \in Nat, NEW l \in Nat
      PROVE  a + Day * (((a + l * Day) - a) \div Day) \in Nat
  <2>1. (l * Day) \div Day \in Nat
    BY <1>3, <1>4
  <2>2. Day * ((l * Day) \div Day) \in Nat
    BY <2>1, <1>5
  <2>3. a + Day * ((l * Day) \div Day) \in Nat
    BY <2>2
  <2> QED
    BY <1>3, <2>3
<1>7. new.start + Day * (((new.start + new.lifetime * Day) - new.start) \div Day) \in Nat
  BY <1>1, <1>6
<1> QED
  BY <1>1, <1>7, Zenon DEF GetExpiration

(* A timer set to what a client sends is well typed.                        *)
LEMMA TimedIsTyped ==
  ASSUME NEW old \in TimerType, NEW new \in Settings
  PROVE  Timed(old, new) \in TimerType /\ Timed(old, new).recording = old.recording
BY ExpirationIsTime, SettingsAssumption DEF Timed, TimerType

(* A new timer is well typed and has recorded nothing.                      *)
LEMMA NewTimerIsTyped ==
  ASSUME NEW new \in Settings
  PROVE  NewTimer(new) \in TimerType /\ NewTimer(new).recording = 0
<1>1. new.channel \in Nat /\ new.active \in BOOLEAN /\ new.named \in BOOLEAN
  BY SettingsAssumption
<1> DEFINE blank == [start |-> 0, duration |-> 0, mask |-> {}, expires |-> 0, channel |-> new.channel,
                     active |-> new.active, named |-> new.named, recording |-> 0]
<1>2. blank \in TimerType /\ blank.recording = 0
  BY <1>1 DEF TimerType
<1> HIDE DEF blank
<1>3. Timed(blank, new) \in TimerType /\ Timed(blank, new).recording = 0
  BY <1>2, TimedIsTyped
<1> QED
  BY <1>3 DEF NewTimer, blank

-----------------------------------------------------------------------------
(* The inductive invariant.                                                 *)

TypeInv ==
  /\ clock \in 0..MaxTime
  /\ timer \in Seq(TimerType) /\ Len(timer) <= MaxTimers
  /\ table \subseteq 1..Len(timer) /\ saved \subseteq 1..MaxTimers
  /\ recordings \in Seq(RecordingType)
  /\ stop \in {"no", "set", "told"}
  /\ event \in EventType
  /\ thread \in ThreadType(Len(timer))
  /\ request \in RequestType

FlagInv == changed \in BOOLEAN /\ touched \in BOOLEAN /\ unwritten \in BOOLEAN

(* What a timer has recorded exists, and so does the timer being changed.   *)
LinkInv ==
  /\ \A id \in 1..Len(timer) : timer[id].recording <= Len(recordings)
  /\ request.at \in {"time", "channel", "active"} => request.id \in 1..Len(timer)
  /\ request.at = "time" => request.new \in Settings

(* A thread that waits is counted.                                          *)
WaitInv == thread.at = "wait" => event.waiting # 0

(* No recording begins in the future, and of a channel only one goes on.    *)
RecordingInv ==
  /\ \A i \in 1..Len(recordings) : recordings[i].start <= clock
  /\ \A i, j \in 1..Len(recordings) :
       i # j /\ recordings[i].channel = recordings[j].channel =>
         recordings[i].end <= clock \/ recordings[j].end <= clock

(* The file is behind the table only until the request is through, or       *)
(* because it could not be written.                                         *)
SavedInv ==
  \/ saved = table \/ unwritten
  \/ request.at = "announce" /\ changed
  \/ request.at = "saving"

(* After Stop() the event stays signalled until the thread has looked.      *)
StopInv == stop = "told" => event.signaled \/ thread.at \in {"loop", "off"}

IndInv == TypeInv /\ FlagInv /\ LinkInv /\ WaitInv /\ RecordingInv /\ SavedInv /\ StopInv

(* What the event becomes when a thread begins to wait and when it wakes.   *)
LEMMA CountWaitingIsTyped ==
  ASSUME NEW e \in EventType
  PROVE  /\ CountWaiting(e) \in EventType /\ CountWaiting(e).waiting # 0
         /\ CountWaiting(e).signaled = e.signaled
<1>1. PICK w \in 1..2 : w = IF e.waiting < 2 THEN e.waiting + 1 ELSE 2
  BY DEF EventType
<1>2. CountWaiting(e) = [e EXCEPT !.waiting = w]
  BY <1>1, Zenon DEF CountWaiting
<1> QED
  BY <1>2 DEF EventType

(* A thread that wakes takes itself off the count, which is not 0.          *)
LEMMA ResetAndReturnIsTyped ==
  ASSUME NEW e \in EventType, e.waiting # 0
  PROVE  ResetAndReturn(e) \in EventType
<1>1. PICK w \in 0..2 : w = e.waiting - 1
  BY DEF EventType
<1>2. PICK b \in BOOLEAN : b = ~(e.waiting = 1 \/ ~e.broadcast)
  BY Zenon
<1>3. ResetAndReturn(e) = [e EXCEPT !.waiting = w, !.signaled = b]
  BY <1>1, <1>2, Zenon DEF ResetAndReturn
<1> QED
  BY <1>3 DEF EventType

(* The timers of the list stay in the table of objects, which only grows.   *)
LEMMA LongerTable ==
  ASSUME NEW n \in Nat, NEW m \in Nat, n <= m, NEW th \in ThreadType(n)
  PROVE  th \in ThreadType(m)
<1>1. ASSUME NEW s \in Seq(1..n)
      PROVE  s \in Seq(1..m)
  <2>1. s \in [1..Len(s) -> 1..m] /\ Len(s) \in Nat
    OBVIOUS
  <2> QED
    BY <2>1
<1> QED
  BY <1>1 DEF ThreadType

(* The next timer of the list exists.                                       *)
LEMMA HeadIsTimer ==
  ASSUME NEW n \in Nat, NEW th \in ThreadType(n), th.list # <<>>
  PROVE  /\ Head(th.list) \in 1..n /\ th.now \in Nat
         /\ [th EXCEPT !.list = Tail(@)] \in ThreadType(n)
<1>1. th.list \in Seq(1..n) /\ th.now \in Nat
  BY DEF ThreadType
<1>2. ASSUME NEW s \in Seq(1..n), s # <<>>
      PROVE  Head(s) \in 1..n /\ Tail(s) \in Seq(1..n)
  BY <1>2
<1>3. Head(th.list) \in 1..n /\ Tail(th.list) \in Seq(1..n)
  BY <1>1, <1>2
<1> QED
  BY <1>1, <1>3 DEF ThreadType

(* At the top of the loop the thread has no list.                           *)
LEMMA LoopIsTyped == ASSUME NEW n \in Nat PROVE Loop \in ThreadType(n)
BY BoundAssumption DEF Loop, Never, ThreadType

(* The manager starts with no timers and its thread at the top of the loop. *)
LEMMA InitIndInv == Init => IndInv
<1> SUFFICES ASSUME Init PROVE IndInv
  OBVIOUS
<1>1. request \in RequestType
  BY DEF Init, Request, NoSettings, RequestType, SettingsType
<1>2. thread \in ThreadType(Len(timer))
  BY BoundAssumption DEF Init, Loop, Never, ThreadType
<1>3. event \in EventType
  BY DEF Init, EventType
<1>4. TypeInv
  BY <1>1, <1>2, <1>3, BoundAssumption DEF Init, TypeInv
<1>5. FlagInv
  BY Zenon DEF Init, FlagInv
<1>6. LinkInv /\ WaitInv /\ RecordingInv /\ SavedInv /\ StopInv
  BY DEF Init, LinkInv, WaitInv, RecordingInv, SavedInv, StopInv, Loop, Request
<1> QED
  BY <1>4, <1>5, <1>6 DEF IndInv

(* The requests that add a timer.                                           *)
LEMMA AddTimerStep ==
  ASSUME IndInv, NEW new \in Settings, AddTimer(new)
  PROVE  IndInv'
<1>1. NewTimer(new) \in TimerType /\ NewTimer(new).recording = 0
  BY NewTimerIsTyped
<1>2. /\ Len(timer') = Len(timer) + 1 /\ Len(timer) \in Nat /\ timer' \in Seq(TimerType)
      /\ \A id \in 1..Len(timer) : timer'[id] = timer[id]
      /\ timer'[Len(timer) + 1] = NewTimer(new)
  BY <1>1 DEF AddTimer, IndInv, TypeInv
<1>3. thread' \in ThreadType(Len(timer'))
  BY <1>2, LongerTable DEF AddTimer, IndInv, TypeInv
<1>4. request' \in RequestType
  BY DEF AddTimer, Request, NoSettings, RequestType, SettingsType
<1>5. table' \subseteq 1..Len(timer') /\ Len(timer') <= MaxTimers
  <2>1. Len(timer) < MaxTimers /\ table' = table \cup {Len(timer) + 1} /\ table \subseteq 1..Len(timer)
    BY DEF AddTimer, IndInv, TypeInv
  <2>2. MaxTimers \in Nat
    BY BoundAssumption
  <2>3. ASSUME NEW n \in Nat, table \subseteq 1..n, n < MaxTimers
        PROVE  table \cup {n + 1} \subseteq 1..(n + 1) /\ n + 1 <= MaxTimers
    BY <2>2, <2>3
  <2> QED
    BY <1>2, <2>1, <2>3, Zenon
<1>6. TypeInv'
  BY <1>2, <1>3, <1>4, <1>5 DEF AddTimer, file, IndInv, TypeInv
<1>7. LinkInv'
  BY <1>1, <1>2 DEF AddTimer, Request, IndInv, TypeInv, LinkInv
<1>8. FlagInv'
  BY Zenon DEF AddTimer, file, history, IndInv, FlagInv
<1>9. WaitInv' /\ RecordingInv' /\ SavedInv' /\ StopInv'
  BY DEF AddTimer, Request, file, IndInv, WaitInv, RecordingInv, SavedInv, StopInv
<1> QED
  BY <1>6, <1>7, <1>8, <1>9 DEF IndInv

(* The other requests that leave the timers as they are.                    *)
LEMMA RequestStep ==
  ASSUME IndInv,
         \/ \E id \in table, force \in BOOLEAN : RemoveTimer(id, force)
         \/ RemoveUnknown
         \/ \E id \in table, active \in BOOLEAN : UpdateActive(id, active)
         \/ NotifyObservers
         \/ SaveTimers
  PROVE  IndInv'
<1>1. UNCHANGED <<clock, timer, recordings, stop, thread>>
  BY DEF RemoveTimer, RemoveUnknown, UpdateActive, NotifyObservers, SaveTimers, tableVars
<1>2. request' \in RequestType
  <2>1. ASSUME NEW at \in {"idle", "announce", "saving"}
        PROVE  Request(at) \in RequestType
    BY DEF Request, NoSettings, RequestType, SettingsType
  <2>2. ASSUME NEW id \in table, NEW active \in BOOLEAN
        PROVE  [at |-> "active", id |-> id, new |-> [NoSettings EXCEPT !.active = active]] \in RequestType
    <3>1. [NoSettings EXCEPT !.active = active] \in SettingsType
      BY DEF NoSettings, SettingsType
    <3>2. id \in Nat
      BY DEF IndInv, TypeInv
    <3> QED
      BY <3>1, <3>2 DEF RequestType
  <2> QED
    BY <2>1, <2>2 DEF RemoveTimer, RemoveUnknown, UpdateActive, NotifyObservers, SaveTimers
<1>3. event' \in EventType /\ event'.waiting = event.waiting /\ (event.signaled => event'.signaled)
  BY DEF RemoveTimer, RemoveUnknown, UpdateActive, NotifyObservers, SaveTimers, Broadcast, IndInv, TypeInv, EventType
<1>4. table' \subseteq table /\ saved' \subseteq saved \cup table
  BY DEF RemoveTimer, RemoveUnknown, UpdateActive, NotifyObservers, SaveTimers, tableVars, file
<1>5. saved' \subseteq 1..MaxTimers
  <2>1. Len(timer) \in Nat /\ Len(timer) <= MaxTimers /\ table \subseteq 1..Len(timer) /\ saved \subseteq 1..MaxTimers
    BY DEF IndInv, TypeInv
  <2>2. MaxTimers \in Nat
    BY BoundAssumption
  <2> QED
    BY <1>4, <2>1, <2>2
<1>6. TypeInv'
  BY <1>1, <1>2, <1>3, <1>4, <1>5 DEF IndInv, TypeInv
<1>7. FlagInv'
  BY Zenon DEF RemoveTimer, RemoveUnknown, UpdateActive, NotifyObservers, SaveTimers, tableVars, file, history,
               IndInv, FlagInv
<1>8. WaitInv' /\ RecordingInv' /\ StopInv'
  BY <1>1, <1>3 DEF IndInv, WaitInv, RecordingInv, StopInv
<1>9. SavedInv'
  BY DEF RemoveTimer, RemoveUnknown, UpdateActive, NotifyObservers, SaveTimers, tableVars, file, Request, IndInv,
         SavedInv
<1>10. LinkInv'
  BY <1>1 DEF RemoveTimer, RemoveUnknown, UpdateActive, NotifyObservers, SaveTimers, Request, IndInv, TypeInv, LinkInv
<1> QED
  BY <1>6, <1>7, <1>8, <1>9, <1>10 DEF IndInv

(* The setters of a timer.                                                  *)
LEMMA SetterStep ==
  ASSUME IndInv, (\E id \in table, new \in Settings : SetFilename(id, new)) \/ SetTime \/ SetChannel \/ SetActive
  PROVE  IndInv'
<1>1. UNCHANGED <<clock, table, changed, recordings, saved, unwritten, event, stop, thread>> /\ touched' = TRUE
  BY DEF SetFilename, SetTime, SetChannel, SetActive, file
<1>2. request \in RequestType /\ timer \in Seq(TimerType)
  BY DEF IndInv, TypeInv
<1>3. /\ timer' \in Seq(TimerType) /\ Len(timer') = Len(timer)
      /\ \A id \in 1..Len(timer) : timer'[id].recording = timer[id].recording
  <2>1. CASE \E id \in table, new \in Settings : SetFilename(id, new)
    <3>1. PICK id \in table, new \in Settings : SetFilename(id, new)
      BY <2>1
    <3>2. id \in 1..Len(timer) /\ timer[id] \in TimerType /\ new.named \in BOOLEAN
      BY <1>2, SettingsAssumption DEF IndInv, TypeInv
    <3>3. ASSUME NEW t \in TimerType
          PROVE  /\ [t EXCEPT !.named = new.named] \in TimerType
                 /\ [t EXCEPT !.named = new.named].recording = t.recording
      BY <3>2 DEF TimerType
    <3>4. PICK t \in TimerType : t = [timer[id] EXCEPT !.named = new.named] /\ t.recording = timer[id].recording
      BY <3>2, <3>3, Zenon
    <3>5. timer' = [timer EXCEPT ![id] = t]
      BY <3>1, <3>4, Zenon DEF SetFilename
    <3> QED
      BY <1>2, <3>2, <3>4, <3>5
  <2>4. CASE SetTime
    <3>1. request.id \in 1..Len(timer) /\ timer[request.id] \in TimerType /\ request.new \in Settings
      BY <1>2, <2>4 DEF SetTime, IndInv, LinkInv
    <3>2. PICK t \in TimerType : t = Timed(timer[request.id], request.new) /\ t.recording = timer[request.id].recording
      BY <3>1, TimedIsTyped
    <3>3. timer' = [timer EXCEPT ![request.id] = t]
      BY <2>4, <3>2, Zenon DEF SetTime
    <3> QED
      BY <1>2, <3>1, <3>2, <3>3
  <2>2. CASE SetChannel
    <3>1. request.id \in 1..Len(timer) /\ timer[request.id] \in TimerType
      BY <1>2, <2>2 DEF SetChannel, IndInv, LinkInv
    <3>2. ASSUME NEW t \in TimerType
          PROVE  /\ [t EXCEPT !.channel = request.new.channel] \in TimerType
                 /\ [t EXCEPT !.channel = request.new.channel].recording = t.recording
      BY <1>2 DEF RequestType, SettingsType, TimerType
    <3>3. PICK t \in TimerType : t = [timer[request.id] EXCEPT !.channel = request.new.channel]
                                 /\ t.recording = timer[request.id].recording
      BY <3>1, <3>2, Zenon
    <3>4. timer' = [timer EXCEPT ![request.id] = t]
      BY <2>2, <3>3, Zenon DEF SetChannel
    <3> QED
      BY <1>2, <3>1, <3>3, <3>4
  <2>3. CASE SetActive
    <3>1. request.id \in 1..Len(timer) /\ timer[request.id] \in TimerType
      BY <1>2, <2>3 DEF SetActive, IndInv, LinkInv
    <3>2. ASSUME NEW t \in TimerType
          PROVE  /\ [t EXCEPT !.active = request.new.active] \in TimerType
                 /\ [t EXCEPT !.active = request.new.active].recording = t.recording
      BY <1>2 DEF RequestType, SettingsType, TimerType
    <3>3. PICK t \in TimerType : t = [timer[request.id] EXCEPT !.active = request.new.active]
                                 /\ t.recording = timer[request.id].recording
      BY <3>1, <3>2, Zenon
    <3>4. timer' = [timer EXCEPT ![request.id] = t]
      BY <2>3, <3>3, Zenon DEF SetActive
    <3> QED
      BY <1>2, <3>1, <3>3, <3>4
  <2> QED
    BY <2>1, <2>2, <2>3, <2>4
<1>4. request' \in RequestType /\ request.at # "announce" /\ request.at # "saving"
  <2>1. CASE \E id \in table, new \in Settings : SetFilename(id, new)
    <3>1. PICK id \in table, new \in Settings : SetFilename(id, new)
      BY <2>1
    <3>2. id \in Nat /\ new \in SettingsType
      BY SettingsAreTyped DEF IndInv, TypeInv
    <3> QED
      BY <3>1, <3>2 DEF SetFilename, RequestType
  <2>4. CASE SetTime
    BY <1>2, <2>4 DEF SetTime, RequestType
  <2>2. CASE SetChannel
    BY <1>2, <2>2 DEF SetChannel, RequestType
  <2>3. CASE SetActive
    BY <1>2, <2>3 DEF SetActive, Request, NoSettings, RequestType, SettingsType
  <2> QED
    BY <2>1, <2>2, <2>3, <2>4
<1>5. TypeInv'
  BY <1>1, <1>3, <1>4 DEF IndInv, TypeInv
<1>6. FlagInv'
  BY <1>1, Zenon DEF IndInv, FlagInv
<1>7. LinkInv'
  <2>1. /\ request'.at \in {"time", "channel", "active"} => request'.id \in 1..Len(timer)
        /\ request'.at = "time" => request'.new \in Settings
    BY <1>2 DEF SetFilename, SetTime, SetChannel, SetActive, Request, RequestType, IndInv, TypeInv, LinkInv
  <2> QED
    BY <1>1, <1>3, <2>1 DEF IndInv, LinkInv
<1>8. WaitInv' /\ RecordingInv' /\ SavedInv' /\ StopInv'
  BY <1>1, <1>4 DEF IndInv, WaitInv, RecordingInv, SavedInv, StopInv
<1> QED
  BY <1>5, <1>6, <1>7, <1>8 DEF IndInv

(* The steps of the thread and of Stop() that leave the timers as they are, *)
(* but for the choice of the list.                                          *)
LEMMA ThreadStep ==
  ASSUME IndInv, Sleep \/ EndOfList \/ Wake \/ TimeOut \/ End \/ StopThread \/ StopBroadcast
  PROVE  IndInv'
<1>1. UNCHANGED <<clock, timer, table, changed, recordings, saved, unwritten, request, touched>>
  BY DEF Sleep, EndOfList, Wake, TimeOut, End, StopThread, StopBroadcast, tableVars, file, history
<1>2. event \in EventType /\ thread \in ThreadType(Len(timer)) /\ clock \in Nat /\ stop \in {"no", "set", "told"}
  BY DEF IndInv, TypeInv
<1>3. Loop \in ThreadType(Len(timer)) /\ Never \in Nat
  BY BoundAssumption DEF Loop, Never, ThreadType
<1>4. stop' \in {"no", "set", "told"}
  BY <1>2 DEF Sleep, EndOfList, Wake, TimeOut, End, StopThread, StopBroadcast
<1>5. event' \in EventType /\ thread' \in ThreadType(Len(timer)) /\ WaitInv' /\ StopInv'
  <2>1. CASE Sleep
    <3>1. \/ thread' = [Loop EXCEPT !.at = "wait"]
          \/ \E until \in Nat : thread' = [Loop EXCEPT !.at = "wait", !.until = until]
      <4> DEFINE wait == GetSortOccurrence(timer[Head(thread.list)], thread.now) - thread.now
      <4>1. Head(thread.list) \in 1..Len(timer) /\ thread.now \in Nat
        <5>1. thread.list # <<>>
          BY <2>1 DEF Sleep
        <5>2. Len(timer) \in Nat
          BY DEF IndInv, TypeInv
        <5> QED
          BY <1>2, <5>1, <5>2, HeadIsTimer
      <4>2. timer[Head(thread.list)] \in TimerType
        BY <4>1 DEF IndInv, TypeInv
      <4>3. wait \in Int
        BY <4>1, <4>2, TimerTypeIsOK, SortOccurrenceIsTime
      <4>4. ASSUME NEW w \in Int, w > 0
            PROVE  Min({clock + w, Never}) \in Nat
        <5>1. clock \in Nat /\ Never \in Nat
          BY <1>2, <1>3, Zenon
        <5>2. clock + w \in Nat
          BY <4>4, <5>1
        <5>3. {clock + w, Never} \subseteq Nat
          BY <5>1, <5>2, Zenon
        <5>4. Min({clock + w, Never}) \in {clock + w, Never}
          BY <5>3, MinIsLeast, Zenon
        <5> QED
          BY <5>3, <5>4, Zenon
      <4>5. \/ wait \in 1..LongestTimeout /\ thread' = [Loop EXCEPT !.at = "wait", !.until = Min({clock + wait, Never})]
            \/ /\ wait > LongestTimeout
               /\ \E early \in clock..Min({clock + wait, Never}) : thread' = [Loop EXCEPT !.at = "wait", !.until = early]
            \/ thread' = [Loop EXCEPT !.at = "wait"]
            \/ \E any \in (clock + 1)..Never : thread' = [Loop EXCEPT !.at = "wait", !.until = any]
        BY <2>1, Zenon DEF Sleep
      <4> HIDE DEF wait
      <4>7. wait \in 1..LongestTimeout \/ wait > LongestTimeout => Min({clock + wait, Never}) \in Nat
        <5>1. wait \in 1..LongestTimeout \/ wait > LongestTimeout => wait > 0
          BY <4>3, TimeoutAssumption
        <5> QED
          BY <4>3, <4>4, <5>1, Zenon
      <4>8. ASSUME NEW m \in Nat, NEW e \in clock..m
            PROVE  e \in Nat
        BY <1>2
      <4>9. ASSUME NEW e \in (clock + 1)..Never
            PROVE  e \in Nat
        BY <1>2, <1>3
      <4> QED
        BY <4>5, <4>7, <4>8, <4>9, Zenon
    <3>2. thread' \in ThreadType(Len(timer)) /\ thread'.at = "wait"
      <4>1. CASE thread' = [Loop EXCEPT !.at = "wait"]
        BY <1>3, <4>1 DEF ThreadType, Loop
      <4>2. CASE \E until \in Nat : thread' = [Loop EXCEPT !.at = "wait", !.until = until]
        BY <1>3, <4>2 DEF ThreadType, Loop
      <4> QED
        BY <3>1, <4>1, <4>2
    <3>3. event' \in EventType /\ event'.waiting # 0 /\ event'.signaled = event.signaled
      BY <1>2, <2>1, CountWaitingIsTyped DEF Sleep
    <3>4. stop' = stop /\ thread.at = "list"
      BY <2>1 DEF Sleep
    <3> QED
      BY <3>2, <3>3, <3>4 DEF IndInv, WaitInv, StopInv
  <2>2. CASE EndOfList
    BY <1>2, <1>3, <2>2 DEF EndOfList, Loop, IndInv, WaitInv, StopInv
  <2>3. CASE Wake
    <3>1. event.waiting # 0
      BY <2>3 DEF Wake, IndInv, WaitInv
    <3>2. event' \in EventType
      BY <1>2, <2>3, <3>1, ResetAndReturnIsTyped DEF Wake
    <3> QED
      BY <1>2, <1>3, <2>3, <3>2 DEF Wake, Loop, WaitInv, StopInv
  <2>4. CASE TimeOut
    BY <1>2, <1>3, <2>4 DEF TimeOut, Loop, IndInv, WaitInv, StopInv
  <2>5. CASE End
    BY <1>2, <1>3, <2>5 DEF End, Loop, ThreadType, IndInv, WaitInv, StopInv
  <2>6. CASE StopThread
    BY <1>2, <2>6 DEF StopThread, IndInv, WaitInv, StopInv
  <2>7. CASE StopBroadcast
    <3>1. event' \in EventType /\ event'.signaled /\ event'.waiting = event.waiting
      BY <1>2, <2>7 DEF StopBroadcast, Broadcast, EventType
    <3> QED
      BY <1>2, <2>7, <3>1 DEF StopBroadcast, IndInv, WaitInv, StopInv
  <2> QED
    BY <2>1, <2>2, <2>3, <2>4, <2>5, <2>6, <2>7
<1>6. TypeInv'
  BY <1>1, <1>4, <1>5 DEF IndInv, TypeInv
<1>7. FlagInv'
  BY <1>1, Zenon DEF IndInv, FlagInv
<1>8. LinkInv' /\ RecordingInv' /\ SavedInv'
  BY <1>1 DEF IndInv, LinkInv, RecordingInv, SavedInv
<1> QED
  BY <1>5, <1>6, <1>7, <1>8 DEF IndInv

(* The top of the loop.                                                     *)
LEMMA LookStep ==
  ASSUME IndInv, Look
  PROVE  IndInv'
<1>1. UNCHANGED <<clock, timer, table, changed, recordings, saved, unwritten, stop, request>> /\ touched' = FALSE
  BY DEF Look, tableVars, file
<1>2. /\ event \in EventType /\ thread.at = "loop" /\ stop = "no" /\ clock \in Nat
      /\ Len(timer) \in Nat /\ table \subseteq 1..Len(timer)
  <2>1. thread.at = "loop" /\ stop = "no"
    BY DEF Look
  <2> QED
    BY <2>1 DEF IndInv, TypeInv
<1>3. ASSUME NEW S, S \subseteq 1..Len(timer), NEW list \in SetToSeqs(S)
      PROVE  list \in Seq(1..Len(timer))
  <2>1. IsFiniteSet(1..Len(timer))
    BY <1>2, FS_Interval
  <2>2. Cardinality(S) \in Nat
    BY <2>1, <1>3, FS_Subset, FS_CardinalityType
  <2>3. list \in [1..Cardinality(S) -> 1..Len(timer)]
    BY <1>3 DEF SetToSeqs
  <2> QED
    BY <2>2, <2>3
<1>4. GetIdleTimers(clock) \subseteq 1..Len(timer)
  BY <1>2 DEF GetIdleTimers
<1>5. \/ event' = CountWaiting(event) /\ thread' = [Loop EXCEPT !.at = "wait"]
      \/ /\ event' = event
         /\ \E list \in SetToSeqs(GetIdleTimers(clock)) :
              thread' = [Loop EXCEPT !.at = "list", !.now = clock, !.list = list]
  BY DEF Look
<1>6. event' \in EventType /\ thread' \in ThreadType(Len(timer)) /\ WaitInv'
  <2>1. CASE event' = CountWaiting(event) /\ thread' = [Loop EXCEPT !.at = "wait"]
    <3>1. thread' \in ThreadType(Len(timer))
      BY <1>2, <2>1, LoopIsTyped DEF ThreadType
    <3> QED
      BY <1>2, <2>1, <3>1, CountWaitingIsTyped DEF WaitInv
  <2>2. CASE /\ event' = event
             /\ \E list \in SetToSeqs(GetIdleTimers(clock)) :
                  thread' = [Loop EXCEPT !.at = "list", !.now = clock, !.list = list]
    <3>1. PICK list \in Seq(1..Len(timer)) : thread' = [Loop EXCEPT !.at = "list", !.now = clock, !.list = list]
      BY <1>3, <1>4, <2>2
    <3>2. thread' \in ThreadType(Len(timer)) /\ thread'.at = "list"
      BY <1>2, <3>1, LoopIsTyped DEF ThreadType
    <3> QED
      BY <1>2, <2>2, <3>2 DEF WaitInv
  <2> QED
    BY <1>5, <2>1, <2>2
<1>7. TypeInv'
  BY <1>1, <1>6 DEF IndInv, TypeInv
<1>8. FlagInv'
  BY <1>1, Zenon DEF IndInv, FlagInv
<1>9. LinkInv' /\ RecordingInv' /\ SavedInv' /\ StopInv'
  BY <1>1, <1>2 DEF IndInv, LinkInv, RecordingInv, SavedInv, StopInv
<1> QED
  BY <1>6, <1>7, <1>8, <1>9 DEF IndInv

(* The clock.                                                               *)
LEMMA TickStep ==
  ASSUME IndInv, Tick
  PROVE  IndInv'
<1>1. UNCHANGED <<timer, table, changed, recordings, saved, unwritten, event, stop, request, touched>>
  BY DEF Tick, tableVars, file, history
<1>2. clock \in 0..MaxTime /\ MaxTime \in Nat /\ clock < MaxTime /\ clock' = clock + 1
  BY BoundAssumption DEF Tick, IndInv, TypeInv
<1>3. clock' \in 0..MaxTime /\ clock \in Nat
  BY <1>2
<1>4. thread' \in ThreadType(Len(timer)) /\ thread'.at = thread.at
  <2>1. PICK b \in BOOLEAN : b = (thread.at = "list")
    BY Zenon
  <2>2. thread' = [thread EXCEPT !.ticked = b] /\ thread \in ThreadType(Len(timer))
    BY <2>1, Zenon DEF Tick, IndInv, TypeInv
  <2> QED
    BY <2>2 DEF ThreadType
<1>5. TypeInv'
  BY <1>1, <1>3, <1>4 DEF IndInv, TypeInv
<1>6. FlagInv'
  BY <1>1, Zenon DEF IndInv, FlagInv
<1>7. LinkInv' /\ WaitInv' /\ SavedInv' /\ StopInv'
  BY <1>1, <1>4 DEF IndInv, LinkInv, WaitInv, SavedInv, StopInv
<1>8. RecordingInv'
  <2>1. \A i \in 1..Len(recordings) : recordings[i].start \in Nat /\ recordings[i].end \in Nat
    <3>1. \A i \in 1..Len(recordings) : recordings[i] \in RecordingType
      BY DEF IndInv, TypeInv
    <3> QED
      BY <3>1 DEF RecordingType
  <2> QED
    BY <1>1, <1>2, <1>3, <2>1 DEF IndInv, RecordingInv
<1> QED
  BY <1>5, <1>6, <1>7, <1>8 DEF IndInv

(* GetByChannel() returns a recording, or there is none of the channel that *)
(* goes on.                                                                 *)
LEMMA GetByChannelFinds ==
  ASSUME IndInv, NEW channel, NEW now
  PROVE  \/ GetByChannel(channel, now) \in 1..Len(recordings)
         \/ /\ GetByChannel(channel, now) = 0
            /\ \A i \in 1..Len(recordings) : recordings[i].channel = channel => ~Covers(recordings[i], now)
<1> DEFINE found == {i \in DOMAIN recordings : recordings[i].channel = channel /\ Covers(recordings[i], now)}
<1>1. DOMAIN recordings = 1..Len(recordings) /\ Len(recordings) \in Nat
  BY DEF IndInv, TypeInv
<1>2. CASE found = {}
  BY <1>1, <1>2, Zenon DEF GetByChannel
<1>3. CASE found # {}
  <2>1. found \subseteq 1..Len(recordings) /\ found \subseteq Nat
    BY <1>1
  <2>2. Min(found) \in found
    BY <1>3, <2>1, MinIsLeast
  <2>3. GetByChannel(channel, now) = Min(found)
    BY <1>3, Zenon DEF GetByChannel
  <2> QED
    BY <2>1, <2>2, <2>3
<1> QED
  BY <1>2, <1>3

(* StartRecording().                                                        *)
LEMMA StartNextStep ==
  ASSUME IndInv, StartNext
  PROVE  IndInv'
<1> DEFINE id == Head(thread.list)
           t == timer[id]
           found == IF IsRecording(t, clock) THEN t.recording ELSE GetByChannel(t.channel, clock)
           start == GetSortOccurrence(t, clock)
           new == [channel |-> t.channel, start |-> start, end |-> start + t.duration]
<1>1. UNCHANGED <<clock, table, changed, saved, unwritten, event, stop, request, touched>>
  BY DEF StartNext, file
<1>2. /\ timer \in Seq(TimerType) /\ recordings \in Seq(RecordingType) /\ clock \in Nat
      /\ Len(timer) \in Nat /\ Len(recordings) \in Nat
  BY DEF IndInv, TypeInv
<1>3. /\ thread \in ThreadType(Len(timer)) /\ thread.at = "list" /\ thread.list # <<>>
      /\ thread' = [thread EXCEPT !.list = Tail(@)] /\ StartRecording(id)
  BY DEF StartNext, IndInv, TypeInv
<1>4. id \in 1..Len(timer) /\ thread' \in ThreadType(Len(timer))
  BY <1>2, <1>3, HeadIsTimer
<1>5. t \in TimerType /\ t.recording <= Len(recordings)
  BY <1>2, <1>4 DEF IndInv, LinkInv
<1>6. thread'.at = "list"
  BY <1>3 DEF ThreadType
<1>7. ASSUME NEW n \in Nat
      PROVE  [t EXCEPT !.recording = n] \in TimerType /\ [t EXCEPT !.recording = n].recording = n
  BY <1>5 DEF TimerType
<1>8. /\ timer' \in Seq(TimerType) /\ Len(timer') = Len(timer) /\ recordings' \in Seq(RecordingType)
      /\ \A i \in 1..Len(timer) : timer'[i].recording <= Len(recordings')
      /\ RecordingInv'
  <2>1. CASE UNCHANGED <<timer, recordings>>
    BY <1>1, <1>2, <2>1 DEF IndInv, LinkInv, RecordingInv
  <2>2. CASE timer' = [timer EXCEPT ![id] = [@ EXCEPT !.recording = found]] /\ recordings' = recordings
    <3>1. found \in Nat /\ found <= Len(recordings)
      <4>1. GetByChannel(t.channel, clock) \in 0..Len(recordings)
        BY <1>2, GetByChannelFinds
      <4>2. t.recording \in Nat
        BY <1>5 DEF TimerType
      <4> QED
        BY <1>2, <1>5, <4>1, <4>2
    <3>2. PICK u \in TimerType : u = [t EXCEPT !.recording = found] /\ u.recording = found
      BY <1>7, <3>1, Zenon
    <3>3. timer' = [timer EXCEPT ![id] = u]
      BY <2>2, <3>2, Zenon
    <3> HIDE DEF id, found
    <3>4. timer' \in Seq(TimerType) /\ Len(timer') = Len(timer)
      BY <1>2, <1>4, <3>3
    <3>5. \A i \in 1..Len(timer) : timer'[i].recording <= Len(recordings')
      BY <1>2, <1>4, <2>2, <3>1, <3>2, <3>3 DEF IndInv, LinkInv
    <3>6. RecordingInv'
      BY <1>1, <2>2 DEF IndInv, RecordingInv
    <3> QED
      BY <1>2, <2>2, <3>4, <3>5, <3>6
  <2>3. CASE /\ found = 0 /\ IsOccurring(t, clock) /\ recordings' = Append(recordings, new)
             /\ timer' = [timer EXCEPT ![id] = [@ EXCEPT !.recording = Len(recordings) + 1]]
    <3>1. start \in Nat /\ start <= clock
      BY <1>2, <1>5, <2>3, TimerTypeIsOK, OccurringIsSortedByItsStart
    <3>2. new \in RecordingType /\ new.start <= clock
      BY <1>5, <3>1 DEF RecordingType, TimerType
    <3>3. /\ recordings' \in Seq(RecordingType) /\ Len(recordings') = Len(recordings) + 1
          /\ \A i \in 1..Len(recordings) : recordings'[i] = recordings[i]
          /\ recordings'[Len(recordings) + 1] = new
      <4> HIDE DEF new
      <4> QED
        BY <1>2, <2>3, <3>2
    <3>4. PICK u \in TimerType : u = [t EXCEPT !.recording = Len(recordings) + 1] /\ u.recording = Len(recordings) + 1
      <4>1. Len(recordings) + 1 \in Nat
        BY <1>2
      <4> QED
        BY <1>7, <4>1, Zenon
    <3>5. timer' = [timer EXCEPT ![id] = u]
      BY <2>3, <3>4, Zenon
    <3>6. \A i \in 1..Len(recordings) : recordings[i].channel = new.channel => recordings[i].end <= clock
      <4>1. GetByChannel(t.channel, clock) = 0
        BY <2>3, Zenon DEF IsRecording
      <4>2. \A i \in 1..Len(recordings) : recordings[i].channel = t.channel => ~Covers(recordings[i], clock)
        BY <1>2, <4>1, GetByChannelFinds
      <4>3. \A i \in 1..Len(recordings) : recordings[i].end \in Nat /\ recordings[i].start <= clock
        <5>1. \A i \in 1..Len(recordings) : recordings[i] \in RecordingType
          BY <1>2
        <5> QED
          BY <5>1 DEF RecordingType, IndInv, RecordingInv
      <4> QED
        BY <1>2, <4>2, <4>3 DEF Covers
    <3> HIDE DEF id, found, new
    <3>7. timer' \in Seq(TimerType) /\ Len(timer') = Len(timer)
      BY <1>2, <1>4, <3>5
    <3>8. \A i \in 1..Len(timer) : timer'[i].recording <= Len(recordings')
      <4>1. \A i \in 1..Len(timer) : timer[i].recording \in Nat /\ timer[i].recording <= Len(recordings)
        <5>1. \A i \in 1..Len(timer) : timer[i] \in TimerType
          BY <1>2
        <5> QED
          BY <5>1 DEF TimerType, IndInv, LinkInv
      <4>2. timer'[id] = u /\ \A i \in 1..Len(timer) : i # id => timer'[i] = timer[i]
        BY <1>2, <1>4, <3>5
      <4>3. Len(recordings) \in Nat /\ Len(recordings') = Len(recordings) + 1
        BY <1>2, <3>3
      <4>4. timer'[id].recording <= Len(recordings')
        BY <3>4, <4>2, <4>3
      <4> QED
        BY <4>1, <4>2, <4>3, <4>4
    <3>9. RecordingInv'
      <4>1. clock' = clock /\ \A i \in 1..Len(recordings') : i \in 1..Len(recordings) \/ i = Len(recordings) + 1
        BY <1>1, <1>2, <3>3
      <4>2. \A i \in 1..Len(recordings') : recordings'[i].start <= clock
        BY <3>2, <3>3, <4>1 DEF IndInv, RecordingInv
      <4>3. ASSUME NEW i \in 1..Len(recordings'), NEW j \in 1..Len(recordings'), i # j,
                   recordings'[i].channel = recordings'[j].channel
            PROVE  recordings'[i].end <= clock \/ recordings'[j].end <= clock
        <5>1. CASE i \in 1..Len(recordings) /\ j \in 1..Len(recordings)
          BY <3>3, <4>3, <5>1 DEF IndInv, RecordingInv
        <5>2. CASE i \in 1..Len(recordings) /\ j = Len(recordings) + 1
          BY <3>3, <3>6, <4>3, <5>2
        <5>3. CASE i = Len(recordings) + 1 /\ j \in 1..Len(recordings)
          BY <3>3, <3>6, <4>3, <5>3
        <5> QED
          BY <4>1, <4>3, <5>1, <5>2, <5>3
      <4> QED
        BY <4>1, <4>2, <4>3 DEF RecordingInv
    <3> QED
      BY <3>3, <3>7, <3>8, <3>9
  <2> QED
    BY <1>3, <2>1, <2>2, <2>3, Zenon DEF StartRecording
<1>9. TypeInv'
  BY <1>1, <1>4, <1>8 DEF IndInv, TypeInv
<1>10. FlagInv'
  BY <1>1, Zenon DEF IndInv, FlagInv
<1>11. LinkInv'
  BY <1>1, <1>8 DEF IndInv, LinkInv
<1>12. WaitInv' /\ SavedInv' /\ StopInv'
  BY <1>1, <1>3, <1>6 DEF IndInv, WaitInv, SavedInv, StopInv
<1> QED
  BY <1>8, <1>9, <1>10, <1>11, <1>12 DEF IndInv

-----------------------------------------------------------------------------
(* The theorems.                                                            *)

(* Every step keeps the invariant.                                          *)
LEMMA NextIndInv == IndInv /\ [Next]_vars => IndInv'
<1> SUFFICES ASSUME IndInv, [Next]_vars PROVE IndInv'
  OBVIOUS
<1>1. CASE ClientNext
  BY <1>1, AddTimerStep, RequestStep, SetterStep DEF ClientNext
<1>2. CASE ThreadNext
  BY <1>2, ThreadStep, LookStep, StartNextStep DEF ThreadNext
<1>3. CASE StopThread \/ StopBroadcast
  BY <1>3, ThreadStep
<1>4. CASE Tick
  BY <1>4, TickStep
<1>5. CASE UNCHANGED vars
  <2>1. UNCHANGED <<clock, timer, table, changed, recordings, saved, unwritten, event, stop, thread, request, touched>>
    BY <1>5 DEF vars, tableVars, file, history
  <2> QED
    BY <2>1 DEF IndInv, TypeInv, FlagInv, LinkInv, WaitInv, RecordingInv, SavedInv, StopInv
<1> QED
  BY <1>1, <1>2, <1>3, <1>4, <1>5 DEF Next

(* Every reachable state satisfies the inductive invariant.                 *)
THEOREM Inductive == Spec => []IndInv
BY InitIndInv, NextIndInv, PTL DEF Spec

-----------------------------------------------------------------------------
(* The sleep.  As long as no change has come in since the thread looked,    *)
(* its list has every timer that is not recorded yet, in the order of the   *)
(* next occurrences; and when it sleeps none of them begins before it       *)
(* wakes.                                                                   *)

Quiet == ~touched /\ ~changed /\ ~event.signaled

Pending(id) == timer[id].active /\ timer[id].named /\ timer[id].recording = 0 /\ id \notin missed

(* A change of the table is announced by the request that made it.          *)
ChangedInv == changed => request.at = "announce"

PassInv == thread.at = "list" => clock = thread.now \/ (thread.ticked /\ clock = thread.now + 1)

SortedFor(list, now) ==
  \A i, j \in 1..Len(list) : i < j =>
    GetSortOccurrence(timer[list[i]], now) <= GetSortOccurrence(timer[list[j]], now)

ListInv ==
  thread.at = "list" /\ Quiet =>
    /\ \A i \in 1..Len(thread.list) : thread.list[i] \in table /\ ~IsExpired(timer[thread.list[i]], thread.now)
    /\ SortedFor(thread.list, thread.now)
    /\ \A id \in table : Pending(id) =>
         IsExpired(timer[id], thread.now) \/ \E i \in 1..Len(thread.list) : thread.list[i] = id

SleepInv ==
  thread.at = "wait" /\ Quiet /\ (\A id \in table : timer[id].duration <= Day) =>
    \A id \in table : Pending(id) =>
      \A s \in Starts(timer[id]) : s + timer[id].duration <= clock \/ thread.until <= s + 1

TimelyInv == missed \subseteq Ids /\ ChangedInv /\ PassInv /\ ListInv /\ SleepInv

(* A timer that neither occurs nor has expired is sorted by a time to come. *)
LEMMA PendingIsAhead ==
  ASSUME NEW t, NEW now \in Nat, TimesOK(t), t.duration <= Day, ~IsExpired(t, now), ~IsOccurring(t, now)
  PROVE  now < GetSortOccurrence(t, now)
<1> DEFINE ahead == {s \in Starts(t) : now < s + t.duration}
<1>1. t.duration \in Nat /\ t.expires \in Nat /\ Day \in Nat
  BY DayAssumption DEF TimesOK
<1>2. CASE ahead = {}
  <2>1. GetSortOccurrence(t, now) = t.expires + Day
    BY <1>2 DEF GetSortOccurrence
  <2> QED
    BY <1>1, <2>1 DEF IsExpired
<1>3. CASE ahead # {}
  <2>1. Min(ahead) \in ahead /\ Min(ahead) \in Nat
    BY <1>3, StartsAreTimes, MinIsLeast
  <2>2. GetSortOccurrence(t, now) = Min(ahead)
    BY <1>3 DEF GetSortOccurrence
  <2>3. ~(Min(ahead) <= now)
    BY <2>1 DEF IsOccurring
  <2> QED
    BY <2>1, <2>2, <2>3
<1> QED
  BY <1>2, <1>3

(* An occurrence that is not over does not begin before the one the timer   *)
(* is sorted by.                                                            *)
LEMMA SortedByTheFirst ==
  ASSUME NEW t, NEW now \in Nat, TimesOK(t), NEW s \in Starts(t), now < s + t.duration
  PROVE  GetSortOccurrence(t, now) <= s
<1> DEFINE ahead == {v \in Starts(t) : now < v + t.duration}
<1>1. s \in Nat /\ s <= t.expires /\ t.duration \in Nat /\ t.expires \in Nat
  BY StartsAreTimes DEF TimesOK
<1>2. ~IsExpired(t, now)
  BY <1>1 DEF IsExpired
<1>3. s \in ahead /\ ahead \subseteq Nat
  BY StartsAreTimes
<1>4. GetSortOccurrence(t, now) = Min(ahead)
  BY <1>2, <1>3 DEF GetSortOccurrence
<1> QED
  BY <1>3, <1>4, MinIsLeast

(* An expired timer has no occurrence that is not over.                     *)
LEMMA ExpiredIsOver ==
  ASSUME NEW t, NEW now \in Nat, TimesOK(t), IsExpired(t, now)
  PROVE  \A s \in Starts(t) : s + t.duration <= now
<1>1. \A s \in Starts(t) : s \in Nat /\ s <= t.expires
  BY StartsAreTimes
<1> QED
  BY <1>1 DEF IsExpired, TimesOK

(* The occurrences of a timer depend on its times only.                     *)
LEMMA SameTimes ==
  ASSUME NEW t, NEW u, u.start = t.start, u.duration = t.duration, u.mask = t.mask, u.expires = t.expires, NEW now
  PROVE  IsExpired(u, now) = IsExpired(t, now) /\ GetSortOccurrence(u, now) = GetSortOccurrence(t, now)
<1>1. Starts(u) = Starts(t)
  BY DEF Starts
<1>2. IsExpired(u, now) = IsExpired(t, now)
  BY Zenon DEF IsExpired
<1>3. GetSortOccurrence(u, now) = GetSortOccurrence(t, now)
  BY <1>1, <1>2, Zenon DEF GetSortOccurrence
<1> QED
  BY <1>2, <1>3

(* The list the thread takes has every timer of the set.                    *)
LEMMA ListHasAll ==
  ASSUME NEW n \in Nat, NEW S, S \subseteq 1..n, NEW list \in SetToSeqs(S)
  PROVE  /\ list \in Seq(S)
         /\ \A x \in S : \E i \in 1..Len(list) : list[i] = x
<1>1. IsFiniteSet(S) /\ Cardinality(S) \in Nat
  <2>1. IsFiniteSet(1..n)
    BY FS_Interval
  <2>2. IsFiniteSet(S)
    BY <2>1, FS_Subset
  <2> QED
    BY <2>2, FS_CardinalityType
<1> DEFINE D == 1..Cardinality(S)
<1>2. list \in [D -> S] /\ \A i, j \in D : i # j => list[i] # list[j]
  BY DEF SetToSeqs
<1>3. list \in Injection(D, S)
  BY <1>2 DEF Injection, IsInjective
<1>4. Cardinality(D) = Cardinality(S)
  BY <1>1, FS_Interval
<1>5. list \in Surjection(D, S)
  BY <1>1, <1>3, <1>4, FS_Injection
<1>6. \A x \in S : \E i \in D : list[i] = x
  BY <1>5 DEF Surjection
<1>7. list \in Seq(S) /\ Len(list) = Cardinality(S)
  BY <1>1, <1>2
<1> QED
  BY <1>6, <1>7

(* The manager starts at the top of the loop.                               *)
LEMMA InitTimely == Init => TimelyInv
BY DEF Init, TimelyInv, ChangedInv, PassInv, ListInv, SleepInv, Loop

(* The requests: a change is marked, until it is announced by the event.    *)
LEMMA ClientTimely ==
  ASSUME IndInv, TimelyInv, ClientNext
  PROVE  TimelyInv'
<1>1. UNCHANGED <<clock, thread, missed>>
  BY DEF ClientNext, AddTimer, RemoveTimer, RemoveUnknown, SetFilename, SetTime, SetChannel, SetActive, UpdateActive,
         NotifyObservers, SaveTimers, history
<1>2. ChangedInv'
  <2>1. CASE \/ RemoveUnknown \/ SaveTimers \/ SetTime \/ SetChannel \/ SetActive
             \/ \E id \in table, new \in Settings : SetFilename(id, new)
             \/ \E id \in table, active \in BOOLEAN : UpdateActive(id, active)
    <3>1. changed' = changed /\ request.at # "announce"
      BY <2>1 DEF RemoveUnknown, SaveTimers, SetFilename, SetTime, SetChannel, SetActive, UpdateActive, tableVars
    <3> QED
      BY <3>1 DEF TimelyInv, ChangedInv
  <2>2. CASE NotifyObservers
    BY <2>2 DEF NotifyObservers, ChangedInv
  <2>3. CASE \/ \E new \in Settings : AddTimer(new)
             \/ \E id \in table, force \in BOOLEAN : RemoveTimer(id, force)
    BY <2>3 DEF AddTimer, RemoveTimer, Request, ChangedInv
  <2> QED
    BY <2>1, <2>2, <2>3 DEF ClientNext
<1>3. \/ ~Quiet'
      \/ UNCHANGED <<timer, table, changed, event, touched>>
  <2>1. CASE RemoveUnknown \/ SaveTimers \/ \E id \in table, active \in BOOLEAN : UpdateActive(id, active)
    BY <2>1 DEF RemoveUnknown, SaveTimers, UpdateActive, tableVars, history
  <2>2. CASE NotifyObservers
    <3>1. CASE changed
      <4>1. event'.signaled
        BY <2>2, <3>1 DEF NotifyObservers, Broadcast, IndInv, TypeInv, EventType
      <4> QED
        BY <4>1 DEF Quiet
    <3>2. CASE ~changed
      BY <2>2, <3>2 DEF NotifyObservers, history
    <3> QED
      BY <3>1, <3>2
  <2>3. CASE \/ \E new \in Settings : AddTimer(new)
             \/ \E id \in table, force \in BOOLEAN : RemoveTimer(id, force)
    BY <2>3 DEF AddTimer, RemoveTimer, Quiet
  <2>4. CASE SetTime \/ SetChannel \/ SetActive \/ \E id \in table, new \in Settings : SetFilename(id, new)
    BY <2>4 DEF SetFilename, SetTime, SetChannel, SetActive, Quiet
  <2> QED
    BY <2>1, <2>2, <2>3, <2>4 DEF ClientNext
<1>4. PassInv' /\ missed' \subseteq Ids
  BY <1>1 DEF TimelyInv, PassInv
<1>5. ListInv' /\ SleepInv'
  BY <1>1, <1>3 DEF TimelyInv, ListInv, SleepInv, SortedFor, Quiet, Pending
<1> QED
  BY <1>2, <1>4, <1>5 DEF TimelyInv

(* The steps of the thread that take it to the top of the loop, and Stop(). *)
LEMMA LoopTimely ==
  ASSUME IndInv, TimelyInv, EndOfList \/ Wake \/ TimeOut \/ End \/ StopThread \/ StopBroadcast
  PROVE  TimelyInv'
<1>1. UNCHANGED <<clock, timer, table, changed, request, touched, missed>>
  BY DEF EndOfList, Wake, TimeOut, End, StopThread, StopBroadcast, tableVars, history
<1>2. CASE EndOfList \/ Wake \/ TimeOut \/ End
  <2>1. thread'.at = "loop" \/ thread'.at = "off"
    BY <1>2 DEF EndOfList, Wake, TimeOut, End, Loop
  <2> QED
    BY <1>1, <2>1 DEF TimelyInv, ChangedInv, PassInv, ListInv, SleepInv
<1>3. CASE StopThread
  <2>1. UNCHANGED <<thread, event>>
    BY <1>3 DEF StopThread
  <2> QED
    BY <1>1, <2>1 DEF TimelyInv, ChangedInv, PassInv, ListInv, SleepInv, SortedFor, Quiet, Pending
<1>4. CASE StopBroadcast
  <2>1. event'.signaled /\ thread' = thread
    BY <1>4 DEF StopBroadcast, Broadcast, IndInv, TypeInv, EventType
  <2> QED
    BY <1>1, <2>1 DEF TimelyInv, ChangedInv, PassInv, ListInv, SleepInv, Quiet
<1> QED
  BY <1>2, <1>3, <1>4

(* The clock: of two passes of the clock the thread takes only one with its *)
(* list.                                                                    *)
LEMMA TickTimely ==
  ASSUME IndInv, TimelyInv, Tick
  PROVE  TimelyInv'
<1>1. UNCHANGED <<timer, table, changed, event, request, touched, missed>>
  BY DEF Tick, tableVars, history
<1>2. clock \in Nat /\ clock' = clock + 1 /\ (thread.at = "list" => ~thread.ticked)
  BY DEF Tick, IndInv, TypeInv
<1>3. /\ thread'.at = thread.at /\ thread'.now = thread.now /\ thread'.list = thread.list
      /\ thread'.until = thread.until /\ (thread.at = "list" => thread'.ticked) /\ thread.now \in Nat
      /\ thread.until \in Nat
  <2>1. PICK b \in BOOLEAN : b = (thread.at = "list")
    BY Zenon
  <2>2. thread' = [thread EXCEPT !.ticked = b] /\ thread \in ThreadType(Len(timer))
    BY <2>1, Zenon DEF Tick, IndInv, TypeInv
  <2> QED
    BY <2>1, <2>2 DEF ThreadType
<1>4. missed' \subseteq Ids /\ ChangedInv' /\ PassInv'
  BY <1>1, <1>2, <1>3 DEF TimelyInv, ChangedInv, PassInv
<1>5. ListInv'
  <2>1. SortedFor(thread.list, thread.now)' <=> SortedFor(thread.list, thread.now)
    BY <1>1, <1>3, Zenon DEF SortedFor
  <2>2. (\A id : Pending(id)' <=> Pending(id)) /\ (Quiet' <=> Quiet)
    BY <1>1 DEF Quiet, Pending
  <2> SUFFICES ASSUME thread.at = "list", Quiet
               PROVE  /\ \A i \in 1..Len(thread.list) : thread.list[i] \in table /\ ~IsExpired(timer[thread.list[i]], thread.now)
                      /\ SortedFor(thread.list, thread.now)
                      /\ \A id \in table : Pending(id) =>
                           IsExpired(timer[id], thread.now) \/ \E i \in 1..Len(thread.list) : thread.list[i] = id
    BY <1>1, <1>3, <2>1, <2>2 DEF ListInv
  <2> QED
    BY DEF TimelyInv, ListInv
<1>6. SleepInv'
  <2>1. \A id \in table : TimesOK(timer[id])
    <3>1. \A id \in table : timer[id] \in TimerType
      BY DEF IndInv, TypeInv
    <3> QED
      BY <3>1, TimerTypeIsOK
  <2>2. \A id \in table : \A s \in Starts(timer[id]) : s \in Nat /\ timer[id].duration \in Nat
    BY <2>1, StartsAreTimes DEF TimesOK
  <2> QED
    BY <1>1, <1>2, <1>3, <2>2 DEF TimelyInv, SleepInv, Quiet, Pending
<1> QED
  BY <1>4, <1>5, <1>6 DEF TimelyInv

(* The top of the loop: the list has every timer that is to be recorded; if *)
(* there is none, every other one is over.                                  *)
LEMMA LookTimely ==
  ASSUME IndInv, TimelyInv, Look
  PROVE  TimelyInv'
<1> DEFINE idle == GetIdleTimers(clock)
<1>1. UNCHANGED <<clock, timer, table, changed, recordings, request>> /\ missed' = {}
  BY DEF Look, tableVars
<1>2. clock \in Nat /\ Len(timer) \in Nat /\ table \subseteq 1..Len(timer) /\ \A id \in table : timer[id] \in TimerType
  BY DEF IndInv, TypeInv
<1>3. idle \subseteq table /\ idle \subseteq 1..Len(timer) /\ \A id \in idle : ~IsExpired(timer[id], clock)
  BY <1>2 DEF GetIdleTimers
<1>4. \A id \in table : timer[id].active /\ timer[id].recording = 0 => id \in idle \/ IsExpired(timer[id], clock)
  BY DEF GetIdleTimers, IsRecording
<1>5. ChangedInv' /\ missed' \subseteq Ids
  BY <1>1 DEF TimelyInv, ChangedInv
<1>6. CASE idle = {}
  <2>1. thread'.at = "wait"
    BY <1>6, Zenon DEF Look, Loop
  <2>2. \A id \in table : timer[id].active /\ timer[id].recording = 0 =>
          \A s \in Starts(timer[id]) : s + timer[id].duration <= clock
    BY <1>2, <1>4, <1>6, TimerTypeIsOK, ExpiredIsOver
  <2>3. SleepInv'
    BY <1>1, <2>2 DEF SleepInv, Pending
  <2> QED
    BY <1>5, <2>1, <2>3 DEF TimelyInv, PassInv, ListInv
<1>7. CASE idle # {}
  <2>1. PICK list \in SetToSeqs(idle) :
          /\ \A i, j \in DOMAIN list : i < j =>
               GetSortOccurrence(timer[list[i]], clock) <= GetSortOccurrence(timer[list[j]], clock)
          /\ thread' = [Loop EXCEPT !.at = "list", !.now = clock, !.list = list]
    BY <1>7 DEF Look
  <2>2. list \in Seq(idle) /\ \A x \in idle : \E i \in 1..Len(list) : list[i] = x
    BY <1>2, <1>3, ListHasAll
  <2> HIDE DEF idle
  <2>3. thread'.at = "list" /\ thread'.now = clock /\ thread'.list = list
    BY <2>1 DEF Loop
  <2>4. DOMAIN list = 1..Len(list) /\ \A i \in 1..Len(list) : list[i] \in idle
    BY <2>2
  <2>5. SortedFor(thread.list, thread.now)'
    BY <1>1, <2>1, <2>3, <2>4 DEF SortedFor
  <2>6. ListInv'
    <3>1. \A i \in 1..Len(thread'.list) : thread'.list[i] \in table' /\ ~IsExpired(timer'[thread'.list[i]], thread'.now)
      BY <1>1, <1>3, <2>3, <2>4
    <3>2. \A id \in table' : Pending(id)' =>
            IsExpired(timer'[id], thread'.now) \/ \E i \in 1..Len(thread'.list) : thread'.list[i] = id
      BY <1>1, <1>4, <2>2, <2>3 DEF Pending
    <3> QED
      BY <2>5, <3>1, <3>2 DEF ListInv
  <2> QED
    BY <1>1, <1>5, <2>3, <2>6 DEF TimelyInv, PassInv, SleepInv
<1> QED
  BY <1>6, <1>7

(* StartRecording(): the timer it takes off the list is recorded then, or   *)
(* inactive or without a file name, or its occurrence is over.              *)
LEMMA StartNextTimely ==
  ASSUME IndInv, TimelyInv, StartNext
  PROVE  TimelyInv'
<1> DEFINE h == Head(thread.list)
<1>1. UNCHANGED <<clock, table, changed, event, request, touched>>
  BY DEF StartNext
<1>2. /\ thread \in ThreadType(Len(timer)) /\ thread.list \in Seq(1..Len(timer)) /\ Len(timer) \in Nat
      /\ timer \in Seq(TimerType) /\ Len(recordings) \in Nat /\ Len(timer) <= MaxTimers
  BY DEF IndInv, TypeInv, ThreadType
<1>3. thread.list # <<>> /\ thread.at = "list" /\ thread' = [thread EXCEPT !.list = Tail(thread.list)]
  BY DEF StartNext
<1>4. /\ thread'.at = "list" /\ thread'.now = thread.now /\ thread'.list = Tail(thread.list)
      /\ thread'.ticked = thread.ticked
  BY <1>2, <1>3 DEF ThreadType
<1>5. /\ h = thread.list[1] /\ h \in 1..Len(timer) /\ Len(Tail(thread.list)) = Len(thread.list) - 1
      /\ Len(thread.list) \in Nat \ {0}
      /\ \A i \in 1..Len(Tail(thread.list)) : Tail(thread.list)[i] = thread.list[i + 1]
  <2>1. ASSUME NEW n \in Nat, NEW s \in Seq(1..n), s # <<>>
        PROVE  /\ Head(s) = s[1] /\ Head(s) \in 1..n /\ Len(Tail(s)) = Len(s) - 1 /\ Len(s) \in Nat \ {0}
               /\ \A i \in 1..Len(Tail(s)) : Tail(s)[i] = s[i + 1]
    BY <2>1
  <2> QED
    BY <1>2, <1>3, <2>1
<1>6. missed' = IF IsOccurring(timer[h], clock) THEN missed ELSE missed \cup {h}
  BY DEF StartNext
<1>7. \/ timer' = timer /\ (timer[h].active => h \in missed')
      \/ \E n \in Nat : /\ n # 0 \/ ~timer[h].named
                       /\ timer' = [timer EXCEPT ![h] = [timer[h] EXCEPT !.recording = n]]
  <2> DEFINE found == IF IsRecording(timer[h], clock) THEN timer[h].recording ELSE GetByChannel(timer[h].channel, clock)
  <2>1. found \in Nat
    <3>1. timer[h].recording \in Nat
      <4>1. timer[h] \in TimerType
        BY <1>2, <1>5
      <4> QED
        BY <4>1 DEF TimerType
    <3>2. GetByChannel(timer[h].channel, clock) \in Nat
      BY <1>2, GetByChannelFinds
    <3> QED
      BY <3>1, <3>2
  <2>2. \/ timer' = timer /\ (~timer[h].active \/ ~IsOccurring(timer[h], clock))
        \/ (found # 0 \/ ~timer[h].named) /\ timer' = [timer EXCEPT ![h] = [timer[h] EXCEPT !.recording = found]]
        \/ timer' = [timer EXCEPT ![h] = [timer[h] EXCEPT !.recording = Len(recordings) + 1]]
    BY Zenon DEF StartNext, StartRecording
  <2> HIDE DEF found, h
  <2>3. Len(recordings) + 1 \in Nat /\ Len(recordings) + 1 # 0
    BY <1>2
  <2> QED
    BY <1>6, <2>1, <2>2, <2>3
<1>8. \A id \in 1..Len(timer) :
        /\ IsExpired(timer'[id], thread.now) = IsExpired(timer[id], thread.now)
        /\ GetSortOccurrence(timer'[id], thread.now) = GetSortOccurrence(timer[id], thread.now)
  <2>1. CASE timer' = timer
    BY <2>1
  <2>2. CASE \E n \in Nat : timer' = [timer EXCEPT ![h] = [timer[h] EXCEPT !.recording = n]]
    <3>1. PICK n \in Nat : timer' = [timer EXCEPT ![h] = [timer[h] EXCEPT !.recording = n]]
      BY <2>2
    <3>2. timer[h] \in TimerType
      BY <1>2, <1>5
    <3> HIDE DEF h
    <3>3. timer'[h] = [timer[h] EXCEPT !.recording = n] /\ \A id \in 1..Len(timer) : id # h => timer'[id] = timer[id]
      BY <1>2, <1>5, <3>1
    <3>4. /\ timer'[h].start = timer[h].start /\ timer'[h].duration = timer[h].duration
          /\ timer'[h].mask = timer[h].mask /\ timer'[h].expires = timer[h].expires
      BY <3>2, <3>3 DEF TimerType
    <3>5. /\ IsExpired(timer'[h], thread.now) = IsExpired(timer[h], thread.now)
          /\ GetSortOccurrence(timer'[h], thread.now) = GetSortOccurrence(timer[h], thread.now)
      BY <3>4, SameTimes, Zenon
    <3> QED
      BY <3>3, <3>5
  <2> QED
    BY <1>7, <2>1, <2>2
<1>9. \A id \in 1..Len(timer) : Pending(id)' => Pending(id) /\ id # h
  <2>1. missed \subseteq missed'
    BY <1>6
  <2>2. CASE timer' = timer /\ (timer[h].active => h \in missed')
    BY <2>1, <2>2 DEF Pending
  <2>3. CASE \E n \in Nat : (n # 0 \/ ~timer[h].named) /\ timer' = [timer EXCEPT ![h] = [timer[h] EXCEPT !.recording = n]]
    <3>1. PICK n \in Nat : (n # 0 \/ ~timer[h].named) /\ timer' = [timer EXCEPT ![h] = [timer[h] EXCEPT !.recording = n]]
      BY <2>3
    <3>2. timer[h] \in TimerType
      BY <1>2, <1>5
    <3> HIDE DEF h
    <3>5. timer' = [timer EXCEPT ![h] = [timer[h] EXCEPT !.recording = n]]
      BY <3>1
    <3>3. timer'[h] = [timer[h] EXCEPT !.recording = n] /\ \A id \in 1..Len(timer) : id # h => timer'[id] = timer[id]
      BY <1>2, <1>5, <3>5
    <3>4. timer'[h].recording = n /\ timer'[h].named = timer[h].named
      BY <3>2, <3>3 DEF TimerType
    <3> QED
      BY <2>1, <3>1, <3>3, <3>4 DEF Pending
  <2> QED
    BY <1>7, <2>2, <2>3
<1>10. ListInv'
  <2> SUFFICES ASSUME Quiet'
               PROVE  /\ \A i \in 1..Len(thread'.list) :
                           thread'.list[i] \in table /\ ~IsExpired(timer'[thread'.list[i]], thread.now)
                      /\ SortedFor(thread.list, thread.now)'
                      /\ \A id \in table : Pending(id)' =>
                           \/ IsExpired(timer'[id], thread.now)
                           \/ \E i \in 1..Len(thread'.list) : thread'.list[i] = id
    BY <1>1, <1>4 DEF ListInv, SortedFor
  <2>1. /\ \A i \in 1..Len(thread.list) : thread.list[i] \in table /\ ~IsExpired(timer[thread.list[i]], thread.now)
        /\ SortedFor(thread.list, thread.now)
        /\ \A id \in table : Pending(id) =>
             IsExpired(timer[id], thread.now) \/ \E i \in 1..Len(thread.list) : thread.list[i] = id
    BY <1>1, <1>3 DEF TimelyInv, ListInv, Quiet
  <2>2. table \subseteq 1..Len(timer)
    BY DEF IndInv, TypeInv
  <2>3. \A i \in 1..Len(thread'.list) : i + 1 \in 1..Len(thread.list) /\ thread'.list[i] = thread.list[i + 1]
    BY <1>4, <1>5
  <2>4. \A i \in 1..Len(thread.list) : i = 1 \/ (i - 1 \in 1..Len(thread'.list) /\ thread'.list[i - 1] = thread.list[i])
    BY <1>4, <1>5
  <2>5. \A i \in 1..Len(thread'.list) : thread'.list[i] \in table /\ ~IsExpired(timer'[thread'.list[i]], thread.now)
    BY <1>8, <2>1, <2>2, <2>3
  <2>6. SortedFor(thread.list, thread.now)'
    <3> SUFFICES ASSUME NEW i \in 1..Len(thread'.list), NEW j \in 1..Len(thread'.list), i < j
                 PROVE  GetSortOccurrence(timer'[thread'.list[i]], thread.now)
                          <= GetSortOccurrence(timer'[thread'.list[j]], thread.now)
      BY <1>4 DEF SortedFor
    <3>1. i + 1 \in 1..Len(thread.list) /\ j + 1 \in 1..Len(thread.list) /\ i + 1 < j + 1
      BY <2>3
    <3>2. GetSortOccurrence(timer[thread.list[i + 1]], thread.now)
            <= GetSortOccurrence(timer[thread.list[j + 1]], thread.now)
      BY <2>1, <3>1 DEF SortedFor
    <3>3. thread.list[i + 1] \in 1..Len(timer) /\ thread.list[j + 1] \in 1..Len(timer)
      BY <2>1, <2>2, <3>1
    <3> QED
      BY <1>8, <2>3, <3>2, <3>3
  <2>7. ASSUME NEW id \in table, Pending(id)'
        PROVE  IsExpired(timer'[id], thread.now) \/ \E i \in 1..Len(thread'.list) : thread'.list[i] = id
    <3>1. Pending(id) /\ id # h /\ id \in 1..Len(timer)
      BY <1>9, <2>2, <2>7
    <3>2. IsExpired(timer[id], thread.now) \/ \E i \in 1..Len(thread.list) : thread.list[i] = id
      BY <2>1, <3>1
    <3> QED
      BY <1>5, <1>8, <2>4, <3>1, <3>2
  <2> QED
    BY <2>5, <2>6, <2>7
<1>11. missed' \subseteq Ids
  <2>1. h \in Ids
    BY <1>2, <1>5, BoundAssumption DEF Ids
  <2> QED
    BY <1>6, <2>1 DEF TimelyInv
<1> QED
  BY <1>1, <1>3, <1>4, <1>10, <1>11 DEF TimelyInv, ChangedInv, PassInv, SleepInv

(* The first timer of the list, if it does not occur, is still to come, and *)
(* no occurrence of another that is not over begins before it.              *)
LEMMA HeadIsFirst ==
  ASSUME IndInv, TimelyInv, thread.at = "list", thread.list # <<>>, Quiet,
         ~IsOccurring(timer[Head(thread.list)], thread.now), \A id \in table : timer[id].duration <= Day,
         NEW id \in table, Pending(id), NEW s \in Starts(timer[id]), thread.now < s + timer[id].duration
  PROVE  /\ thread.now < GetSortOccurrence(timer[Head(thread.list)], thread.now)
         /\ GetSortOccurrence(timer[Head(thread.list)], thread.now) <= s
<1> DEFINE h == Head(thread.list)
<1>1. thread.now \in Nat /\ Len(timer) \in Nat /\ table \subseteq 1..Len(timer) /\ thread.list \in Seq(1..Len(timer))
  BY DEF IndInv, TypeInv, ThreadType
<1>2. Len(thread.list) \in Nat \ {0} /\ h = thread.list[1]
  <2>1. ASSUME NEW n \in Nat, NEW q \in Seq(1..n), q # <<>>
        PROVE  Head(q) = q[1] /\ Len(q) \in Nat \ {0}
    BY <2>1
  <2> QED
    BY <1>1, <2>1
<1>3. \A d \in table : TimesOK(timer[d]) /\ GetSortOccurrence(timer[d], thread.now) \in Nat
  <2>1. \A d \in table : timer[d] \in TimerType
    BY DEF IndInv, TypeInv
  <2> QED
    BY <1>1, <2>1, TimerTypeIsOK, SortOccurrenceIsTime
<1>4. \A i \in 1..Len(thread.list) : thread.list[i] \in table /\ ~IsExpired(timer[thread.list[i]], thread.now)
  BY DEF TimelyInv, ListInv
<1>5. SortedFor(thread.list, thread.now)
  BY DEF TimelyInv, ListInv
<1>6. IsExpired(timer[id], thread.now) \/ \E i \in 1..Len(thread.list) : thread.list[i] = id
  BY DEF TimelyInv, ListInv
<1>7. ~IsExpired(timer[id], thread.now)
  <2>1. s \in Nat /\ timer[id].duration \in Nat
    BY <1>3, StartsAreTimes DEF TimesOK
  <2> QED
    BY <1>1, <1>3, <2>1, ExpiredIsOver
<1>8. PICK i \in 1..Len(thread.list) : thread.list[i] = id
  BY <1>6, <1>7
<1>9. 1 \in 1..Len(thread.list)
  BY <1>2
<1>10. h \in table /\ ~IsExpired(timer[h], thread.now)
  BY <1>2, <1>4, <1>9
<1>11. thread.now < GetSortOccurrence(timer[h], thread.now)
  BY <1>1, <1>3, <1>10, PendingIsAhead
<1>12. GetSortOccurrence(timer[h], thread.now) <= GetSortOccurrence(timer[id], thread.now)
  <2>1. CASE i = 1
    <3>1. h = id
      BY <1>2, <1>8, <2>1
    <3> QED
      BY <1>3, <3>1
  <2>2. CASE 1 < i
    BY <1>2, <1>5, <1>8, <1>9, <2>2 DEF SortedFor
  <2> QED
    BY <1>2, <1>8, <2>1, <2>2
<1>13. GetSortOccurrence(timer[id], thread.now) <= s /\ s \in Nat
  BY <1>1, <1>3, SortedByTheFirst, StartsAreTimes
<1> HIDE DEF h
<1>14. GetSortOccurrence(timer[h], thread.now) \in Nat /\ GetSortOccurrence(timer[id], thread.now) \in Nat
  BY <1>3, <1>10
<1>15. GetSortOccurrence(timer[h], thread.now) <= s
  BY <1>12, <1>13, <1>14
<1> QED
  BY <1>11, <1>15 DEF h

(* The time to sleep: the first timer of the list begins first.             *)
LEMMA SleepTimely ==
  ASSUME IndInv, TimelyInv, Sleep
  PROVE  TimelyInv'
<1> DEFINE g == GetSortOccurrence(timer[Head(thread.list)], thread.now)
<1>1. UNCHANGED <<clock, timer, table, changed, request, touched>>
  BY DEF Sleep, tableVars, history
<1>2. /\ event \in EventType /\ clock \in Nat /\ thread.now \in Nat /\ Never \in Nat
      /\ \A id \in table : timer[id] \in TimerType
  BY BoundAssumption DEF IndInv, TypeInv, ThreadType, Never
<1>3. thread.at = "list" /\ thread.list # <<>> /\ ~IsOccurring(timer[Head(thread.list)], thread.now)
  BY DEF Sleep
<1>4. event'.signaled = event.signaled
  BY <1>2, CountWaitingIsTyped DEF Sleep
<1>5. thread.now <= clock /\ clock <= thread.now + 1
  <2>1. clock = thread.now \/ clock = thread.now + 1
    BY <1>3 DEF TimelyInv, PassInv
  <2> QED
    BY <1>2, <2>1
<1>6. /\ thread'.at = "wait"
      /\ \/ missed' = table
         \/ /\ missed' = missed
            /\ g - thread.now > 0 => \/ thread'.until = Min({clock + (g - thread.now), Never})
                                    \/ thread'.until \in clock..Min({clock + (g - thread.now), Never})
  <2> DEFINE wait == g - thread.now
  <2>1. \/ thread' = [Loop EXCEPT !.at = "wait", !.until = Min({clock + wait, Never})] /\ missed' = missed
        \/ /\ \E early \in clock..Min({clock + wait, Never}) : thread' = [Loop EXCEPT !.at = "wait", !.until = early]
           /\ missed' = missed
        \/ thread' = [Loop EXCEPT !.at = "wait"] /\ missed' = table
        \/ /\ wait <= 0 /\ missed' = missed
           /\ \E any \in (clock + 1)..Never : thread' = [Loop EXCEPT !.at = "wait", !.until = any]
    BY Zenon DEF Sleep
  <2>2. [Loop EXCEPT !.at = "wait"].at = "wait"
    BY DEF Loop
  <2>3. ASSUME NEW u
        PROVE  [Loop EXCEPT !.at = "wait", !.until = u].at = "wait" /\ [Loop EXCEPT !.at = "wait", !.until = u].until = u
    BY DEF Loop
  <2>4. wait <= 0 => ~(wait > 0)
    <3>1. Head(thread.list) \in 1..Len(timer)
      <4>1. thread \in ThreadType(Len(timer)) /\ Len(timer) \in Nat
        BY DEF IndInv, TypeInv
      <4> QED
        BY <1>3, <4>1, HeadIsTimer
    <3>2. timer[Head(thread.list)] \in TimerType
      BY <3>1 DEF IndInv, TypeInv
    <3>3. g \in Nat
      BY <1>2, <3>2, TimerTypeIsOK, SortOccurrenceIsTime
    <3> HIDE DEF g
    <3> QED
      BY <1>2, <3>3
  <2> QED
    BY <2>1, <2>2, <2>3, <2>4, Zenon
<1>7. SleepInv'
  <2> SUFFICES ASSUME Quiet', \A id \in table : timer[id].duration <= Day,
                      NEW id \in table, Pending(id)', NEW s \in Starts(timer[id])
               PROVE  s + timer[id].duration <= clock \/ thread'.until <= s + 1
    BY <1>1 DEF SleepInv
  <2>1. s \in Nat /\ timer[id].duration \in Nat
    BY <1>2, TimerTypeIsOK, StartsAreTimes DEF TimesOK
  <2>2. CASE thread.now < s + timer[id].duration
    <3>0. missed' = missed
      <4>1. id \notin missed'
        BY DEF Pending
      <4> QED
        BY <1>6, <4>1, Zenon
    <3>1. Quiet /\ Pending(id)
      BY <1>1, <1>4, <3>0 DEF Quiet, Pending
    <3>2. thread.now < g /\ g <= s
      BY <1>3, <2>2, <3>1, HeadIsFirst
    <3>3. g \in Nat
      <4>1. Head(thread.list) \in 1..Len(timer)
        <5>1. thread \in ThreadType(Len(timer)) /\ Len(timer) \in Nat
          BY DEF IndInv, TypeInv
        <5> QED
          BY <1>3, <5>1, HeadIsTimer
      <4>2. timer[Head(thread.list)] \in TimerType
        BY <4>1 DEF IndInv, TypeInv
      <4> QED
        BY <1>2, <4>2, TimerTypeIsOK, SortOccurrenceIsTime
    <3> HIDE DEF g
    <3>4. clock + (g - thread.now) \in Nat /\ g - thread.now > 0
      BY <1>2, <3>2, <3>3
    <3>5. thread'.until \in Nat /\ thread'.until <= clock + (g - thread.now)
      <4>1. {clock + (g - thread.now), Never} \subseteq Nat
        BY <1>2, <3>4
      <4>2. PICK m \in Nat : m = Min({clock + (g - thread.now), Never}) /\ m <= clock + (g - thread.now)
        BY <4>1, MinIsLeast
      <4>3. id \notin missed'
        BY DEF Pending
      <4>4. thread'.until = m \/ thread'.until \in clock..m
        BY <1>6, <3>4, <4>2, <4>3, Zenon
      <4> QED
        BY <1>2, <3>4, <4>2, <4>4
    <3> QED
      BY <1>2, <1>5, <2>1, <3>2, <3>3, <3>5
  <2>3. CASE ~(thread.now < s + timer[id].duration)
    BY <1>2, <1>5, <2>1, <2>3
  <2> QED
    BY <2>2, <2>3
<1>8. missed' \subseteq Ids
  <2>1. table \subseteq Ids
    BY BoundAssumption DEF IndInv, TypeInv, Ids
  <2> QED
    BY <1>6, <2>1 DEF TimelyInv
<1> QED
  BY <1>1, <1>6, <1>7, <1>8 DEF TimelyInv, ChangedInv, PassInv, ListInv

(* Every step keeps it.                                                     *)
LEMMA NextTimely == IndInv /\ TimelyInv /\ [Next]_vars => TimelyInv'
<1> SUFFICES ASSUME IndInv, TimelyInv, [Next]_vars PROVE TimelyInv'
  OBVIOUS
<1>1. CASE ClientNext
  BY <1>1, ClientTimely
<1>2. CASE ThreadNext
  BY <1>2, LookTimely, StartNextTimely, SleepTimely, LoopTimely DEF ThreadNext
<1>3. CASE StopThread \/ StopBroadcast
  BY <1>3, LoopTimely
<1>4. CASE Tick
  BY <1>4, TickTimely
<1>5. CASE UNCHANGED vars
  <2>1. UNCHANGED <<clock, timer, table, changed, event, thread, request, touched, missed>>
    BY <1>5 DEF vars, tableVars, history
  <2> QED
    BY <2>1 DEF TimelyInv, ChangedInv, PassInv, ListInv, SleepInv, SortedFor, Quiet, Pending
<1> QED
  BY <1>1, <1>2, <1>3, <1>4, <1>5 DEF Next

(* Every reachable state satisfies it.                                      *)
THEOREM Timely == Spec => []TimelyInv
BY InitTimely, NextTimely, Inductive, PTL DEF Spec

(* The table, the event, the thread and the requests keep their types: a    *)
(* timer in the thread's copy of the list is an object that exists, and the *)
(* count of waiting threads never drops below 0.                            *)
THEOREM TypeCorrect == Spec => []TypeOK
<1>1. IndInv /\ TimelyInv => TypeOK
  <2> SUFFICES ASSUME IndInv, TimelyInv PROVE TypeOK
    OBVIOUS
  <2>1. DOMAIN timer = 1..Len(timer) /\ Len(timer) \in Nat /\ Len(recordings) \in Nat
    BY DEF IndInv, TypeInv
  <2>2. \A id \in DOMAIN timer : timer[id].recording \in 0..Len(recordings)
    <3>1. \A id \in 1..Len(timer) : timer[id] \in TimerType
      BY DEF IndInv, TypeInv
    <3> QED
      BY <2>1, <3>1 DEF TimerType, IndInv, LinkInv
  <2>3. Range(thread.list) \subseteq DOMAIN timer /\ thread.at \in {"loop", "list", "wait", "off"}
    <3>1. thread.list \in Seq(1..Len(timer)) /\ thread.at \in {"loop", "list", "wait", "off"}
      BY DEF IndInv, TypeInv, ThreadType
    <3> QED
      BY <2>1, <3>1 DEF Range
  <2>4. request.at \in {"idle", "time", "channel", "active", "announce", "saving"}
    BY DEF IndInv, TypeInv, RequestType
  <2>5. changed \in BOOLEAN /\ touched \in BOOLEAN /\ unwritten \in BOOLEAN /\ missed \subseteq Ids
    BY DEF IndInv, FlagInv, TimelyInv
  <2>6. /\ clock \in 0..MaxTime /\ Len(timer) <= MaxTimers /\ table \subseteq DOMAIN timer
        /\ stop \in {"no", "set", "told"} /\ saved \subseteq Ids /\ event \in EventType
    BY <2>1 DEF IndInv, TypeInv, Ids
  <2> QED
    BY <2>2, <2>3, <2>4, <2>5, <2>6, Zenon DEF TypeOK, EventType
<1> QED
  BY <1>1, Inductive, Timely, PTL

(* Timers of one channel share a recording: of any number of timers,        *)
(* changed and removed at any moment of a pass, StartRecording() never      *)
(* makes a second recording of a channel while one goes on.                 *)
THEOREM SharedRecording == Spec => []OneRecordingPerChannel
<1>1. IndInv => OneRecordingPerChannel
  <2>1. IndInv => DOMAIN recordings = 1..Len(recordings)
    BY DEF IndInv, TypeInv
  <2> QED
    BY <2>1 DEF IndInv, RecordingInv, OneRecordingPerChannel
<1> QED
  BY <1>1, Inductive, PTL

(* Between requests timers.xml has the timers of the table, unless it could *)
(* not be written the last time: a save that fails is made up for by the    *)
(* next one, whatever the requests between them.                            *)
THEOREM SavedAfterRequest == Spec => []TableIsSaved
<1>1. IndInv => TableIsSaved
  BY DEF IndInv, SavedInv, TableIsSaved
<1> QED
  BY <1>1, Inductive, PTL

(* Stop() reaches the thread wherever it is.                                *)
THEOREM StopIsNotLost == Spec => []StoppedDoesNotSleep
<1>1. IndInv => StoppedDoesNotSleep
  BY DEF IndInv, StopInv, StoppedDoesNotSleep, Asleep
<1> QED
  BY <1>1, Inductive, PTL

(* AddTimer() never admits a timer that overlaps an active one of the       *)
(* table, for every length of a day and a week and every set of timers.     *)
THEOREM NoOverlapIsAdded == Spec => AddedDoNotOverlap
<1>1. IndInv /\ [Next]_vars =>
        [\A id \in table' \ table : \A other \in table :
           timer[other].active => ~Overlap(timer'[id], timer[other])]_vars
  <2> SUFFICES ASSUME IndInv, Next, NEW id \in table' \ table, NEW other \in table
               PROVE  ~Overlap(timer'[id], timer[other])
    BY DEF vars, tableVars
  <2>1. PICK new \in Settings : AddTimer(new)
    BY DEF Next, ClientNext, ThreadNext, RemoveTimer, RemoveUnknown, UpdateActive, NotifyObservers, SaveTimers,
           SetFilename, SetTime, SetChannel, SetActive, Sleep, EndOfList, Wake, TimeOut, End, StopThread, StopBroadcast,
           Look, StartNext, Tick, tableVars
  <2>2. id = Len(timer) + 1 /\ timer' = Append(timer, NewTimer(new)) /\ ~Conflicts(timer[other], NewTimer(new))
    BY <2>1 DEF AddTimer, ConflictFree
  <2>3. NewTimer(new) \in TimerType /\ timer[other] \in TimerType
    BY NewTimerIsTyped DEF IndInv, TypeInv
  <2>4. timer'[id] = NewTimer(new)
    BY <2>2 DEF IndInv, TypeInv
  <2>5. ~Overlap(timer[other], NewTimer(new))
    BY <2>2, <2>3, TimerTypeIsOK, ConflictsIsComplete
  <2>6. Overlap(NewTimer(new), timer[other]) => Overlap(timer[other], NewTimer(new))
    BY Zenon DEF Overlap
  <2> QED
    BY <2>4, <2>5, <2>6
<1> QED
  BY <1>1, Inductive, PTL DEF Spec, AddedDoNotOverlap

(* The thread does not sleep past the beginning of a timer that has a file  *)
(* name, unless nothing was left of the timeout: for every number of        *)
(* timers, added and removed at every moment of a pass.                     *)
THEOREM SleepEndsInTime == Spec => []NewTimersStartInTime
<1>1. IndInv /\ TimelyInv => NewTimersStartInTime
  <2> SUFFICES ASSUME IndInv, TimelyInv, Asleep, Announced, \A id \in table : timer[id].duration <= Day,
                      NEW id \in table \ missed, timer[id].named, timer[id].recording = 0, Triggered(timer[id])
               PROVE  FALSE
    BY DEF NewTimersStartInTime
  <2>1. thread.at = "wait" /\ Quiet /\ clock < thread.until
    BY DEF Asleep, Announced, Quiet, TimelyInv, ChangedInv
  <2>2. Pending(id)
    BY DEF Pending, Triggered
  <2>3. PICK s \in Starts(timer[id]) : s < clock /\ clock < s + timer[id].duration
    BY DEF Triggered
  <2>4. s + timer[id].duration <= clock \/ thread.until <= s + 1
    BY <2>1, <2>2 DEF TimelyInv, SleepInv
  <2>5. timer[id] \in TimerType /\ clock \in Nat /\ thread.until \in Nat
    BY DEF IndInv, TypeInv, ThreadType
  <2>6. s \in Nat /\ timer[id].duration \in Nat
    BY <2>5, TimerTypeIsOK, StartsAreTimes DEF TimesOK
  <2> QED
    BY <2>1, <2>3, <2>4, <2>5, <2>6
<1> QED
  BY <1>1, Inductive, Timely, PTL
=============================================================================
