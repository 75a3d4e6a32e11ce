---------------------------- MODULE TimerManager ----------------------------
(***************************************************************************)
(* The timer manager (cTimerManager): VNSI clients add, change and remove   *)
(* timers while its thread starts the recordings and sleeps until the next  *)
(* one, on an event (CEvent) that a change of the table broadcasts.  The    *)
(* requests of all clients are serialised by m_timerLock; the table is      *)
(* guarded by m_mutex, without which the thread works on a copy of the      *)
(* list, and the setters of a timer are called without it.                  *)
(*                                                                          *)
(* Time is counted in seconds, as CDateTime does.  The clock advances at    *)
(* most once in a pass of the thread's loop.  A recording is its channel    *)
(* and its times; whether it gets and keeps a tuner is left to the          *)
(* subscriptions (TunerSubscriptions).                                      *)
(***************************************************************************)
EXTENDS Timer, Sequences, SequencesExt

CONSTANTS
  Settings,      \* what a client may set a timer to
  LongestTimeout, \* the most seconds whose milliseconds fit the uint32_t timeout of CEvent::Wait()
  MaxTime,       \* bound on the clock
  MaxTimers,     \* bound on the timers ever added
  MaxUpdates     \* bound on the changes to timers

ASSUME BoundAssumption == {MaxTime, MaxTimers, MaxUpdates} \subseteq Nat
ASSUME TimeoutAssumption == LongestTimeout \in Nat

(* IsValid(): a timer has a channel and ends after it starts.  It need not  *)
(* have a file name.                                                        *)
ASSUME SettingsAssumption ==
  Settings \subseteq [start : Nat, duration : Nat \ {0}, mask : SUBSET (0..(Weekdays - 1)),
                      lifetime : Nat, channel : Nat, active : BOOLEAN, named : BOOLEAN]

Ids == 1..MaxTimers
Never == MaxTime + 1

VARIABLES
  clock,
  timer,         \* the timer objects, in the order of their IDs
  table,         \* the IDs in m_timers
  recordings,    \* the recordings, in the order of their IDs
  changed,       \* m_bObservableChanged of the manager
  saved,         \* the IDs in timers.xml
  unwritten,     \* history: timers.xml could not be written the last time
  event,         \* m_timerNotifyEvent
  stop,          \* m_bStop
  thread,        \* the thread: its place and its local variables
  request,       \* the request in progress: its place, the timer and the settings
  updates,       \* number of changes to timers
  touched,       \* history: a timer was changed since the thread last looked
  missed         \* history: the timers the thread does not wake up for: the occurrence to be
                 \* recorded was over, or nothing was left of the timeout

tableVars == <<timer, table, changed>>
file == <<saved, unwritten>>
history == <<touched, missed>>
vars == <<clock, tableVars, recordings, file, event, stop, thread, request, updates, history>>

NoSettings ==
  [start |-> 0, duration |-> 0, mask |-> {}, lifetime |-> 0, channel |-> 0, active |-> FALSE, named |-> FALSE]
Request(at) == [at |-> at, id |-> 0, new |-> NoSettings]
Loop == [at |-> "loop", now |-> 0, list |-> <<>>, until |-> Never, ticked |-> FALSE]

(* The settings as the timer keeps them.  m_recording is 0 if there is none. *)
Timed(old, new) ==
  [old EXCEPT !.start = new.start, !.duration = new.duration, !.mask = new.mask,
              !.expires = GetExpiration(new.start, new.mask, new.start + new.lifetime * Day)]

NewTimer(new) ==
  Timed([start |-> 0, duration |-> 0, mask |-> {}, expires |-> 0, channel |-> new.channel,
         active |-> new.active, named |-> new.named, recording |-> 0], new)

(* The type invariant of the table, the event, the thread and the calls.    *)
TypeOK ==
  /\ clock \in 0..MaxTime
  /\ Len(timer) <= MaxTimers /\ table \subseteq DOMAIN timer
  /\ \A id \in DOMAIN timer : timer[id].recording \in 0..Len(recordings)
  /\ changed \in BOOLEAN /\ stop \in {"no", "set", "told"}
  /\ saved \subseteq Ids /\ unwritten \in BOOLEAN /\ touched \in BOOLEAN /\ missed \subseteq Ids
  /\ event \in [signaled : BOOLEAN, broadcast : BOOLEAN, waiting : 0..2]
  /\ thread.at \in {"loop", "list", "wait", "off"} /\ Range(thread.list) \subseteq DOMAIN timer
  /\ request.at \in {"idle", "time", "channel", "active", "announce", "saving"}

Init ==
  /\ clock = 0
  /\ timer = <<>> /\ table = {} /\ changed = FALSE
  /\ recordings = <<>>
  /\ saved = {} /\ unwritten = FALSE
  /\ event = [signaled |-> FALSE, broadcast |-> FALSE, waiting |-> 0]
  /\ stop = "no"
  /\ thread = Loop
  /\ request = Request("idle")
  /\ updates = 0
  /\ touched = FALSE /\ missed = {}

-----------------------------------------------------------------------------
(* The event and the recordings.                                            *)

(* Mutant: a broadcast that finds nobody waiting is lost. *)
BroadcastIfWaiting ==
  event' = IF event.waiting > 0 THEN [event EXCEPT !.signaled = TRUE, !.broadcast = TRUE] ELSE event

Broadcast == event' = [event EXCEPT !.signaled = TRUE, !.broadcast = TRUE]

(* m_iWaitingThreads only matters where it comes down to 0; a wait that     *)
(* timed out is never taken off it.                                         *)
CountWaiting(e) == [e EXCEPT !.waiting = IF @ < 2 THEN @ + 1 ELSE 2]

ResetAndReturn(e) ==
  [e EXCEPT !.waiting = @ - 1, !.signaled = ~(e.waiting = 1 \/ ~e.broadcast)]

Covers(r, now) == r.start <= now /\ now < r.end

IsRecording(t, now) == t.recording # 0 /\ Covers(recordings[t.recording], now)

(* Mutant: recordings of other timers are not looked for. *)
GetByChannelOwn(channel, now) == 0

GetByChannel(channel, now) ==
  LET found == {i \in DOMAIN recordings : recordings[i].channel = channel /\ Covers(recordings[i], now)}
  IN IF found = {} THEN 0 ELSE Min(found)

-----------------------------------------------------------------------------
(* The requests, each of which holds m_timerLock.  AddTimer(),              *)
(* RemoveTimer() and the change of a timer are followed by                  *)
(* NotifyObservers() in the handler.                                        *)

(* Mutant: conflicts are looked for in one direction of time only. *)
ConflictFreeAtStart(new) == \A id \in table : ~IsOccurring(timer[id], new.start)

ConflictFree(new) == \A id \in table : ~Conflicts(timer[id], new)

(* Mutant: the table is not marked as changed. *)
RemoveTimerUnmarked(id, force) ==
  /\ request.at = "idle"
  /\ id \in table
  /\ force \/ ~IsRecording(timer[id], clock)
  /\ table' = table \ {id}
  /\ request' = Request("announce")
  /\ UNCHANGED <<clock, timer, changed, recordings, file, event, stop, thread, updates, history>>

AddTimer(new) ==
  /\ request.at = "idle"
  /\ Len(timer) < MaxTimers
  /\ ConflictFree(NewTimer(new))
  /\ timer' = Append(timer, NewTimer(new))
  /\ table' = table \cup {Len(timer) + 1}
  /\ changed' = TRUE
  /\ request' = Request("announce")
  /\ UNCHANGED <<clock, recordings, file, event, stop, thread, updates, history>>

(* A timer that is recording is only removed by force; its recording is     *)
(* then interrupted.                                                        *)
RemoveTimer(id, force) ==
  /\ request.at = "idle"
  /\ id \in table
  /\ force \/ ~IsRecording(timer[id], clock)
  /\ table' = table \ {id}
  /\ changed' = TRUE
  /\ request' = Request("announce")
  /\ UNCHANGED <<clock, timer, recordings, file, event, stop, thread, updates, history>>

(* A request to remove a timer that does not exist is announced as well.    *)
RemoveUnknown ==
  /\ request.at = "idle"
  /\ request' = Request("announce")
  /\ UNCHANGED <<clock, tableVars, recordings, file, event, stop, thread, updates, history>>

(* processTIMER_Update(): the setters of the timer one by one, none of them *)
(* with m_mutex; or only the last.  The changed mark they set is the one of *)
(* the timer, which nobody looks at.                                        *)
SetFilename(id, new) ==
  /\ request.at = "idle" /\ id \in table
  /\ updates < MaxUpdates
  /\ updates' = updates + 1
  /\ timer' = [timer EXCEPT ![id] = [@ EXCEPT !.named = new.named]]
  /\ request' = [at |-> "time", id |-> id, new |-> new]
  /\ touched' = TRUE
  /\ UNCHANGED <<clock, table, changed, recordings, file, event, stop, thread, missed>>

SetTime ==
  /\ request.at = "time"
  /\ timer' = [timer EXCEPT ![request.id] = Timed(@, request.new)]
  /\ request' = [request EXCEPT !.at = "channel"]
  /\ touched' = TRUE
  /\ UNCHANGED <<clock, table, changed, recordings, file, event, stop, thread, updates, missed>>

SetChannel ==
  /\ request.at = "channel"
  /\ timer' = [timer EXCEPT ![request.id] = [@ EXCEPT !.channel = request.new.channel]]
  /\ request' = [request EXCEPT !.at = "active"]
  /\ touched' = TRUE
  /\ UNCHANGED <<clock, table, changed, recordings, file, event, stop, thread, updates, missed>>

SetActive ==
  /\ request.at = "active"
  /\ timer' = [timer EXCEPT ![request.id] = [@ EXCEPT !.active = request.new.active]]
  /\ request' = Request("announce")
  /\ touched' = TRUE
  /\ UNCHANGED <<clock, table, changed, recordings, file, event, stop, thread, updates, missed>>

UpdateActive(id, active) ==
  /\ request.at = "idle" /\ id \in table
  /\ updates < MaxUpdates
  /\ updates' = updates + 1
  /\ request' = [at |-> "active", id |-> id, new |-> [NoSettings EXCEPT !.active = active]]
  /\ UNCHANGED <<clock, tableVars, recordings, file, event, stop, thread, history>>

(* NotifyObservers(): nothing if the mark is not set; otherwise it wakes    *)
(* the thread and saves the table, with m_obsCritSection held throughout.   *)
NotifyObservers ==
  /\ request.at = "announce"
  /\ IF changed
       THEN changed' = FALSE /\ Broadcast /\ request' = Request("saving")
       ELSE UNCHANGED <<changed, event>> /\ request' = Request("idle")
  /\ UNCHANGED <<clock, timer, table, recordings, file, stop, thread, updates, history>>

(* The result is ignored.  A temporary file is written and takes the place  *)
(* of timers.xml, which stays as it is if that fails and is gone if only    *)
(* the renaming does.                                                       *)
SaveTimers ==
  /\ request.at = "saving"
  /\ \/ saved' = table /\ unwritten' = FALSE
     \/ saved' \in {saved, {}} /\ unwritten' = TRUE
  /\ request' = Request("idle")
  /\ UNCHANGED <<clock, tableVars, recordings, event, stop, thread, updates, history>>

-----------------------------------------------------------------------------
(* The thread.                                                              *)

GetIdleTimers(now) ==
  {id \in table : timer[id].active /\ ~IsRecording(timer[id], now) /\ ~IsExpired(timer[id], now)}

(* The top of the loop: the idle timers, sorted for the current time.       *)
Look ==
  /\ thread.at = "loop" /\ stop = "no"
  /\ LET idle == GetIdleTimers(clock)
     IN IF idle = {}
          THEN /\ thread' = [Loop EXCEPT !.at = "wait"]
               /\ event' = CountWaiting(event)
          ELSE /\ \E list \in SetToSeqs(idle) :
                    /\ \A i, j \in DOMAIN list : i < j =>
                         GetSortOccurrence(timer[list[i]], clock) <= GetSortOccurrence(timer[list[j]], clock)
                    /\ thread' = [Loop EXCEPT !.at = "list", !.now = clock, !.list = list]
               /\ UNCHANGED event
  /\ touched' = FALSE /\ missed' = {}
  /\ UNCHANGED <<clock, tableVars, recordings, file, stop, request, updates>>

(* StartRecording() looks again, at the time it is called.  A recording     *)
(* takes its folder from the timer's file name, and AddRecording() refuses  *)
(* one without.                                                             *)
StartRecording(id) ==
  LET t == timer[id]
      found == IF IsRecording(t, clock) THEN t.recording ELSE GetByChannel(t.channel, clock)
      start == GetSortOccurrence(t, clock)
  IN IF ~t.active \/ ~IsOccurring(t, clock) THEN UNCHANGED <<timer, recordings>>
     ELSE IF found # 0 \/ ~t.named
       THEN timer' = [timer EXCEPT ![id] = [@ EXCEPT !.recording = found]] /\ UNCHANGED recordings
       ELSE /\ recordings' = Append(recordings, [channel |-> t.channel, start |-> start, end |-> start + t.duration])
            /\ timer' = [timer EXCEPT ![id] = [@ EXCEPT !.recording = Len(recordings) + 1]]

StartNext ==
  /\ thread.at = "list" /\ thread.list # <<>>
  /\ IsOccurring(timer[Head(thread.list)], thread.now)
  /\ StartRecording(Head(thread.list))
  /\ thread' = [thread EXCEPT !.list = Tail(@)]
  /\ missed' = IF IsOccurring(timer[Head(thread.list)], clock) THEN missed ELSE missed \cup {Head(thread.list)}
  /\ UNCHANGED <<clock, table, changed, file, event, stop, request, updates, touched>>

(* The time to sleep is reckoned from the beginning of the pass.  If the    *)
(* timer was changed since, the difference may be negative, which the       *)
(* conversions turn into any number.  What is left of milliseconds that do  *)
(* not fit is a shorter time, or 0, which CEvent::Wait() takes for ever.    *)
Sleep ==
  /\ thread.at = "list" /\ thread.list # <<>>
  /\ ~IsOccurring(timer[Head(thread.list)], thread.now)
  /\ LET wait == GetSortOccurrence(timer[Head(thread.list)], thread.now) - thread.now
         until == Min({clock + wait, Never})
     IN \/ /\ wait \in 1..LongestTimeout
           /\ thread' = [Loop EXCEPT !.at = "wait", !.until = until]
           /\ UNCHANGED missed
        \/ /\ wait > LongestTimeout
           /\ \/ /\ \E early \in clock..until : thread' = [Loop EXCEPT !.at = "wait", !.until = early]
                 /\ UNCHANGED missed
              \/ /\ thread' = [Loop EXCEPT !.at = "wait"]
                 /\ missed' = table
        \/ /\ wait <= 0
           /\ \E any \in (clock + 1)..Never : thread' = [Loop EXCEPT !.at = "wait", !.until = any]
           /\ UNCHANGED missed
  /\ event' = CountWaiting(event)
  /\ UNCHANGED <<clock, tableVars, recordings, file, stop, request, updates, touched>>

EndOfList ==
  /\ thread.at = "list" /\ thread.list = <<>>
  /\ thread' = Loop
  /\ UNCHANGED <<clock, tableVars, recordings, file, event, stop, request, updates, history>>

Wake ==
  /\ thread.at = "wait" /\ event.signaled
  /\ event' = ResetAndReturn(event)
  /\ thread' = Loop
  /\ UNCHANGED <<clock, tableVars, recordings, file, stop, request, updates, history>>

TimeOut ==
  /\ thread.at = "wait" /\ ~event.signaled
  /\ clock >= thread.until
  /\ thread' = Loop
  /\ UNCHANGED <<clock, tableVars, recordings, file, event, stop, request, updates, history>>

End ==
  /\ thread.at = "loop" /\ stop # "no"
  /\ thread' = [Loop EXCEPT !.at = "off"]
  /\ UNCHANGED <<clock, tableVars, recordings, file, event, stop, request, updates, history>>

(* Stop(): the flag, then the broadcast.                                    *)
StopThread ==
  /\ stop = "no"
  /\ stop' = "set"
  /\ UNCHANGED <<clock, tableVars, recordings, file, event, thread, request, updates, history>>

StopBroadcast ==
  /\ stop = "set"
  /\ stop' = "told"
  /\ Broadcast
  /\ UNCHANGED <<clock, tableVars, recordings, file, thread, request, updates, history>>

(* Between the look at the list and the sleep the clock advances once at    *)
(* most.                                                                    *)
Tick ==
  /\ clock < MaxTime
  /\ thread.at # "off"
  /\ thread.at = "list" => ~thread.ticked
  /\ clock' = clock + 1
  /\ thread' = [thread EXCEPT !.ticked = (thread.at = "list")]
  /\ UNCHANGED <<tableVars, recordings, file, event, stop, request, updates, history>>

-----------------------------------------------------------------------------
ClientNext ==
  \/ \E new \in Settings : AddTimer(new)
  \/ \E id \in table : \/ \E force \in BOOLEAN : RemoveTimer(id, force)
                      \/ \E new \in Settings : SetFilename(id, new)
                      \/ \E active \in BOOLEAN : UpdateActive(id, active)
  \/ RemoveUnknown
  \/ SetTime \/ SetChannel \/ SetActive \/ NotifyObservers \/ SaveTimers

ThreadNext == Look \/ StartNext \/ Sleep \/ EndOfList \/ Wake \/ TimeOut \/ End

Next == ClientNext \/ ThreadNext \/ StopThread \/ StopBroadcast \/ Tick

Spec == Init /\ [][Next]_vars

-----------------------------------------------------------------------------
(* Properties.                                                              *)

Asleep == thread.at = "wait" /\ ~event.signaled /\ clock < thread.until

Announced == ~touched /\ request.at # "announce"

Triggered(t) == t.active /\ \E s \in Starts(t) : s < clock /\ clock < s + t.duration

(* The thread never sleeps past the beginning of a timer that has a file    *)
(* name and has not been recorded yet, by more than the one tick its pass   *)
(* may take: the broadcast of a new timer is not lost, whenever it comes,   *)
(* and the sleep ends with the first occurrence.  Not so of a timer whose   *)
(* occurrence ended between the look at the list and StartRecording(): the  *)
(* pass goes on to the other timers, and its next occurrence counts for     *)
(* nothing in the time to sleep.  Nor if the first occurrence is so far     *)
(* ahead that nothing is left of the timeout.  A timer longer than a day    *)
(* may be sorted by a day after the last that is over already; the time to  *)
(* sleep is then 0, which the event takes for ever.                         *)
NewTimersStartInTime ==
  Asleep /\ Announced /\ (\A id \in table : timer[id].duration <= Day) =>
    \A id \in table \ missed : timer[id].named /\ timer[id].recording = 0 => ~Triggered(timer[id])

(* "Start recordings when timers are triggered": the same of every timer,   *)
(* recorded before or not.                                                  *)
TriggeredAreStarted ==
  Asleep /\ Announced => \A id \in table : Triggered(timer[id]) => IsRecording(timer[id], clock)

(* Of the recordings of one channel at most one is not over: timers that    *)
(* come to overlap, by a change or a removal, share a recording.            *)
OneRecordingPerChannel ==
  \A i, j \in DOMAIN recordings :
    i # j /\ recordings[i].channel = recordings[j].channel =>
      recordings[i].end <= clock \/ recordings[j].end <= clock

(* When no request is in progress timers.xml has the timers of the table,   *)
(* unless it could not be written the last time: every change is marked,    *)
(* the mark is not lost before the save, and a failed save is made up for   *)
(* by the next one.                                                         *)
TableIsSaved == request.at = "idle" /\ ~unwritten => saved = table

Overlap(a, b) ==
  \E s \in Starts(a), u \in Starts(b) : s < u + b.duration /\ u < s + a.duration

(* AddTimer() "fails [...] if newTimer has a time conflict with an active   *)
(* timer": no occurrence of the new timer coincides with one of an active   *)
(* timer in the table, although Conflicts() compares only the neighbours of *)
(* each start.  A disabled timer stands in the way all the same, although   *)
(* Timer.h says that a timer "may be disabled to allow the addition of      *)
(* conflicting timers": AddTimer() does not look at m_bActive.              *)
AddedDoNotOverlap ==
  [][\A id \in table' \ table : \A other \in table :
       timer[other].active => ~Overlap(timer'[id], timer[other])]_vars

(* Stop() reaches the thread wherever it is: after it the thread is neither *)
(* asleep nor does it fall asleep, so that it finds the flag and ends.      *)
StoppedDoesNotSleep == stop = "told" => ~Asleep

=============================================================================
