# A verification project for VDR

VDR turns DVB hardware into live television, recordings and programme guides.
This directory holds TLA+ models of its concurrent core, the TLC runs that check
them, and TLAPS proofs. `PROJECT.json` maps every definition to the lines it
models, and lists the components, the hazards, the runs and the theorems.

```
tlc -workers 4 -config MCReceiver.cfg MCReceiver     # one run
tlapm DeviceReceiverSubsystemProofs.tla              # one set of proofs
```

## 1. The system

### Parts and how they interact

```
 VNSI clients   timers -> recorder     channel scanner   EPG scanner
      |              |                       |               |
   demuxer           |                    scan subsystem, table filters
      |              |                       |               |
      +---- tuner handles: channel subsystem (who has the device) ----+
                     |                            |
              DVB tuner (thread)       receiver subsystem (thread)
                     |                            |
                 frontend                   demux and DVR devices
```

| Part | State | Operations | What makes it hard |
|---|---|---|---|
| Receiver subsystem | queue of changes, table of receivers by PID, two flags, a thread | attach, detach (four forms), `SyncPids`, start, stop, dispatch | all waiters share one flag; changes are applied outside the lock; the thread may be down |
| DVB tuner | state machine, two mutexes, an event, two conditions, an observer mark | `Open`, `Tune`, `ClearTransponder`, `Close`, the thread's loop | hand-over between mutexes, flags that are stale when read, signals without the mutex, timeouts |
| Channel subsystem, tuner handles | list of active handles, tuned transponder | `Acquire`, `Release`, preemption, `SwitchChannel`, `ClearChannel` | registration under the mutex, switching and callbacks outside it |
| Scan subsystem, scan receivers, PAT/PMT | waiting set, scan and lock flags, filter lists | attach, lock acquired/lost, scanned, wait | three mutexes, completions that overtake registration |
| EPG and channel scanners | trigger, stop flag, progress | start, stop, scan loop | start racing stop |
| Table filters (EIT, NIT, SDT, PSIP, TDT) | syncers | receive a section | multi-section tables and versions |
| Channel, schedule, recording managers | maps, changed marks, XML files | add, merge, remove, notify, load, save | notification across objects with a mutex each |
| Timers | map of timers, a thread, an event | add, update, remove, start recordings | sleeping past the next occurrence, recurrence arithmetic |
| Recorder, ring buffer, index | ring buffer, file, a thread | receive, write, stop | unsynchronised head and tail, overflow |
| VNSI server, client, streamer | client list, modified flags, sockets, threads | accept, reap, stream, stop | destruction against running threads |
| Demuxer, video buffers | time-shift ring in RAM or file, margins | put, read, seek | wrap-around, buffer deleted while attached |
| Observers, `CThread`, `CEvent`, `cSynchronousAbort` | lists and flags | register, notify, create, stop, wait | lock order, stale observers, counts of waiters |
| Device manager, device | devices, ready count | initialise, wait, open input | start failures that are ignored |
| Common interface | CAM protocol state, a thread | transport and session messages | timeouts |
| Remuxer, parsers, transponders, settings, filesystem, libraries | data | conversions, I/O | out of scope: data, not control |

The properties worth having, part by part, are the `hazards` of `PROJECT.json`:
each is given at the line where it bites, with the properties that cover it or
the reason none does yet.

### Modules

| Module | Models | Run by |
|---|---|---|
| `DeviceReceiverSubsystem` | `cDeviceReceiverSubsystem`, `cDvbReceiverSubsystem` | `MCReceiver` |
| `ChangeBarrier` | what that subsystem promises its clients | refined by the above |
| `DvbTuner` | `cDvbTuner` | `MCTuner` |
| `TunerSubscriptions` | `cDeviceChannelSubsystem`, `cTunerHandle` | `MCSubscriptions` |
| `TableScan` | `cDeviceScanSubsystem`, `cScanReceiver`, `cPat`, `cPmt`, `cSectionSyncer` and the scanner's loop | `MCTableScan` |
| `RingBufferLinear` | `cRingBufferLinear` | `MCRingBuffer` |
| `ByteQueue` | what a ring buffer promises a writer and a reader | refined by the above |
| `Timer` | `cTimer`: occurrences, expiry, conflicts | extended by the next |
| `TimerManager` | `cTimerManager`, `CEvent`, the clients' timer requests, the start of recordings | `MCTimers` |
| `TimeshiftBuffer` | `cVideoBufferRAM` | `MCTimeshift` |
| `CiSession` | the sessions a CAM opens (`cCiResourceManager`, `cCiApplicationInformation`, `cCiConditionalAccessSupport`) | extended by the next |
| `CamSlot` | `cCiAdapter`, `cCamSlot`, `cCiTransportConnection`, against a CAM | `MCCamSlot` |
| `DeviceReceiverSubsystemProofs`, `DvbTunerProofs`, `TunerSubscriptionsProofs`, `TableScanProofs`, `RingBufferProofs`, `TimerProofs`, `TimeshiftProofs`, `CamSlotProofs` | the proofs | tlapm |

Code that runs under one mutex from lock to unlock is one action. Where a
mutex is given up and taken again, or held across a wait, there is a step on each
side, and the mutex is a variable if another thread can find it taken. Operators
whose comment begins with "Mutant" are plausible wrong versions of the
definition after them; no specification uses them, they show that a property can
fail.

## 2. The receiver subsystem

Clients push changes on `m_receiverChanges`; the thread pops and applies them
one by one, outside the lock, and polls for data when none is left.

- `Push` and the seven client calls are atomic: they hold the mutex. A call that
  waits sets `waitingFor`, and `WakeUp` is its return from the condition wait.
- The thread's place is `pc`: `Initialise` (which may fail, and then the thread
  ends), `CheckStopped`, `WaitForPidChange`, `NextChange`,
  `ProcessReceiverChange`, `Settle`, `PollNotReady`, `DispatchSection`,
  `DispatchPacket`, `Deinitialise`.
- The table maps keys to sets of edges (receiver, resource). Resources are
  keyed as the code keys them: `Tid()` is not virtual, so the table ID of every
  DVB resource is 0xFF.
- Data read is its PID and resource. The contents, the CRC and the reassembly of
  sections are left out.
- `submitted`, `applied`, `lastAttach`, `lastClear` and tickets are history. `ChangeBarrier`
  has the sequence of tickets that have not taken effect; the refinement gives it the tickets the thread
  has in hand and those in the queue, so a change that is applied out of turn or dropped shows.

| Run | Shows |
|---|---|
| `receiver` | two clients, two receivers, three changes, two starts: changes are applied once and in order and a wait ends no earlier than its change is applied (the refinement of `ChangeBarrier`), none is left in the queue behind a cleared flag (`NoForgottenChange`), the thread's flag and the table agree in its first run (`FlagMatchesTable`), nobody is handed data after a detach-all (`NothingAfterClear`), and, if the thread stays up, that waits end and changes are applied (`WaitersReturnIfRunning`, `ChangesAppliedIfRunning`) |
| `receiver_detach` | (violation) `DetachReceiver()` leaves the receiver on a PID it shares with another |

Bounds: three changes are enough for an attach, a detach-all and a change of
another client to be in any order, with a second client waiting; two starts give a
restart with a non-empty table. One PID is shared by both receivers,
which is the interesting case: keys of different PIDs do not interact.

Fairness (`FairSpec`): weak fairness of the thread's loop and of a woken waiter,
since the operating system schedules them, and of the one call of `Start()` that
`cDevice::Initialise()` makes. Nothing is assumed of clients or data.
Liveness is stated under `StaysRunning`, as the thread may fail to open the DVR
and may be stopped. Deadlock is not checked: after the last change all clients
may be done, or wait for a thread that has ended.

### What is proved

`DeviceReceiverSubsystemProofs` proves, for any clients, receivers, PIDs, filters
and bounds: `TypeCorrect`, `InOrder`, `NoneForgotten`, `WaitersSafe`,
`ClearedTable`, `Silent`, `FlagAgrees` and `Refinement`. `FlagAgrees` says that the
thread's flag and the table agree whenever it decides whether to poll, in its first run. The theorems assume only
what `DeviceReceiverSubsystem` assumes of its constants: PSI receivers are receivers, `NoReceiver` and `AnyTid` are fresh,
the bounds are numbers.

The invariants are not inductive alone. `IndInv` adds:

- `WaitersBounded`: nobody waits for a change not yet submitted. Without it a
  submission could release a waiter.
- `PendingChanges`: a queued or current attach is no newer than `lastAttach`, and
  the change with the ticket `lastClear` is a detach-all. It is what makes a table
  that was cleared stay empty while older attachments are still queued.
- `FirstRun`: the table is empty before the first run, which starts with
  its flag `empty` set.

The argument goes by action. `ClientCallSubmits` reduces the seven calls to one
`Submission`. `QuietPreserves` covers the steps that touch neither queue nor
table. `NextChange`, `ProcessReceiverChange` and `Settle` have a lemma each, and
`ApplyChangeTable` says what a change does to the table. The heart is that the
queue always holds the tickets `applied+1 .. submitted` (less the one in flight),
so when `Settle` finds it empty and raises `m_changeProcessed`, every
submitted change has been applied. That gives `WaiterSeesItsChange` although
all waiters share the flag. `StepRefinement` maps `ProcessReceiverChange` to `Apply`,
`WakeUp` to `Return`, calls to `Submit` and the rest to stuttering.

The liveness properties are model-checked only. The refinement is proved as well
as checked.

## 3. The DVB tuner

`th` is the thread's place in `Process()`, `at` a client's place in its call.
`m_stateMutex` and `m_tuneEventMutex` are variables, as `Tune()` holds one while
it takes the other. "dozing" and "asleep" separate the thread's test
of `m_tuneEvent` from its sleep: `CancelTuning()` signals without that mutex, so
its signal can fall in between and be lost. Frontend data are reduced to the
transponder last tuned (`frontend`) and a status (`none`, `sync`, `lock`), which
the hardware may change at any time.

Two histories say what the clients did: `serial` (no call was begun during another)
and `prompt` (no wait ran out while the thread was at work, which the seconds of the
timeouts make unlikely, not impossible). The safety properties hold without either, but for
`LockIsAnnounced`; the liveness of calls and requests needs both, `CloseEndsThread` none.

| Run | Shows |
|---|---|
| `tuner` | two clients, two transponders and one of unknown type, timeouts at any time: until `Close()` a LOCKED tuner has the hardware on its transponder; nobody who was told of a lock is moved to another transponder without being told; `Close()` ends the thread in spite of lost signals. While `serial` and `prompt`, a lock is announced, calls return and requests are tried |
| `tuner_concurrent_calls` | (violation) two `Tune()` calls deadlock |

Bounds: two clients are what the lock-order and stale-flag cases need; two
transponders tell a retune from a repeat, and the one of unknown type never locks. There is no bound on the number of calls.
Fairness: the thread's steps, and the continuation of a call once
begun; never the beginning of a call, nor a change of the frontend. Deadlock is
not checked: a closed tuner has nothing left to do.

The thread's CANCEL pass also queues a detach-all with the receiver subsystem
(`DVBTuner.cpp:845`). That is an action of `DeviceReceiverSubsystem`, not of this module:
nothing the tuner does depends on it.

After `Close()` the thread may still set LOCKED once (`UpdateFrontendStatus()` does
not look at the stop flag), therefore `LockedMeansTuned` says "until `Close()`".

`DvbTunerProofs` proves the safety properties of the run for any clients and transponders:
the types (`TunerTypesCorrect`), `LockedIsTuned`, `RetuneIsAnnounced` and `LockAnnounced`. It assumes that the
transponders of unknown type are transponders and that `None` is neither a transponder nor a client.
The thread reads the state under the mutex and acts on it after clients had the mutex in between, so `IndInv`
says for each of its places which states it can find there:

- `OpenInv`: until `Close()`, clients only ever turn the state into CANCEL, which the thread alone
  leaves, or into TUNING, and that only while the thread polls no frontend; with each state goes the transponder
  that is set in it.
- `CallInv`: who holds `m_stateMutex`, what a call carries, and that `Close()` runs alone.
- `ThreadInv`: what the thread still knows of what it read, in particular that the frontend was synced on the way from
  `UpdateFrontendStatus()` to the notification.
- `AnnounceInv`: the mark that `SetChanged()` makes is still there when the lock is announced, while
  `serial` and `prompt`.

There is one lemma per action. The liveness of calls, requests and `Close()` is model-checked only.

## 4. Subscriptions

`active` has the owners of the handles in `m_activeTransponders` and `before` the
pairs of them in the order of the vector; `at` is the place in `Acquire()` or `Release()`. A call registers under the mutex, then outside it tells the
owners it preempted, detaches receivers if it must switch, switches, and is
given a handle to attach to; a failed switch releases again. `Release()` runs twice, once
explicitly and once in the destructor, as in the code (`pass`); a call that is refused runs the second, since
the handle it made at its top is destroyed. A scanner that is preempted loses its receivers and stops scanning
(`NotifyLowerPriority`).

| Run | Shows |
|---|---|
| `subscriptions` | a recording, live TV and the EPG scanner with overlapping calls: nobody leaves the table without being told; a later registration has at least the priority of an earlier one; a registered client is in a call or holds its handle. Until two calls have overlapped (`overlapped`) or a subscriber was passed over (`sidelined`), who is registered is served (tuned to its transponder, receivers attached) and an unused device is untuned |

Bounds: one subscriber of each of three types and two transponders, unbounded calls; the channel
scanner, a second kind of scan, is left out to keep the instance small.
With overlapping calls the two served properties do not hold: `Acquire()` switches
after it has released the mutex, also when it was preempted meanwhile, and `Release()` decides that the
device is unused before it clears the channel, without the mutex. Nor do they hold once a subscriber has switched the
device while another of its own type was registered, on a different transponder or, for live TV, on any: that one is neither
preempted nor told. The history `sidelined` records it. It takes two subscribers of one type, which the run has not, and a fourth subscriber
makes the instance too large for it; the theorems cover them. There is no liveness here: each step
is a call into another part. Deadlock is checked.

`TunerSubscriptionsProofs` proves the types and every property of the run for any number of subscribers of each type:
`SubscriptionTypesCorrect`, `ErasedIsTold`, `TableIsByPriority`, `OnlySubscribersRegistered`,
`RegisteredAreServed` and `UnusedIsCleared`, and that `before` is a strict total order, as the vector it stands for is
(`TableIsASequence`). The one assumption is that `None` is no transponder. `IndInv` adds `ErasedAreTold`, the first property
extended to clients that are still inside `Acquire()` and may be preempted there; `CallInv`, by which calls that never
overlapped are one at a time; and `OrderlyInv`, which says of every place in a call that runs alone what the device is tuned to
and who is registered: one that has to switch is alone in the table, because those of lower priority were erased, those of higher made
`CanTune()` refuse, and one of its own type would be `sidelined`.

## 5. Scanning a transponder

`sc` is the scanner's place, `rt` the receiver thread with the section it has in
hand, `notify` the tuner's notification in progress: three threads that share the waiting set,
the receivers' flags and the filters, under different mutexes. Handles are numbered by
scan, so that a section of an earlier scan can be told from one of this. A receiver has
one fixed filter, the PMT receiver one per PID the PAT named. What a section says is the
set of PIDs of a PAT and its version and number; the rest is data.

| Run | Shows |
|---|---|
| `table_scan` | a scan that succeeds has seen every receiver complete since it was registered (`SuccessMeansScanned`); sections of the previous scan complete nothing (`CompletionsAreCurrent`); a released scan has no receiver attached (`ReleasedIsDetached`); in the first scan the SDT is taken up after the PMTs (`GatedAfterPmt`) |

Bounds: two scans, so that one inherits what the other left behind; one change of the lock, which is a
loss or a late lock; two PMT PIDs with room for one open filter, so that one has to wait
for the other. Deadlock is not checked: after the last scan everything rests. There is no
liveness: every wait of the scanner has a timeout.

`TableScanProofs` proves all five properties of the run for any tables, PIDs and versions and any number of scans, signal changes and
open filters: `ScanTypesCorrect`, `ScanSucceedsOnlyComplete`, `SectionsAreOfThisScan`, `ReleaseDetaches` and
`GateWaitsForPmt`. It assumes that the bounds are numbers, a PAT names PMT PIDs, versions are positive, and the names of receivers and
filters are distinct. `IndInv` adds to the types:

- `WaitInv`: at every place of the scanner's loop, a receiver already registered is waited for or has completed since. This is what a
  completion that overtakes the registration of its own receiver could break.
- `CurrentInv`: the section the receiver thread has in hand is one of this scan, since `Release()` ends only
  when it has none.
- `LockInv`: when `Release()` synchronises, the loss of the lock is on its way or done, so nothing sets `m_locked` again.
- `DetachInv`: what is not attached has no handle, and `Release()` leaves nothing attached.
- `GateInv`: in the first scan the PMT receiver's flag comes with a completion.

Left out: preemption of a scan by another subscriber (`TunerSubscriptions`), a refused
`AttachStreamingReceiver()`, receivers that share a PID, the ATSC event and time tables, the second filter of
the VCT. A `clear()` of a vector that coincides with a `push_back()` of another thread is one
of the two orders.

## 6. The ring buffer

`cRingBufferLinear` has one writer and one reader and no lock. Both sides are
split where the other can come in between: the writer reads `tail` and measures the room, copies, and
stores `head` (`Put`, `Read`, `Copy`, `Publish`); the reader moves the end of the
data into the margin before it stores `tail` (`Get`, `Move`, `Moved`), and gives back
what it used (`Del`). The bytes are numbered in the order in which they were accepted.
`ByteQueue` holds up to `Size - 1` bytes. `Ringbuffer.h:88` says "at most Size-Margin-1", and that is what
`Put()` leaves room for while the data begins behind the margin; after a move it begins in the margin, and the code can hold more.
Loads and stores of `head` and `tail` are taken to be sequentially consistent.

| Run | Shows |
|---|---|
| `ring_buffer` | nothing is lost, repeated or reordered across the wrap and the move, and a block lent to the reader is not touched (the refinement of `ByteQueue`); Margin bytes are always served in one block (`MarginServed`); and a reader that polls gets what is there (`ReadyIsDelivered`) |

Bounds: a buffer of 8 with a margin of 3 and chunks of 1 and 4 wraps twice in 16 bytes, with
every distance between head, tail, margin and end. Fairness is of the reader's `Get()`
alone, whose callers poll. The waits for room and data (100 ms), the statistics and
`cRingBufferFrame` are left out; each `Get()` is followed by at most one `Del()`, as in all callers.

`RingBufferProofs` proves all but the liveness, for every size and margin the
constructor accepts. `IndInv` adds to `ContentsInOrder` (what lies between `tail` and `head` is
what was stored and not removed, in order):

- `WriterInv`: what the writer is storing fits by the `tail` of now, although it was measured by an older
  one, and is in place before `head` moves over it;
- `ReaderInv`: the block lent lies in one piece within the contents; a move is under way only while
  the data wraps, and its copy is complete before `tail` moves.

`WriterPlaces` and `PublishPlaces` hold the arithmetic of the wrap; each action has a
lemma, and `StepRefinement` maps `Publish` to `Store`, a successful `Get()` to `Lend` and `Del()` to `Remove`.

## 7. Timers

`Timer` has the arithmetic of occurrences as operators: a timer's starts, its expiry, its sort key
and the test for conflicts. `TimerManager` has the thread, the event with its count of
waiting threads (`CEvent`), the requests, which `m_timerLock` serialises, and the
recordings. The thread works on a copy of the list made under the mutex; a request
changes the timers meanwhile. An update calls the setters one by one (`SetFilename`, `SetTime`, `SetChannel`,
`SetActive`), and the thread may come between any two. A timer without a file name (`named`) starts no
recording: `AddRecording()` refuses it. A save may fail (`unwritten`), and leave the old file or none.
`Sleep` has the conversion of the time to wait: one that does not fit the 32 bits of its milliseconds comes out shorter, or as 0, which is
no timeout.

| Run | Shows |
|---|---|
| `timers` | the thread never sleeps past the first start of a timer, unless its occurrence was over when it was to be recorded (`NewTimersStartInTime`); a channel is recorded once at a time (`OneRecordingPerChannel`); `Stop()` is not missed (`StoppedDoesNotSleep`); between requests the file has the timers of the table, unless the last write failed (`TableIsSaved`); no overlap with an active timer is admitted (`AddedDoNotOverlap`) |
| `timers_repeat` | (violation) a repeating timer misses its second occurrence: while it records the thread has no idle timer and waits without a timeout |

Bounds: two timers out of three settings, a single one, one that repeats daily and one without a file name, one change, timeouts of more than two ticks too long to fit, five ticks of a clock with
days of three; the repeating timer is over before the day is, and one single timer is so late that a sleep until its start would miss
the repeating one's next day. The clock advances at most once in a pass of the thread's loop, since a pass
takes less than a second; without that a sleep could be late by any amount. Deadlock is
not checked: the clock ends.

`NewTimersStartInTime` leaves out the timers in `missed`: their occurrence ended between the look at the list and
`StartRecording()`, so they were not recorded and the sleep may pass their next one (section 10); or nothing was left of the timeout. It leaves out
timers without a file name, which are not recorded at all. It is stated
of tables in which no timer is longer than a day: a longer one is sorted after its last start by a time that may be past, and the
time to sleep until it may come out as 0, which `CEvent::Wait()` takes for no timeout.

`TimerProofs` proves, for every length of day and week and any timers, `TypeCorrect`,
`SharedRecording`, `SavedAfterRequest` (between requests the file has the table's timers, unless the last write failed), `StopIsNotLost`, `NoOverlapIsAdded`
and `SleepEndsInTime`.
`NoOverlapIsAdded` rests on `ConflictsIsComplete`: `Conflicts()` tests only the starts of one timer against the
next occurrence of the other and finds every overlap all the same. `IndInv` adds
to the types: a recording a timer refers to exists (`LinkInv`), a waiting thread is counted
(`WaitInv`), no recording begins in the future (`RecordingInv`), the file lags the table
only during a request that is marked (`SavedInv`), and after `Stop()` the event stays signalled until the
thread has looked (`StopInv`).

`SleepEndsInTime` has an invariant of its own on top of that one, `TimelyInv`. A change of the table is announced by the request that made
it (`ChangedInv`), and the clock is at most one tick past the thread's look (`PassInv`). As long as nothing was changed, set or signalled since that
look, the thread's list has every timer that is active and named, neither recording nor in `missed`, and not expired, in the order of the next
occurrences (`ListInv`), and none of them begins while the thread sleeps (`SleepInv`). `PendingIsAhead` and
`HeadIsFirst` carry the arithmetic: a timer that did not trigger has its next occurrence in the future, and the head of the sorted list
bounds all others, although the clock may have ticked since the sort.

Left out: `LoadTimers()` and restarts, invalid updates, what a
recording needs of a tuner. A sort of the list during a concurrent setter is taken as atomic.

## 8. The time-shift buffer

`cVideoBufferRAM` guards its positions with a mutex and its data with a gap. The
writer is split at each `memcpy()` and each critical section (`Receive`, `CopyEnd`, `Wrap`, `Copy`,
`Publish`), the reader at its consumption and its block (`Consume`, `ReadBlock`), and a seek
into the positions it asks for, the steps it takes back from the end, and the positions it then sets (`SeekBegin`, `StepBack`,
`SeekTo`, `SeekEnd`; each sets the read pointer by `SetPos`). The first step back has no lower bound, so the read pointer may
become negative; what is read in front of the buffer is anything.
Bytes are numbered, and a packet begins where the number is 1 modulo its length (`PacketStart`). `SyncBytes` are the bytes that are 0x47: the
first of every packet, and any of the payload.

| Run | Shows |
|---|---|
| `time_shift` | what is unread is kept (`UnreadIsKept`); every position from `GetPosMin()` to `GetPosMax()` holds the bytes it stands for (`SeekableIsIntact`); a block away from the end has the bytes that follow where the reader is, and is a packet if the reader is at the beginning of one, whatever the payload looks like (`BlocksFollow`) |
| `time_shift_wrap` | (violation) a block at the end of the buffer has the wrong bytes |

Bounds: 19 bytes, packets of 2, so that a packet is split by the end every other time; 26 bytes go round
once and overwrite the first seven bytes. A step of 5 goes before the beginning as long as less is stored. Seven bytes of
payload look like sync bytes, alone and at a packet's distance from each other, so that a seek may settle on payload. A dropped packet changes nothing and
is no step. A seek may set a position that is negative, or that
was overwritten since it asked; `lost` records that, and the reader's properties are about positions that were kept when they were set.
Deadlock is checked: the reader can always poll.

`TimeshiftProofs` proves `TypeCorrect` (the reader is before the beginning by no more than the first step), `Unread`, `Seekable` and `BlocksAreNext`
for every size, packet, gap and step with `3 * Packet <= Gap`, `3 * Gap <= BufferSize` and `Step <= BufferSize`, which holds of `TS_SIZE`, `MARGIN`, the
1024 of `SeekTime()` and every setting, and for every set of payload bytes that look like sync bytes.
The core is `KeptInv`: all of the buffer but the places the packet in hand is to take holds the last
bytes stored, whatever the writer is doing. `WriterInv` says what is copied and not yet published,
`FullInv` that `m_BufferFull` is set before the oldest byte is in danger, `ReaderInv` how far
the reader is behind, if it was not lost, and `ConsumedInv` and `SeekInv` how far it can go astray if it was.
`BlocksAreNext`, the theorem for `BlocksFollow`, rests on `BlockInv`: the block ends where the reader goes on, and within the buffer.
`BlockIsNext` shows it of `ReadBlock()`. One of the first `Packet` bytes begins a packet (`NextStart`), so away from the end the search ends among
them and the block is not cut. At the beginning of a packet the search ends at its first byte; close to the end too, since
the bytes copied to the front come from two packets before and have their sync bytes at the same places, although the
data is wrong (`ByteFound`, `SamePhase`).

## 9. The common interface

The adapter's thread reads a TPDU or times out, and lets the slot process it; everything
runs under the slot's mutex, so one action is one turn of `cCiAdapter::Process()` (`Turn`, `Answer`,
`Stray`). The difficulty is the other side: the CAM may be pulled, restart by itself, be late or silent, or send a TPDU
nobody asked for, `MaxFaults` times. Time passes in poll timeouts (`Tick`), not before the thread has
taken a turn; a session counts down its wait before a QUERY and the longer one for the reply. The driver may refuse a reset, and may fail to tell
the module's status for a while (`Hide`, `Show`), which reads as no module while the CAM keeps its connections.

| Run | Shows |
|---|---|
| `cam_slot` | no connection is created with old sessions (`CreatedWithoutSessions`); conditional access stays ready once it is (`ReadyIsKept`); a CAM that stays is connected in the end, if no reset was refused (`Connected`); a pulled one is disconnected (`PulledIsDisconnected`); an idle connection is given up (`IdleIsGivenUp`); no query waits for ever (`QueryEnds`) |

Bounds: two connections, since a module that is not ready for a moment gets a second one; two
sessions and resources, one of which is the one with a timer; `AliveTicks` = 2 is the least that lets an
answered poll save a connection (in the code 2000 ms to polls of 300 ms); `QueryReplyTicks` = 2 is the same 2000 ms and `QueryWaitTicks` = 1 half of them; two faults, so that
one can hit the recovery from the other. The CAM opens sessions on its first
connection only. Several requests without an answer are the last one. A timer nobody reads is kept not
due. Fairness: the thread's turns and time; a CAM in the slot starts up, and it answers,
unless a fault is spent on it; a driver that fails to tell the status does not do so for ever. Deadlock is checked.

Not in the model, because nothing in the program calls it: `Assign()`, and with it the list of
programs, `SendCaPmt()` and decryption; `DeleteConnection()`, and with it the state `stDELETION`; menus and
enquiries. Date/time and MMI sessions have no state the slot depends on. `Ready()` counts only for what it does to the reset time.

`CamSlotProofs` proves the safety properties for any number of connections, sessions and faults, any timeout, and whatever the CAM sends:
`SlotTypesCorrect`, `NoSessionBeforeCreation` and `ReadyStays`, an action property. It assumes that the limits and timeouts are numbers and that `None` is neither a
session nor a connection. A turn is a composition of operators on records (a TPDU, then `Process()` of the connections and sessions, twice), so
the lemmas follow the calls: `ReceiveKeeps` and `ProcessKeeps` say what happens to a session, those after them to a connection and a slot.
`IndInv` adds to the types that a connection which is being created, or is asked to be, has no session (`TcInv`). `ReadyStays` needs that steps
compose (`KeepsOn`): a turn that closes a session and opens another in its place would otherwise pass for one that lost its readiness, and
`OpensNone` shows that what follows a TPDU opens none. The liveness is model-checked only.

## 10. Findings

The disagreements between the code and its own documentation are in
`PROJECT.json` under `findings`, each with a run that shows it: `receiver_detach`,
`tuner_concurrent_calls`, `timers_repeat` and `time_shift_wrap`.

The models show more of the kind, which have no run of their own:

- `DetachAllReceivers(true)` waits for ever if the receiver thread could not open the DVR and has ended: it
  does not test `IsRunning()` like the other calls (`DeviceReceiverSubsystem.cpp:505`).
- A section goes to every receiver of its PID, not only to those "holding this resource"
  (`DeviceReceiverSubsystem.cpp:279`), and twice to a receiver with two filters on the PID (`DispatchSection`).
- `DetachStreamingReceiver()` looks under the key (PID, table ID), but every resource
  is stored under (PID, 0xFF), so it detaches nothing (`ProcessDetachStreaming`).
- After a restart the receiver thread takes the table to be empty until the next
  change; `FlagMatchesTable` is limited to the first run.
- A `Tune()` that finds `m_tunerIdle` still set from before the previous request writes its own into the CANCEL
  state, where it is thrown away (`DVBTuner.cpp:474`); `RequestsAreTried` needs calls one at a time.
- The lock timeout of a transponder of unknown type is 0, meant as "don't wait", but
  the condition takes 0 as no timeout (`WaitedForLock`); `OrderlyCallsReturn` leaves such calls out.
- A scanner that is preempted after it registered and before it switched still
  switches the device, away from the recording (`DeviceChannelSubsystem.cpp:200`).
- Live TV is refused while a recording is active, on the same transponder too,
  because priorities are compared by the order of the enumeration (`CanTune`).
- In a device's second scan the SDT is taken up before the PMTs: nothing resets the
  PMT receiver's `m_scanned` (`SDT.cpp:113`; `GatedAfterPmt` is about the first).
- `DetachReceivers()` leaves `m_scanFinished` false with an empty waiting set, against
  `DeviceScanSubsystem.h:95`; `Attach()` opens every filter, whatever `SCAN_MAX_OPEN_FILTERS`; the assertion at
  `ScanReceiver.cpp:94` can fail when the handle is released while a section is in hand; the DVB EIT never
  reports completion, so `WaitForEPGScan()` ends with its timeout.
- With `Size = 2 * Margin` a ring buffer may never deliver; `Clear()` leaves the block lent.
- A repeating timer whose occurrence ends between the thread's look at the list and `StartRecording()` is passed over,
  and the thread sleeps until the next timer of the list, past the first one's next day (`TimerManager.cpp:88`; `missed`).
  A wait of 0 seconds is one without end (`mutex.h:367`).
- An update of a timer neither wakes the thread nor saves the table; a new timer that overlaps an inactive one is
  refused (`ConflictFree`), while `Timer.h:81-82` says that timers "may be disabled to allow the addition of conflicting
  timers"; a write of timers.xml that fails is not tried again until the next change; a timer without a file name that occurs makes the
  thread go round its loop without a wait; a timer removed while the thread has it in its list is still recorded; a wait on
  the event that times out leaves its count behind (`mutex.h:394`), so the event stays signalled.
- A seek in a buffer with less than 1024 bytes sets a negative read pointer (`Demuxer.cpp:283`), and after a seek to the middle of a packet
  payload may be handed out as packets, as long as bytes that look like sync bytes are a packet apart (`VideoBuffer.cpp:328`).
- A refused `CA_RESET` deletes the connections and leaves the last status at ready: no new one is made until the
  status changes (`CI.cpp:1745`). A CA info that is lost is not asked for again. After the CAM
  deleted a connection the slot still says `Ready()`, until the alive timer resets it.

## 11. Not modelled

- Contents of tables, events, channels and packets; codecs, remuxer and parsers; transponder
  parameters and DiSEqC; settings, XML and file access; sockets; third-party
  libraries, which are most of the repository's lines. They are sequential conversions of data, or I/O: there is no state
  for two actors to disagree about.
- Section reassembly (`cPsiBuffer`): used only for PSI receivers on a multiplexed PID, byte by byte in one thread.
- Tuner and receiver subsystem in one module: the CANCEL pass tells the observers and queues the
  detach-all in one critical section, and the tuner reads nothing of the receivers. What a late detach-all does
  to receivers attached by an overlapping call (`DVBTuner.cpp:845`) is the hazard a composition would be for.
- The life cycles of streamer, demuxer, server and observers, the file variant of the
  time-shift buffer, the recorder's files and index. They are the parts to take up next. The hazards of observers and of
  the owners' mutexes are listed without properties.

The map covers some 3,300 lines, in files of 15,000; `src/vdr` has 70,000 and the libraries beside it more.
The models are of the code in which threads, devices and clients meet; the bulk of the rest is the data code named above.

### Limits of runs and proofs

- The type invariants of the receiver subsystem, the tuner, the subscriptions, the ring buffer, the timers and the time-shift buffer, and `ChangesAppliedInOrder`, `WaiterSeesItsChange`,
  `ClearedTableStaysEmpty`, `ContentsInOrder`, `HeldIntact` and `TableOrdered`, are theorems and in no run.
- Every safety property of the passing runs has a theorem.
- Liveness is checked by TLC and not proved: TLAPS does not handle fairness and ENABLED here.
