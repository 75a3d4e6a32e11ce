----------------------------- MODULE TableScan -----------------------------
(***************************************************************************)
(* The scan of a transponder (cDeviceScanSubsystem, cScanReceiver, cPat,   *)
(* cPmt, cSectionSyncer).  The scanner attaches the table receivers to its *)
(* tuner handle and waits until all of them have completed; the receiver   *)
(* thread hands them sections, and the PAT adds PMT filters as it goes; the *)
(* tuner reports lock and loss of lock from its own thread.  A receiver has *)
(* one fixed filter, named like the receiver; the PMT receiver, which      *)
(* belongs to the PAT and is not one of m_receivers, has a filter per PID. *)
(* Each block under one mutex is an action.  Handles are numbered by scan. *)
(***************************************************************************)
EXTENDS Naturals, FiniteSets

CONSTANTS
  Pat, Pmt,          \* the two receivers that work together
  PlainTables,       \* receivers that complete with a section of their table (MGT)
  GatedTables,       \* receivers that first wait for the PMT scan (SDT, VCT)
  PmtPids,           \* PIDs a PAT may name
  PatContents,       \* the sets of PIDs a section of the PAT may name
  Versions,          \* versions of the tables
  LongTables,        \* receivers whose table has two sections; the others have one
  MaxOpenFilters,    \* SCAN_MAX_OPEN_FILTERS
  MaxScans,          \* bound on the number of scans
  MaxSignalChanges   \* bound on the number of times the lock is lost or found again

ASSUME CountAssumption ==
  {MaxOpenFilters, MaxScans, MaxSignalChanges} \subseteq Nat
ASSUME PatAssumption == PatContents \subseteq SUBSET PmtPids
ASSUME VersionAssumption == Versions \subseteq Nat \ {0}
ASSUME NameAssumption ==
  /\ Pat \notin PlainTables \cup GatedTables
  /\ Pmt \notin {Pat} \cup PlainTables \cup GatedTables
  /\ PlainTables \cap GatedTables = {}
  /\ PmtPids \cap ({Pat} \cup PlainTables \cup GatedTables) = {}

Receivers == {Pat} \cup PlainTables \cup GatedTables
AllReceivers == Receivers \cup {Pmt}
Filters == Receivers \cup PmtPids
Owner(f) == IF f \in PmtPids THEN Pmt ELSE f
NoHandle == 0
NoVersion == 0

VARIABLES
  sc,             \* the scanner: its place, the receivers left in a loop, the one in hand
  scan,           \* the number of the scan, which is also its tuner handle
  m_waitingForReceivers,
  m_scanFinished,
  m_locked,
  rcv,            \* per receiver: m_attached, m_handle, m_scanned
  filt,           \* per filter: m_state, m_attached and the two fields of its syncer
  filters,        \* the PMT filters that exist
  pmtList,        \* cPmt::m_filters, the PIDs the PAT has named
  opened,         \* filters the receiver subsystem delivers sections of
  detaching,      \* filters whose ChangeProcessed() is still to come
  rt,             \* the receiver thread and the section it has in hand
  notify,         \* Notify(): the message, the receivers left, the step
  signal,         \* whether the frontend has a lock
  announced,      \* whether the tuner thread reported that last
  changes,
  done            \* history: receivers that completed in this scan, since they were registered

scannerVars == <<sc, scan>>
waitVars == <<m_waitingForReceivers, m_scanFinished>>
filterVars == <<filt, filters, opened, detaching>>
tunerVars == <<notify, signal, announced, changes>>
vars == <<scannerVars, waitVars, m_locked, rcv, filterVars, pmtList, rt, tunerVars, done>>

FilterStates == {"WAITING", "OPEN", "DONE"}
NewFilter == [state |-> "WAITING", attached |-> FALSE, synced |-> FALSE, previous |-> NoVersion]
OpenFilter == [state |-> "OPEN", attached |-> TRUE, synced |-> FALSE, previous |-> NoVersion]
Idle == [at |-> "idle"]
Quiet == [msg |-> "none", todo |-> {}, step |-> "next"]

ScannerType ==
  [at : {"idle", "attach", "register", "waitlock", "waitscan", "waitepg", "detach", "clear", "lost", "sync"},
   todo : SUBSET Receivers, cur : Receivers]
ReceiverType == [attached : BOOLEAN, handle : 0..MaxScans, scanned : BOOLEAN]
FilterType ==
  [state : FilterStates, attached : BOOLEAN, synced : BOOLEAN, previous : Versions \cup {NoVersion}]
SectionType ==
  [at : {"gate", "sync", "assoc", "add", "synced", "filterscanned", "attachpmt", "unsynced", "flag",
         "tell", "aborted"},
   filter : Filters, todo : SUBSET PmtPids, haspmt : BOOLEAN, handle : 0..MaxScans, scan : 0..MaxScans]
NotifyType ==
  [msg : {"none", "lock", "lost"}, todo : SUBSET Receivers, step : {"next", "pmt", "list"}]

(* The type invariant of the scan, its receivers and the threads' places.   *)
TypeOK ==
  /\ sc \in ScannerType
  /\ scan \in 0..MaxScans
  /\ m_waitingForReceivers \subseteq Receivers
  /\ {m_scanFinished, m_locked, signal, announced} \subseteq BOOLEAN
  /\ rcv \in [AllReceivers -> ReceiverType]
  /\ filt \in [Filters -> FilterType]
  /\ filters \subseteq PmtPids
  /\ pmtList \subseteq PmtPids
  /\ opened \subseteq Filters
  /\ detaching \subseteq Receivers
  /\ rt \in SectionType \cup {Idle}
  /\ notify \in NotifyType
  /\ changes \in 0..MaxSignalChanges
  /\ done \subseteq AllReceivers

Init ==
  /\ sc = [at |-> "idle", todo |-> {}, cur |-> Pat]
  /\ scan = 0
  /\ m_waitingForReceivers = {}
  /\ m_scanFinished = TRUE
  /\ m_locked = FALSE
  /\ rcv = [r \in AllReceivers |-> [attached |-> FALSE, handle |-> NoHandle, scanned |-> FALSE]]
  /\ filt = [f \in Filters |-> NewFilter]
  /\ filters = {}
  /\ pmtList = {}
  /\ opened = {}
  /\ detaching = {}
  /\ rt = Idle
  /\ notify = Quiet
  /\ signal = FALSE
  /\ announced = FALSE
  /\ changes = 0
  /\ done = {}

-----------------------------------------------------------------------------
(* Filters and receivers.                                                   *)

(* cScanFilterStatus::Attach(), for every filter of a set that is not yet   *)
(* attached: the syncer starts afresh.                                      *)
AttachFilters(S) ==
  [f \in Filters |-> IF f \in S /\ ~filt[f].attached THEN OpenFilter ELSE filt[f]]

NbOpenPids == Cardinality({p \in filters : filt[p].attached})

(* The receiver thread holds the PAT's m_mutex while it reports the PAT.    *)
Holds(r) == r = Pat /\ rt.at \in {"flag", "tell"} /\ rt.filter = Pat

(* cScanReceiver::Attach(): an attached receiver is detached first.  The    *)
(* detached filter asks to be called back when the detach is processed.     *)
Attach(r, h) ==
  /\ ~Holds(r)
  /\ rcv' = [rcv EXCEPT ![r] = [attached |-> TRUE, handle |-> h, scanned |-> FALSE]]
  /\ filt' = [filt EXCEPT ![r] = OpenFilter]
  /\ detaching' = IF rcv[r].attached /\ filt[r].attached THEN detaching \cup {r} ELSE detaching
  /\ opened' = opened \cup {r}
  /\ UNCHANGED <<filters, pmtList>>

(* Mutant: m_handle is not reset. *)
DetachToKeepsHandle(r, receivers) ==
  IF rcv[r].attached
    THEN /\ rcv' = [receivers EXCEPT ![r].attached = FALSE]
         /\ filt' = [filt EXCEPT ![r].attached = FALSE]
         /\ detaching' = IF filt[r].attached THEN detaching \cup {r} ELSE detaching
    ELSE /\ rcv' = receivers
         /\ UNCHANGED <<filt, detaching>>

(* cScanReceiver::Detach() of a receiver with a fixed filter.  The filter   *)
(* keeps its state; the receiver subsystem goes on delivering, as it looks  *)
(* for the filter under a key it did not store it with.                     *)
DetachTo(r, receivers) ==
  IF rcv[r].attached
    THEN /\ rcv' = [receivers EXCEPT ![r].attached = FALSE, ![r].handle = NoHandle]
         /\ filt' = [filt EXCEPT ![r].attached = FALSE]
         /\ detaching' = IF filt[r].attached THEN detaching \cup {r} ELSE detaching
    ELSE /\ rcv' = receivers
         /\ UNCHANGED <<filt, detaching>>

Detach(r) ==
  /\ ~Holds(r)
  /\ DetachTo(r, rcv)
  /\ UNCHANGED <<filters, opened, pmtList>>

(* The PMT receiver: all of its filters are dynamic, and removed with it.   *)
RemoveFilters ==
  /\ filters' = {}
  /\ filt' = [f \in Filters |-> IF f \in PmtPids THEN NewFilter ELSE filt[f]]

(* cScanReceiver::Attach() of the PMT receiver.  If it was attached before, *)
(* its filters are gone and there is nothing to attach.                     *)
AttachPmtReceiver(h) ==
  CASE rcv[Pmt].attached /\ rcv[Pmt].handle # NoHandle ->
         /\ RemoveFilters
         /\ rcv' = [rcv EXCEPT ![Pmt] = [attached |-> TRUE, handle |-> h, scanned |-> FALSE]]
         /\ UNCHANGED opened
    [] rcv[Pmt].attached /\ rcv[Pmt].handle = NoHandle ->
         /\ rcv' = [rcv EXCEPT ![Pmt].handle = h]
         /\ UNCHANGED <<filters, filt, opened>>
    [] OTHER ->
         /\ filt' = AttachFilters(filters)
         /\ opened' = opened \cup filters
         /\ rcv' = [rcv EXCEPT ![Pmt] = [attached |-> TRUE, handle |-> h, scanned |-> FALSE]]
         /\ UNCHANGED filters

-----------------------------------------------------------------------------
(* The scanner: Process(), LockAcquired() and LockLost() of cScanner with   *)
(* the calls they make.  Acquire() has tuned to the transponder, after      *)
(* SwitchChannel() detached every receiver of the device; the tuner's       *)
(* thread reports the lock in its own time.                                 *)

BeginScan ==
  /\ sc.at = "idle"
  /\ scan < MaxScans
  /\ scan' = scan + 1
  /\ sc' = [sc EXCEPT !.at = "attach", !.todo = Receivers]
  /\ signal' = TRUE
  /\ UNCHANGED <<waitVars, m_locked, rcv, filterVars, pmtList, rt, notify, announced, changes, done>>

(* AttachReceivers(): each receiver is attached, then entered into the      *)
(* waiting set.                                                             *)
AttachReceiver(r) ==
  /\ sc.at = "attach"
  /\ r \in sc.todo
  /\ Attach(r, scan)
  /\ sc' = [sc EXCEPT !.at = "register", !.cur = r]
  /\ UNCHANGED <<scan, waitVars, m_locked, rt, tunerVars, done>>

Register ==
  /\ sc.at = "register"
  /\ m_scanFinished' = FALSE
  /\ m_waitingForReceivers' = m_waitingForReceivers \cup {sc.cur}
  /\ sc' = [sc EXCEPT !.todo = @ \ {sc.cur},
                      !.at = IF sc.todo = {sc.cur} THEN "waitlock" ELSE "attach"]
  /\ done' = done \ {sc.cur}
  /\ UNCHANGED <<scan, m_locked, rcv, filterVars, pmtList, rt, tunerVars>>

(* Both waits end when their flag is set or at their timeout.               *)
WaitForLock ==
  /\ sc.at = "waitlock"
  /\ \/ m_locked /\ sc' = [sc EXCEPT !.at = "waitscan"]
     \/ sc' = [sc EXCEPT !.at = "detach", !.todo = Receivers]
  /\ UNCHANGED <<scan, waitVars, m_locked, rcv, filterVars, pmtList, rt, tunerVars, done>>

WaitForTransponderScan ==
  /\ sc.at = "waitscan"
  /\ \/ m_scanFinished /\ sc' = [sc EXCEPT !.at = "waitepg"]
     \/ sc' = [sc EXCEPT !.at = "detach", !.todo = Receivers]
  /\ UNCHANGED <<scan, waitVars, m_locked, rcv, filterVars, pmtList, rt, tunerVars, done>>

(* Whatever comes of it, the handle is released next.                       *)
WaitForEPGScan ==
  /\ sc.at = "waitepg"
  /\ sc' = [sc EXCEPT !.at = "detach", !.todo = Receivers]
  /\ UNCHANGED <<scan, waitVars, m_locked, rcv, filterVars, pmtList, rt, tunerVars, done>>

(* Release() calls LockLost(), which calls DetachReceivers(), ...           *)
DetachReceiver(r) ==
  /\ sc.at = "detach"
  /\ r \in sc.todo
  /\ Detach(r)
  /\ sc' = [sc EXCEPT !.todo = @ \ {r}, !.at = IF sc.todo = {r} THEN "clear" ELSE "detach"]
  /\ UNCHANGED <<scan, waitVars, m_locked, rt, tunerVars, done>>

DetachReceivers ==
  /\ sc.at = "clear"
  /\ m_scanFinished' = (m_waitingForReceivers = {})
  /\ m_waitingForReceivers' = {}
  /\ sc' = [sc EXCEPT !.at = "lost"]
  /\ UNCHANGED <<scan, m_locked, rcv, filterVars, pmtList, rt, tunerVars, done>>

(* ... then clears the transponder, which waits for the tuner's thread and  *)
(* reports the loss of the lock, ...                                        *)
ClearChannel ==
  /\ sc.at = "lost"
  /\ notify = Quiet
  /\ notify' = [msg |-> "lost", todo |-> Receivers, step |-> "next"]
  /\ signal' = FALSE
  /\ announced' = FALSE
  /\ sc' = [sc EXCEPT !.at = "sync"]
  /\ UNCHANGED <<scan, waitVars, m_locked, rcv, filterVars, pmtList, rt, changes, done>>

(* Mutant: SyncPids() does not wait for the section in hand. *)
SyncPidsNoWait ==
  /\ sc.at = "sync"
  /\ notify = Quiet
  /\ detaching = {}
  /\ opened' = {}
  /\ sc' = [sc EXCEPT !.at = "idle"]
  /\ done' = {}
  /\ UNCHANGED <<scan, waitVars, m_locked, rcv, filt, filters, detaching, pmtList, rt, tunerVars>>

(* ... and detaches what is left in the receiver subsystem and waits until  *)
(* the receiver thread has done so: SyncPids().                             *)
SyncPids ==
  /\ sc.at = "sync"
  /\ notify = Quiet
  /\ rt = Idle
  /\ detaching = {}
  /\ opened' = {}
  /\ sc' = [sc EXCEPT !.at = "idle"]
  /\ done' = {}
  /\ UNCHANGED <<scan, waitVars, m_locked, rcv, filt, filters, detaching, pmtList, rt, tunerVars>>

-----------------------------------------------------------------------------
(* Lock and loss of lock: Notify() and what it calls, on the tuner's thread *)
(* or, from ClearChannel(), on the scanner's; never on both at once.        *)

(* The frontend loses its lock while it is tuned, or finds it again.        *)
SignalChange ==
  /\ sc.at \notin {"idle", "sync"}
  /\ changes < MaxSignalChanges
  /\ changes' = changes + 1
  /\ signal' = ~signal
  /\ UNCHANGED <<scannerVars, waitVars, m_locked, rcv, filterVars, pmtList, rt, notify, announced, done>>

NotifyBegin ==
  /\ notify = Quiet
  /\ signal # announced
  /\ sc.at \notin {"idle", "sync"}
  /\ announced' = signal
  /\ notify' = [msg |-> IF signal THEN "lock" ELSE "lost", todo |-> Receivers, step |-> "next"]
  /\ UNCHANGED <<scannerVars, waitVars, m_locked, rcv, filterVars, pmtList, rt, signal, changes, done>>

LockAcquired(r) ==
  /\ notify.msg = "lock"
  /\ r \in notify.todo
  /\ ~Holds(r)
  /\ rcv' = [rcv EXCEPT ![r].scanned = FALSE]
  /\ notify' = [notify EXCEPT !.todo = @ \ {r}]
  /\ UNCHANGED <<scannerVars, waitVars, m_locked, filterVars, pmtList, rt, signal, announced, changes, done>>

(* The PAT's LockLost() goes on to detach the PMT receiver and to clear its *)
(* list of PIDs, each in a step of its own.                                 *)
LockLost(r) ==
  /\ notify.msg = "lost"
  /\ notify.step = "next"
  /\ r \in notify.todo
  /\ ~Holds(r)
  /\ DetachTo(r, [rcv EXCEPT ![r].scanned = FALSE])
  /\ notify' = [notify EXCEPT !.todo = @ \ {r}, !.step = IF r = Pat THEN "pmt" ELSE "next"]
  /\ UNCHANGED <<scannerVars, waitVars, m_locked, filters, opened, pmtList, rt, signal, announced, changes, done>>

PmtDetach ==
  /\ notify.step = "pmt"
  /\ IF rcv[Pmt].attached
       THEN /\ rcv' = [rcv EXCEPT ![Pmt].attached = FALSE, ![Pmt].handle = NoHandle]
            /\ RemoveFilters
       ELSE UNCHANGED <<rcv, filt, filters>>
  /\ notify' = [notify EXCEPT !.step = "list"]
  /\ UNCHANGED <<scannerVars, waitVars, m_locked, opened, detaching, pmtList, rt, signal, announced, changes, done>>

PmtClear ==
  /\ notify.step = "list"
  /\ pmtList' = {}
  /\ notify' = [notify EXCEPT !.step = "next"]
  /\ UNCHANGED <<scannerVars, waitVars, m_locked, rcv, filterVars, rt, signal, announced, changes, done>>

NotifyEnd ==
  /\ notify.msg # "none"
  /\ notify.todo = {}
  /\ notify.step = "next"
  /\ m_locked' = (notify.msg = "lock")
  /\ notify' = Quiet
  /\ UNCHANGED <<scannerVars, waitVars, rcv, filterVars, pmtList, rt, signal, announced, changes, done>>

-----------------------------------------------------------------------------
(* The receiver thread.                                                     *)

Goto(where) == rt' = [rt EXCEPT !.at = where]
Return == rt' = Idle
threadFrame == <<scannerVars, m_locked, tunerVars>>

(* Receive(): a section of an opened filter is taken up if the receiver is  *)
(* attached at this moment.  What is in it is chosen where it is looked at. *)
Receive(f) ==
  /\ rt = Idle
  /\ f \in opened
  /\ rcv[Owner(f)].attached
  /\ rt' = [at |-> IF f \in GatedTables THEN "gate" ELSE "sync", filter |-> f, todo |-> {},
             haspmt |-> FALSE, handle |-> NoHandle, scan |-> scan]
  /\ UNCHANGED <<threadFrame, waitVars, rcv, filterVars, pmtList, done>>

ChangeProcessed(f) ==
  /\ rt = Idle
  /\ f \in detaching
  /\ detaching' = detaching \ {f}
  /\ filt' = [filt EXCEPT ![f].synced = FALSE, ![f].previous = NoVersion]
  /\ UNCHANGED <<threadFrame, waitVars, rcv, filters, opened, pmtList, rt, done>>

(* Mutant: the gate is open. *)
PmtScannedAlways ==
  /\ rt.at = "gate"
  /\ Goto("sync")
  /\ UNCHANGED <<threadFrame, waitVars, rcv, filterVars, pmtList, done>>

(* "wait for the PMT scan to complete first"                                *)
PmtScanned ==
  /\ rt.at = "gate"
  /\ IF rcv[Pmt].scanned THEN Goto("sync") ELSE Return
  /\ UNCHANGED <<threadFrame, waitVars, rcv, filterVars, pmtList, done>>

NextAssociation(todo) == IF todo = {} THEN "synced" ELSE "assoc"
LastSection(f) == IF f \in LongTables THEN 1 ELSE 0
Exists(f) == f \in Receivers \cup filters

(* cSectionSyncer::Sync(): the first section starts a table, the last one   *)
(* records its version, and further sections of that version are refused.   *)
Sync(version, number) ==
  /\ rt.at = "sync"
  /\ number <= LastSection(rt.filter)
  /\ LET f == rt.filter
         accepted == /\ Exists(f)
                     /\ filt[f].previous # version
                     /\ filt[f].synced \/ number = 0
     IN IF accepted
          THEN /\ filt' = [filt EXCEPT ![f].synced = TRUE,
                             ![f].previous = IF number = LastSection(f) THEN version ELSE @]
               /\ IF f = Pat
                    THEN \E assoc \in PatContents :
                           rt' = [rt EXCEPT !.at = NextAssociation(assoc), !.todo = assoc, !.haspmt = assoc # {}]
                    ELSE Goto(IF f \in PmtPids THEN "synced" ELSE "flag")
          ELSE UNCHANGED filt /\ Return
  /\ UNCHANGED <<threadFrame, waitVars, rcv, filters, opened, detaching, pmtList, done>>

(* cPat::ReceivePacket(): for each PID the handle is read, without the      *)
(* mutex, and passed to AddTransport().                                     *)
ReadHandle(p) ==
  /\ rt.at = "assoc"
  /\ p \in rt.todo
  /\ rt' = [rt EXCEPT !.at = "add", !.handle = rcv[Pat].handle]
  /\ UNCHANGED <<threadFrame, waitVars, rcv, filterVars, pmtList, done>>

(* AddTransport() and AddFilter(), under the PMT receiver's mutex.          *)
AddTransport(p) ==
  /\ rt.at = "add"
  /\ p \in rt.todo
  /\ rt' = [rt EXCEPT !.at = NextAssociation(rt.todo \ {p}), !.todo = @ \ {p}]
  /\ IF p \in pmtList
       THEN UNCHANGED <<rcv, filterVars, pmtList>>
       ELSE /\ pmtList' = pmtList \cup {p}
            /\ rcv' = [rcv EXCEPT ![Pmt].scanned = FALSE, ![Pmt].handle = rt.handle]
            /\ IF rt.handle # NoHandle /\ p \notin filters
                 THEN /\ filters' = filters \cup {p}
                      /\ IF NbOpenPids < MaxOpenFilters
                           THEN filt' = [filt EXCEPT ![p] = OpenFilter] /\ opened' = opened \cup {p}
                           ELSE UNCHANGED <<filt, opened>>
                 ELSE UNCHANGED <<filt, filters, opened>>
            /\ UNCHANGED detaching
  /\ UNCHANGED <<threadFrame, waitVars, done>>

IsSynced(f) == Exists(f) /\ (filt[f].state = "DONE" \/ filt[f].synced)

Synced ==
  /\ rt.at = "synced"
  /\ Goto(IF IsSynced(rt.filter) THEN "filterscanned"
          ELSE IF rt.filter = Pat THEN "attachpmt" ELSE "unsynced")
  /\ UNCHANGED <<threadFrame, waitVars, rcv, filterVars, pmtList, done>>

(* Mutant: a dynamic filter, which is deleted later, asks for the callback too. *)
FilterScannedCallback ==
  /\ rt.at = "filterscanned"
  /\ LET f == rt.filter
         r == Owner(f)
         scanned == IF Exists(f) THEN [filt EXCEPT ![f].attached = FALSE, ![f].state = "DONE"] ELSE filt
         mine == IF f = Pat THEN {Pat} ELSE filters
         active == {g \in mine : scanned[g].state = "OPEN"}
         waiting == {g \in mine : scanned[g].state = "WAITING"}
         next == IF f = Pat THEN "attachpmt" ELSE "unsynced"
     IN /\ detaching' = IF filt[f].attached THEN detaching \cup {f} ELSE detaching
        /\ IF waiting # {} /\ Cardinality(active) < MaxOpenFilters
             THEN \E g \in waiting :
                    IF rcv[r].handle = NoHandle
                      THEN Goto("aborted") /\ filt' = scanned /\ UNCHANGED opened
                      ELSE /\ filt' = [scanned EXCEPT ![g] = OpenFilter]
                           /\ opened' = opened \cup {g}
                           /\ Goto(next)
             ELSE filt' = scanned /\ Goto(next) /\ UNCHANGED opened
  /\ UNCHANGED <<threadFrame, waitVars, rcv, filters, pmtList, done>>

(* FilterScanned(): the filter is detached, and a waiting filter of the     *)
(* same receiver takes its place.  Without a handle Attach() asserts.       *)
FilterScanned ==
  /\ rt.at = "filterscanned"
  /\ LET f == rt.filter
         r == Owner(f)
         scanned == IF Exists(f) THEN [filt EXCEPT ![f].attached = FALSE, ![f].state = "DONE"] ELSE filt
         mine == IF f = Pat THEN {Pat} ELSE filters
         active == {g \in mine : scanned[g].state = "OPEN"}
         waiting == {g \in mine : scanned[g].state = "WAITING"}
         next == IF f = Pat THEN "attachpmt" ELSE "unsynced"
     IN /\ detaching' = IF f = Pat /\ filt[f].attached THEN detaching \cup {f} ELSE detaching
        /\ IF waiting # {} /\ Cardinality(active) < MaxOpenFilters
             THEN \E g \in waiting :
                    IF rcv[r].handle = NoHandle
                      THEN Goto("aborted") /\ filt' = scanned /\ UNCHANGED opened
                      ELSE /\ filt' = [scanned EXCEPT ![g] = OpenFilter]
                           /\ opened' = opened \cup {g}
                           /\ Goto(next)
             ELSE filt' = scanned /\ Goto(next) /\ UNCHANGED opened
  /\ UNCHANGED <<threadFrame, waitVars, rcv, filters, pmtList, done>>

(* The end of cPat::ReceivePacket(), which holds the PAT's mutex until the  *)
(* completion has been reported.                                            *)
AttachPmt ==
  /\ rt.at = "attachpmt"
  /\ IF rt.haspmt
       THEN /\ IF rcv[Pat].handle # NoHandle
                 THEN AttachPmtReceiver(rcv[Pat].handle)
                 ELSE UNCHANGED <<rcv, filt, filters, opened>>
            /\ Goto("flag")
       ELSE Return /\ UNCHANGED <<rcv, filt, filters, opened>>
  /\ UNCHANGED <<threadFrame, waitVars, detaching, pmtList, done>>

HasUnsyncedPids ==
  /\ rt.at = "unsynced"
  /\ IF \E p \in pmtList : ~IsSynced(p) THEN Return ELSE Goto("flag")
  /\ UNCHANGED <<threadFrame, waitVars, rcv, filterVars, pmtList, done>>

(* cScanReceiver::SetScanned(), first the receiver's flag, then the         *)
(* subsystem's set.                                                         *)
SetScannedFlag ==
  /\ rt.at = "flag"
  /\ rcv' = [rcv EXCEPT ![Owner(rt.filter)].scanned = TRUE]
  /\ Goto("tell")
  /\ UNCHANGED <<threadFrame, waitVars, filterVars, pmtList, done>>

(* Mutant: the first completion finishes the scan. *)
SetScannedAtOnce ==
  /\ rt.at = "tell"
  /\ LET r == Owner(rt.filter)
         left == m_waitingForReceivers \ {r}
     IN /\ m_waitingForReceivers' = left
        /\ m_scanFinished' = (r \in m_waitingForReceivers \/ m_scanFinished)
        /\ done' = done \cup {r}
  /\ Return
  /\ UNCHANGED <<threadFrame, rcv, filterVars, pmtList>>

SetScanned ==
  /\ rt.at = "tell"
  /\ LET r == Owner(rt.filter)
         left == m_waitingForReceivers \ {r}
     IN /\ m_waitingForReceivers' = left
        /\ m_scanFinished' = IF r \in m_waitingForReceivers THEN left = {} ELSE m_scanFinished
        /\ done' = done \cup {r}
  /\ Return
  /\ UNCHANGED <<threadFrame, rcv, filterVars, pmtList>>

-----------------------------------------------------------------------------
Scanner ==
  \/ BeginScan \/ Register \/ WaitForLock \/ WaitForTransponderScan \/ WaitForEPGScan
  \/ DetachReceivers \/ ClearChannel \/ SyncPids
  \/ \E r \in Receivers : AttachReceiver(r) \/ DetachReceiver(r)

Notification ==
  \/ \E r \in Receivers : LockAcquired(r) \/ LockLost(r)
  \/ PmtDetach \/ PmtClear \/ NotifyEnd

ReceivePacket ==
  \/ PmtScanned \/ Synced \/ FilterScanned \/ AttachPmt
  \/ HasUnsyncedPids \/ SetScannedFlag \/ SetScanned
  \/ \E v \in Versions, n \in 0..1 : Sync(v, n)
  \/ \E p \in PmtPids : ReadHandle(p) \/ AddTransport(p)

Next ==
  \/ Scanner
  \/ SignalChange \/ NotifyBegin
  \/ Notification
  \/ \E f \in Filters : Receive(f)
  \/ \E f \in Receivers : ChangeProcessed(f)
  \/ ReceivePacket

Spec == Init /\ [][Next]_vars

-----------------------------------------------------------------------------
(* Properties.                                                              *)

(* WaitForTransponderScan() succeeds only if every receiver it registered   *)
(* has completed since; a completion that overtook its own registration, or *)
(* one that came before a loss of the lock, never stands in for another.    *)
SuccessMeansScanned == sc.at = "waitepg" => Receivers \subseteq done

(* A section taken up in an earlier scan never completes a receiver of this *)
(* one: Release() waits in SyncPids() until the receiver thread is done.    *)
CompletionsAreCurrent ==
  rt.at = "tell" /\ Owner(rt.filter) \in m_waitingForReceivers => rt.scan = scan

(* Once Release() has returned no receiver of the scan holds the tuner      *)
(* handle, no filter of theirs is attached, and the lock is forgotten,      *)
(* whatever the tuner's notifications and the receiver thread were doing.   *)
ReleasedIsDetached ==
  sc.at = "idle" =>
    /\ ~m_locked
    /\ \A r \in Receivers : ~rcv[r].attached /\ rcv[r].handle = NoHandle /\ ~filt[r].attached

(* "wait for the PMT scan to complete first" (cSdt, cPsipVct, cPsipEit): a  *)
(* section of these tables is taken up only after the PMT scan has          *)
(* completed.  In later scans the PMT receiver's m_scanned may still be set *)
(* from the one before, so this is about a device's first scan.             *)
GatedAfterPmt == [][rt.at = "gate" /\ rt'.at = "sync" /\ scan = 1 => Pmt \in done]_vars
=============================================================================
