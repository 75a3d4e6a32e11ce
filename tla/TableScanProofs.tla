-------------------------- MODULE TableScanProofs --------------------------
(***************************************************************************)
(* What holds of the scan of a transponder for any set of tables, PIDs and *)
(* versions and any number of scans and signal changes.                    *)
(***************************************************************************)
EXTENDS TableScan, TLAPS

(* TypeOK in four parts: the scanner with what it waits for, the receivers, *)
(* the filters, and the two threads that call back.                         *)
ScanTypes ==
  /\ sc \in ScannerType
  /\ scan \in 0..MaxScans
  /\ m_waitingForReceivers \subseteq Receivers
  /\ m_scanFinished \in BOOLEAN
  /\ done \subseteq AllReceivers

FilterTypes ==
  /\ filt \in [Filters -> FilterType]
  /\ filters \subseteq PmtPids
  /\ pmtList \subseteq PmtPids
  /\ opened \subseteq Filters
  /\ detaching \subseteq Receivers

ReceiverTypes ==
  /\ rcv \in [AllReceivers -> ReceiverType]
  /\ rt \in SectionType \cup {Idle}

TunerTypes ==
  /\ notify \in NotifyType
  /\ m_locked \in BOOLEAN
  /\ signal \in BOOLEAN
  /\ announced \in BOOLEAN
  /\ changes \in 0..MaxSignalChanges

(* A receiver that is registered is waited for until it has completed, and  *)
(* the scan is finished only when nothing is waited for.                    *)
WaitInv ==
  /\ m_scanFinished => m_waitingForReceivers = {}
  /\ sc.at \in {"attach", "register"} => Receivers \ sc.todo \subseteq m_waitingForReceivers \cup done
  /\ sc.at = "register" => sc.cur \in sc.todo
  /\ sc.at \in {"waitlock", "waitscan"} => Receivers \subseteq m_waitingForReceivers \cup done
  /\ SuccessMeansScanned

(* Between two scans the receiver thread and the notifications are at rest, *)
(* and the section in hand is always one of this scan.                      *)
CurrentInv ==
  /\ sc.at = "idle" => rt = Idle /\ opened = {}
  /\ rt # Idle => rt.scan = scan

(* A loss of the lock is the last the tuner reports of a scan.              *)
LockInv ==
  /\ sc.at = "idle" => notify = Quiet /\ ~m_locked
  /\ sc.at = "sync" => notify.msg = "lost" \/ (notify = Quiet /\ ~m_locked)

(* What is not attached has no handle, and Release() detaches all.          *)
DetachInv ==
  /\ \A r \in Receivers : ~rcv[r].attached => rcv[r].handle = NoHandle /\ ~filt[r].attached
  /\ sc.at = "detach" => \A r \in Receivers \ sc.todo : ~rcv[r].attached
  /\ sc.at \in {"clear", "lost", "sync", "idle"} => \A r \in Receivers : ~rcv[r].attached

(* In the first scan the PMT receiver's flag comes with a completion.       *)
GateInv ==
  /\ scan = 0 => sc.at = "idle" /\ ~rcv[Pmt].scanned
  /\ scan = 1 /\ sc.at # "idle" /\ rcv[Pmt].scanned =>
       Pmt \in done \/ (rt.at = "tell" /\ rt.filter \in PmtPids)

IndInv == ScanTypes /\ ReceiverTypes /\ FilterTypes /\ TunerTypes
          /\ WaitInv /\ CurrentInv /\ LockInv /\ DetachInv /\ GateInv

LEMMA NewFiltersAreFilters ==
  OpenFilter \in FilterType /\ NewFilter \in FilterType
BY DEF OpenFilter, NewFilter, FilterType, FilterStates

LEMMA NoHandleInRange ==
  NoHandle \in 0..MaxScans
BY CountAssumption DEF NoHandle

LEMMA TypeParts ==
  TypeOK <=> ScanTypes /\ ReceiverTypes /\ FilterTypes /\ TunerTypes
BY DEF TypeOK, ScanTypes, ReceiverTypes, FilterTypes, TunerTypes

LEMMA InitInd ==
  Init => IndInv
<1> SUFFICES ASSUME Init
             PROVE  IndInv
  OBVIOUS
<1>1. ScanTypes /\ WaitInv
  BY CountAssumption DEF Init, ScanTypes, ScannerType, WaitInv, SuccessMeansScanned, Receivers
<1>2. FilterTypes
  BY NewFiltersAreFilters DEF Init, FilterTypes
<1>3. ReceiverTypes /\ CurrentInv
  BY NoHandleInRange DEF Init, ReceiverTypes, ReceiverType, CurrentInv
<1>4. TunerTypes /\ LockInv
  <2>1. Quiet \in NotifyType
    BY DEF Quiet, NotifyType
  <2>2. 0 \in 0..MaxSignalChanges
    BY CountAssumption
  <2> QED
    BY <2>1, <2>2 DEF Init, TunerTypes, LockInv
<1>5. DetachInv /\ GateInv
  BY DEF Init, DetachInv, GateInv, AllReceivers, Filters, NewFilter
<1> QED
  BY <1>1, <1>2, <1>3, <1>4, <1>5 DEF IndInv

-----------------------------------------------------------------------------
(* The scanner.                                                             *)

LEMMA BeginScanInd ==
  ASSUME IndInv, BeginScan
  PROVE  IndInv'
<1>1. /\ sc.at = "idle" /\ scan < MaxScans /\ scan' = scan + 1 /\ sc \in ScannerType
      /\ scan \in 0..MaxScans /\ MaxScans \in Nat /\ rt = Idle
      /\ sc' = [sc EXCEPT !.at = "attach", !.todo = Receivers]
      /\ UNCHANGED <<waitVars, m_locked, rcv, filterVars, pmtList, rt, notify, announced, changes, done>>
  BY CountAssumption DEF IndInv, ScanTypes, CurrentInv, BeginScan
<1>2. sc' \in ScannerType /\ sc'.at = "attach" /\ sc'.todo = Receivers
  BY <1>1 DEF ScannerType
<1>3. scan' \in 0..MaxScans /\ scan' # 0
  BY <1>1
<1>4. ScanTypes' /\ WaitInv'
  BY <1>1, <1>2, <1>3 DEF IndInv, ScanTypes, WaitInv, SuccessMeansScanned, waitVars
<1>5. FilterTypes' /\ ReceiverTypes'
  BY <1>1 DEF IndInv, FilterTypes, ReceiverTypes, filterVars
<1>6. TunerTypes'
  BY <1>1 DEF IndInv, TunerTypes, BeginScan
<1>7. CurrentInv' /\ LockInv' /\ DetachInv'
  BY <1>1, <1>2 DEF IndInv, CurrentInv, LockInv, DetachInv, filterVars
<1>8. GateInv'
  BY <1>1, <1>3 DEF IndInv, GateInv
<1> QED
  BY <1>4, <1>5, <1>6, <1>7, <1>8 DEF IndInv

LEMMA AttachReceiverInd ==
  ASSUME IndInv, NEW r \in Receivers, AttachReceiver(r)
  PROVE  IndInv'
<1>1. /\ sc.at = "attach" /\ r \in sc.todo /\ sc \in ScannerType /\ scan \in 0..MaxScans
      /\ rcv' = [rcv EXCEPT ![r] = [attached |-> TRUE, handle |-> scan, scanned |-> FALSE]]
      /\ filt' = [filt EXCEPT ![r] = OpenFilter]
      /\ detaching' \in {detaching, detaching \cup {r}}
      /\ opened' = opened \cup {r}
      /\ sc' = [sc EXCEPT !.at = "register", !.cur = r]
      /\ UNCHANGED <<filters, pmtList, scan, waitVars, m_locked, rt, tunerVars, done>>
  BY DEF AttachReceiver, Attach, IndInv, ScanTypes
<1>2. sc' \in ScannerType /\ sc'.at = "register" /\ sc'.todo = sc.todo /\ sc'.cur = r
  BY <1>1 DEF ScannerType
<1>3. /\ rcv' \in [AllReceivers -> ReceiverType] /\ rcv'[r].attached /\ rcv'[Pmt] = rcv[Pmt]
      /\ \A s \in Receivers : s # r => rcv'[s] = rcv[s] /\ filt'[s] = filt[s]
  BY <1>1, NameAssumption DEF IndInv, ReceiverTypes, ReceiverType, FilterTypes, AllReceivers, Receivers, Filters
<1>4. ScanTypes' /\ WaitInv'
  BY <1>1, <1>2 DEF IndInv, ScanTypes, WaitInv, SuccessMeansScanned, waitVars
<1>5. FilterTypes'
  BY <1>1, NewFiltersAreFilters DEF IndInv, FilterTypes, Filters
<1>6. ReceiverTypes' /\ CurrentInv' /\ GateInv'
  BY <1>1, <1>2, <1>3 DEF IndInv, ReceiverTypes, CurrentInv, GateInv
<1>7. TunerTypes' /\ LockInv'
  BY <1>1, <1>2 DEF IndInv, TunerTypes, LockInv, tunerVars
<1>8. DetachInv'
  BY <1>2, <1>3 DEF IndInv, DetachInv
<1> QED
  BY <1>4, <1>5, <1>6, <1>7, <1>8 DEF IndInv

LEMMA RegisterInd ==
  ASSUME IndInv, Register
  PROVE  IndInv'
<1>1. /\ sc.at = "register" /\ sc \in ScannerType /\ ~m_scanFinished'
      /\ m_waitingForReceivers' = m_waitingForReceivers \cup {sc.cur}
      /\ sc' = [sc EXCEPT !.todo = @ \ {sc.cur}, !.at = IF sc.todo = {sc.cur} THEN "waitlock" ELSE "attach"]
      /\ done' = done \ {sc.cur}
      /\ UNCHANGED <<scan, m_locked, rcv, filterVars, pmtList, rt, tunerVars>>
  BY DEF Register, IndInv, ScanTypes
<1>2. /\ sc' \in ScannerType /\ sc'.at = (IF sc.todo = {sc.cur} THEN "waitlock" ELSE "attach")
      /\ sc'.todo = sc.todo \ {sc.cur} /\ sc.cur \in Receivers /\ sc.todo \subseteq Receivers
  BY <1>1 DEF ScannerType
<1>3. ScanTypes'
  BY <1>1, <1>2 DEF IndInv, ScanTypes, Register
<1>4. WaitInv'
  BY <1>1, <1>2 DEF IndInv, WaitInv, SuccessMeansScanned
<1>5. GateInv'
  BY <1>1, <1>2, NameAssumption DEF IndInv, GateInv, Receivers
<1>6. FilterTypes' /\ ReceiverTypes' /\ CurrentInv' /\ DetachInv'
  BY <1>1, <1>2 DEF IndInv, FilterTypes, ReceiverTypes, CurrentInv, DetachInv, filterVars
<1>7. TunerTypes' /\ LockInv'
  BY <1>1, <1>2 DEF IndInv, TunerTypes, LockInv, tunerVars
<1> QED
  BY <1>3, <1>4, <1>5, <1>6, <1>7 DEF IndInv

LEMMA WaitInd ==
  ASSUME IndInv, WaitForLock \/ WaitForTransponderScan \/ WaitForEPGScan
  PROVE  IndInv'
<1>1. /\ sc.at \in {"waitlock", "waitscan", "waitepg"} /\ sc \in ScannerType
      /\ UNCHANGED <<scan, waitVars, m_locked, rcv, filterVars, pmtList, rt, tunerVars, done>>
  BY DEF WaitForLock, WaitForTransponderScan, WaitForEPGScan, IndInv, ScanTypes
<1>2. /\ sc' \in ScannerType
      /\ \/ sc.at = "waitlock" /\ sc'.at = "waitscan"
         \/ sc.at = "waitscan" /\ sc'.at = "waitepg" /\ m_scanFinished
         \/ sc'.at = "detach" /\ sc'.todo = Receivers
  BY <1>1 DEF WaitForLock, WaitForTransponderScan, WaitForEPGScan, ScannerType
<1>3. ScanTypes' /\ WaitInv'
  BY <1>1, <1>2 DEF IndInv, ScanTypes, WaitInv, SuccessMeansScanned, waitVars
<1>4. FilterTypes' /\ ReceiverTypes' /\ CurrentInv' /\ DetachInv' /\ GateInv'
  BY <1>1, <1>2 DEF IndInv, FilterTypes, ReceiverTypes, CurrentInv, DetachInv, GateInv, filterVars
<1>5. TunerTypes' /\ LockInv'
  BY <1>1, <1>2 DEF IndInv, TunerTypes, LockInv, tunerVars
<1> QED
  BY <1>3, <1>4, <1>5 DEF IndInv

(* DetachTo() leaves the receiver without a handle and its filter detached. *)
LEMMA DetachToDetaches ==
  ASSUME IndInv, NEW r \in Receivers, NEW receivers \in [AllReceivers -> ReceiverType],
         \A s \in AllReceivers : receivers[s].attached = rcv[s].attached /\ receivers[s].handle = rcv[s].handle,
         DetachTo(r, receivers)
  PROVE  /\ rcv' \in [AllReceivers -> ReceiverType]
         /\ filt' \in [Filters -> FilterType]
         /\ detaching' \subseteq Receivers
         /\ ~rcv'[r].attached /\ rcv'[r].handle = NoHandle /\ ~filt'[r].attached
         /\ \A s \in AllReceivers : rcv'[s].scanned = receivers[s].scanned
         /\ \A s \in AllReceivers : s # r => rcv'[s].attached = rcv[s].attached /\ rcv'[s].handle = rcv[s].handle
         /\ \A s \in Receivers : s # r => filt'[s] = filt[s]
<1>1. /\ r \in AllReceivers /\ r \in Filters /\ filt \in [Filters -> FilterType]
      /\ detaching \subseteq Receivers /\ Receivers \subseteq Filters
  BY DEF IndInv, FilterTypes, AllReceivers, Filters
<1>2. CASE rcv[r].attached
  <2>1. /\ rcv' = [receivers EXCEPT ![r].attached = FALSE, ![r].handle = NoHandle]
        /\ filt' = [filt EXCEPT ![r].attached = FALSE]
        /\ detaching' \subseteq Receivers
    BY <1>1, <1>2 DEF DetachTo
  <2>2. /\ rcv' \in [AllReceivers -> ReceiverType]
        /\ ~rcv'[r].attached /\ rcv'[r].handle = NoHandle
        /\ \A s \in AllReceivers : rcv'[s].scanned = receivers[s].scanned
        /\ \A s \in AllReceivers : s # r => rcv'[s].attached = rcv[s].attached /\ rcv'[s].handle = rcv[s].handle
    BY <1>1, <2>1, NoHandleInRange DEF ReceiverType
  <2>3. /\ filt' \in [Filters -> FilterType] /\ ~filt'[r].attached
        /\ \A f \in Filters : f # r => filt'[f] = filt[f]
    BY <1>1, <2>1 DEF FilterType
  <2> QED
    BY <1>1, <2>1, <2>2, <2>3
<1>3. CASE ~rcv[r].attached
  <2>1. rcv' = receivers /\ filt' = filt /\ detaching' = detaching
    BY <1>3 DEF DetachTo
  <2> QED
    BY <1>1, <1>3, <2>1 DEF IndInv, DetachInv
<1> QED
  BY <1>2, <1>3

LEMMA DetachReceiverInd ==
  ASSUME IndInv, NEW r \in Receivers, DetachReceiver(r)
  PROVE  IndInv'
<1>1. /\ sc.at = "detach" /\ r \in sc.todo /\ DetachTo(r, rcv) /\ sc \in ScannerType
      /\ sc' = [sc EXCEPT !.todo = @ \ {r}, !.at = IF sc.todo = {r} THEN "clear" ELSE "detach"]
      /\ UNCHANGED <<scan, waitVars, m_locked, rt, tunerVars, done, filters, opened, pmtList>>
  BY DEF IndInv, ScanTypes, DetachReceiver, Detach
<1>2. /\ rcv' \in [AllReceivers -> ReceiverType]
      /\ filt' \in [Filters -> FilterType]
      /\ detaching' \subseteq Receivers
      /\ ~rcv'[r].attached /\ rcv'[r].handle = NoHandle /\ ~filt'[r].attached
      /\ \A s \in AllReceivers : rcv'[s].scanned = rcv[s].scanned
      /\ \A s \in AllReceivers : s # r => rcv'[s].attached = rcv[s].attached /\ rcv'[s].handle = rcv[s].handle
      /\ \A s \in Receivers : s # r => filt'[s] = filt[s]
  BY <1>1, DetachToDetaches DEF IndInv, ReceiverTypes
<1>3. ScanTypes' /\ WaitInv'
  BY <1>1 DEF IndInv, ScanTypes, ScannerType, WaitInv, SuccessMeansScanned, waitVars
<1>4. FilterTypes' /\ ReceiverTypes' /\ TunerTypes'
  BY <1>1, <1>2 DEF IndInv, FilterTypes, ReceiverTypes, TunerTypes, tunerVars
<1>5. CurrentInv' /\ LockInv'
  BY <1>1 DEF IndInv, CurrentInv, LockInv, ScannerType, tunerVars
<1>6. DetachInv'
  BY <1>1, <1>2 DEF IndInv, DetachInv, ScannerType, AllReceivers
<1>7. GateInv'
  BY <1>1, <1>2 DEF IndInv, GateInv, ScannerType, AllReceivers
<1> QED
  BY <1>3, <1>4, <1>5, <1>6, <1>7 DEF IndInv

LEMMA DetachReceiversInd ==
  ASSUME IndInv, DetachReceivers
  PROVE  IndInv'
<1>1. /\ sc.at = "clear" /\ sc \in ScannerType /\ m_waitingForReceivers' = {} /\ m_scanFinished' \in BOOLEAN
      /\ sc' = [sc EXCEPT !.at = "lost"]
      /\ UNCHANGED <<scan, m_locked, rcv, filterVars, pmtList, rt, tunerVars, done>>
  BY DEF DetachReceivers, IndInv, ScanTypes
<1>2. sc' \in ScannerType /\ sc'.at = "lost"
  BY <1>1 DEF ScannerType
<1>3. ScanTypes' /\ WaitInv'
  BY <1>1, <1>2 DEF IndInv, ScanTypes, WaitInv, SuccessMeansScanned
<1>4. FilterTypes' /\ ReceiverTypes' /\ CurrentInv' /\ DetachInv' /\ GateInv'
  BY <1>1, <1>2 DEF IndInv, FilterTypes, ReceiverTypes, CurrentInv, DetachInv, GateInv, filterVars
<1>5. TunerTypes' /\ LockInv'
  BY <1>1, <1>2 DEF IndInv, TunerTypes, LockInv, tunerVars
<1> QED
  BY <1>3, <1>4, <1>5 DEF IndInv

LEMMA ClearChannelInd ==
  ASSUME IndInv, ClearChannel
  PROVE  IndInv'
<1>1. /\ sc.at = "lost" /\ sc \in ScannerType /\ sc' = [sc EXCEPT !.at = "sync"]
      /\ notify' = [msg |-> "lost", todo |-> Receivers, step |-> "next"]
      /\ signal' = FALSE /\ announced' = FALSE
      /\ UNCHANGED <<scan, waitVars, m_locked, rcv, filterVars, pmtList, rt, changes, done>>
  BY DEF ClearChannel, IndInv, ScanTypes
<1>2. sc' \in ScannerType /\ sc'.at = "sync"
  BY <1>1 DEF ScannerType
<1>3. ScanTypes' /\ WaitInv'
  BY <1>1, <1>2 DEF IndInv, ScanTypes, WaitInv, SuccessMeansScanned, waitVars
<1>4. FilterTypes' /\ ReceiverTypes' /\ CurrentInv' /\ DetachInv' /\ GateInv'
  BY <1>1, <1>2 DEF IndInv, FilterTypes, ReceiverTypes, CurrentInv, DetachInv, GateInv, filterVars
<1>5. TunerTypes' /\ LockInv'
  BY <1>1, <1>2 DEF IndInv, TunerTypes, NotifyType, LockInv
<1> QED
  BY <1>3, <1>4, <1>5 DEF IndInv

LEMMA SyncPidsInd ==
  ASSUME IndInv, SyncPids
  PROVE  IndInv'
<1>1. /\ sc.at = "sync" /\ sc \in ScannerType /\ sc' = [sc EXCEPT !.at = "idle"]
      /\ notify = Quiet /\ rt = Idle /\ opened' = {} /\ done' = {}
      /\ UNCHANGED <<scan, waitVars, m_locked, rcv, filt, filters, detaching, pmtList, rt, tunerVars>>
  BY DEF SyncPids, IndInv, ScanTypes
<1>2. sc' \in ScannerType /\ sc'.at = "idle" /\ notify.msg # "lost"
  BY <1>1 DEF ScannerType, Quiet
<1>3. ScanTypes' /\ WaitInv'
  BY <1>1, <1>2 DEF IndInv, ScanTypes, WaitInv, SuccessMeansScanned, waitVars
<1>4. FilterTypes' /\ ReceiverTypes' /\ CurrentInv' /\ DetachInv' /\ GateInv'
  BY <1>1, <1>2 DEF IndInv, FilterTypes, ReceiverTypes, CurrentInv, DetachInv, GateInv
<1>5. TunerTypes' /\ LockInv'
  BY <1>1, <1>2 DEF IndInv, TunerTypes, LockInv, tunerVars
<1> QED
  BY <1>3, <1>4, <1>5 DEF IndInv

-----------------------------------------------------------------------------
(* The tuner's thread.                                                      *)

LEMMA SignalInd ==
  ASSUME IndInv, SignalChange \/ NotifyBegin
  PROVE  IndInv'
<1>1. /\ sc.at \notin {"idle", "sync"}
      /\ UNCHANGED <<scannerVars, waitVars, m_locked, rcv, filterVars, pmtList, rt, done>>
  BY DEF SignalChange, NotifyBegin
<1>2. announced' \in BOOLEAN /\ signal' \in BOOLEAN
  <2>1. announced \in BOOLEAN /\ signal \in BOOLEAN
    BY DEF IndInv, TunerTypes
  <2> QED
    BY <2>1 DEF SignalChange, NotifyBegin
<1>3. notify' \in NotifyType
  <2>1. \/ notify' = notify
        \/ \E msg \in {"lock", "lost"} : notify' = [msg |-> msg, todo |-> Receivers, step |-> "next"]
    BY DEF SignalChange, NotifyBegin
  <2> QED
    BY <2>1 DEF IndInv, TunerTypes, NotifyType
<1>4. changes' \in 0..MaxSignalChanges
  BY CountAssumption DEF SignalChange, NotifyBegin, IndInv, TunerTypes
<1>5. TunerTypes' /\ LockInv'
  BY <1>1, <1>2, <1>3, <1>4 DEF IndInv, TunerTypes, LockInv, scannerVars
<1>6. ScanTypes' /\ WaitInv'
  BY <1>1 DEF IndInv, ScanTypes, WaitInv, SuccessMeansScanned, scannerVars, waitVars
<1>7. FilterTypes' /\ ReceiverTypes' /\ CurrentInv' /\ DetachInv' /\ GateInv'
  BY <1>1 DEF IndInv, FilterTypes, ReceiverTypes, CurrentInv, DetachInv, GateInv, scannerVars, filterVars
<1> QED
  BY <1>5, <1>6, <1>7 DEF IndInv

LEMMA LockAcquiredInd ==
  ASSUME IndInv, NEW r \in Receivers, LockAcquired(r)
  PROVE  IndInv'
<1>1. /\ notify.msg = "lock" /\ notify \in NotifyType
      /\ rcv' = [rcv EXCEPT ![r].scanned = FALSE] /\ notify' = [notify EXCEPT !.todo = @ \ {r}]
      /\ UNCHANGED <<scannerVars, waitVars, m_locked, filterVars, pmtList, rt, signal, announced, changes, done>>
  BY DEF LockAcquired, IndInv, TunerTypes
<1>2. /\ rcv' \in [AllReceivers -> ReceiverType]
      /\ \A s \in AllReceivers : rcv'[s].attached = rcv[s].attached /\ rcv'[s].handle = rcv[s].handle
      /\ rcv'[Pmt] = rcv[Pmt]
  BY <1>1, NameAssumption DEF IndInv, ReceiverTypes, ReceiverType, AllReceivers, Receivers
<1>3. notify' \in NotifyType /\ notify # Quiet
  BY <1>1 DEF NotifyType, Quiet
<1>4. sc.at \notin {"idle", "sync"}
  BY <1>1, <1>3 DEF IndInv, LockInv
<1>5. TunerTypes' /\ LockInv'
  BY <1>1, <1>3, <1>4 DEF IndInv, TunerTypes, LockInv, scannerVars
<1>6. ScanTypes' /\ WaitInv'
  BY <1>1 DEF IndInv, ScanTypes, WaitInv, SuccessMeansScanned, scannerVars, waitVars
<1>7. FilterTypes' /\ ReceiverTypes' /\ CurrentInv' /\ GateInv'
  BY <1>1, <1>2 DEF IndInv, FilterTypes, ReceiverTypes, CurrentInv, GateInv, scannerVars, filterVars
<1>8. DetachInv'
  BY <1>1, <1>2 DEF IndInv, DetachInv, AllReceivers, scannerVars, filterVars
<1> QED
  BY <1>5, <1>6, <1>7, <1>8 DEF IndInv

LEMMA LockLostInd ==
  ASSUME IndInv, NEW r \in Receivers, LockLost(r)
  PROVE  IndInv'
<1> DEFINE unscanned == [rcv EXCEPT ![r].scanned = FALSE]
<1>1. /\ notify.msg = "lost" /\ DetachTo(r, unscanned) /\ notify \in NotifyType
      /\ notify' = [notify EXCEPT !.todo = @ \ {r}, !.step = IF r = Pat THEN "pmt" ELSE "next"]
      /\ UNCHANGED <<scannerVars, waitVars, m_locked, filters, opened, pmtList, rt, signal, announced, changes, done>>
  BY DEF IndInv, TunerTypes, LockLost
<1>2. /\ unscanned \in [AllReceivers -> ReceiverType]
      /\ \A s \in AllReceivers : unscanned[s].attached = rcv[s].attached /\ unscanned[s].handle = rcv[s].handle
      /\ \A s \in AllReceivers : s # r => unscanned[s] = rcv[s]
  BY DEF IndInv, ReceiverTypes, ReceiverType, AllReceivers
<1> HIDE DEF unscanned
<1>3. /\ rcv' \in [AllReceivers -> ReceiverType]
      /\ filt' \in [Filters -> FilterType]
      /\ detaching' \subseteq Receivers
      /\ ~rcv'[r].attached /\ rcv'[r].handle = NoHandle /\ ~filt'[r].attached
      /\ \A s \in AllReceivers : rcv'[s].scanned = unscanned[s].scanned
      /\ \A s \in AllReceivers : s # r => rcv'[s].attached = rcv[s].attached /\ rcv'[s].handle = rcv[s].handle
      /\ \A s \in Receivers : s # r => filt'[s] = filt[s]
  BY <1>1, <1>2, DetachToDetaches
<1>4. ScanTypes' /\ WaitInv' /\ CurrentInv'
  BY <1>1 DEF IndInv, ScanTypes, WaitInv, SuccessMeansScanned, CurrentInv, scannerVars, waitVars
<1>5. FilterTypes' /\ ReceiverTypes'
  BY <1>1, <1>3 DEF IndInv, FilterTypes, ReceiverTypes
<1>6. TunerTypes' /\ notify'.msg = "lost"
  BY <1>1 DEF IndInv, TunerTypes, NotifyType
<1>7. LockInv'
  BY <1>1, <1>6 DEF IndInv, LockInv, Quiet, scannerVars
<1>8. DetachInv'
  BY <1>1, <1>3 DEF IndInv, DetachInv, AllReceivers, scannerVars
<1>9. GateInv'
  <2>1. rcv'[Pmt].scanned = rcv[Pmt].scanned
    BY <1>2, <1>3, NameAssumption DEF AllReceivers, Receivers
  <2> QED
    BY <1>1, <2>1 DEF IndInv, GateInv, scannerVars
<1> QED
  BY <1>4, <1>5, <1>6, <1>7, <1>8, <1>9 DEF IndInv

LEMMA PmtDetachInd ==
  ASSUME IndInv, PmtDetach
  PROVE  IndInv'
<1>1. /\ notify.step = "pmt" /\ notify' = [notify EXCEPT !.step = "list"] /\ notify \in NotifyType
      /\ UNCHANGED <<scannerVars, waitVars, m_locked, opened, detaching, pmtList, rt, signal, announced, changes, done>>
  BY DEF IndInv, TunerTypes, PmtDetach
<1>2. /\ rcv' \in [AllReceivers -> ReceiverType]
      /\ rcv'[Pmt].scanned = rcv[Pmt].scanned
      /\ \A s \in Receivers : rcv'[s] = rcv[s]
  <2>1. Pmt \in AllReceivers /\ Receivers \subseteq AllReceivers /\ Pmt \notin Receivers
    BY NameAssumption DEF AllReceivers, Receivers
  <2>2. rcv' = [rcv EXCEPT ![Pmt].attached = FALSE, ![Pmt].handle = NoHandle] \/ rcv' = rcv
    BY DEF PmtDetach
  <2>3. rcv \in [AllReceivers -> ReceiverType]
    BY DEF IndInv, ReceiverTypes
  <2>4. CASE rcv' = [rcv EXCEPT ![Pmt].attached = FALSE, ![Pmt].handle = NoHandle]
    <3> DEFINE w == [rcv[Pmt] EXCEPT !.attached = FALSE, !.handle = NoHandle]
    <3>1. w \in ReceiverType /\ w.scanned = rcv[Pmt].scanned
      BY <2>1, <2>3, NoHandleInRange DEF ReceiverType
    <3>2. rcv' = [rcv EXCEPT ![Pmt] = w]
      BY <2>1, <2>3, <2>4, <3>1
    <3> HIDE DEF w
    <3> QED
      BY <2>1, <2>3, <3>1, <3>2
  <2> QED
    BY <2>2, <2>3, <2>4
<1>3. FilterTypes' /\ \A s \in Receivers : filt'[s] = filt[s]
  <2>1. CASE RemoveFilters
    BY <1>1, <2>1, NameAssumption, NewFiltersAreFilters DEF RemoveFilters, IndInv, FilterTypes, Filters, Receivers
  <2>2. CASE UNCHANGED <<filt, filters>>
    BY <1>1, <2>2 DEF IndInv, FilterTypes
  <2> QED
    BY <2>1, <2>2 DEF PmtDetach
<1>4. ScanTypes' /\ WaitInv' /\ CurrentInv'
  BY <1>1 DEF IndInv, ScanTypes, WaitInv, SuccessMeansScanned, CurrentInv, scannerVars, waitVars
<1>5. ReceiverTypes'
  BY <1>1, <1>2 DEF IndInv, ReceiverTypes
<1>6. TunerTypes' /\ notify # Quiet /\ notify'.msg = notify.msg
  BY <1>1 DEF IndInv, TunerTypes, NotifyType, Quiet
<1>7. LockInv'
  BY <1>1, <1>6 DEF IndInv, LockInv, scannerVars
<1>8. DetachInv'
  BY <1>1, <1>2, <1>3 DEF IndInv, DetachInv, scannerVars
<1>9. GateInv'
  BY <1>1, <1>2 DEF IndInv, GateInv, scannerVars
<1> QED
  BY <1>3, <1>4, <1>5, <1>6, <1>7, <1>8, <1>9 DEF IndInv

LEMMA PmtClearInd ==
  ASSUME IndInv, PmtClear
  PROVE  IndInv'
<1>1. /\ notify.step = "list" /\ notify \in NotifyType /\ notify' = [notify EXCEPT !.step = "next"] /\ pmtList' = {}
      /\ UNCHANGED <<scannerVars, waitVars, m_locked, rcv, filterVars, rt, signal, announced, changes, done>>
  BY DEF PmtClear, IndInv, TunerTypes
<1>2. notify' \in NotifyType /\ notify # Quiet /\ notify'.msg = notify.msg
  BY <1>1 DEF NotifyType, Quiet
<1>3. TunerTypes' /\ LockInv'
  BY <1>1, <1>2 DEF IndInv, TunerTypes, LockInv, scannerVars
<1>4. ScanTypes' /\ WaitInv'
  BY <1>1 DEF IndInv, ScanTypes, WaitInv, SuccessMeansScanned, scannerVars, waitVars
<1>5. FilterTypes' /\ ReceiverTypes' /\ CurrentInv' /\ DetachInv' /\ GateInv'
  BY <1>1 DEF IndInv, FilterTypes, ReceiverTypes, CurrentInv, DetachInv, GateInv, scannerVars, filterVars
<1> QED
  BY <1>3, <1>4, <1>5 DEF IndInv

LEMMA NotifyEndInd ==
  ASSUME IndInv, NotifyEnd
  PROVE  IndInv'
<1>1. /\ notify.msg # "none" /\ notify \in NotifyType
      /\ m_locked' = (notify.msg = "lock") /\ notify' = Quiet
      /\ UNCHANGED <<scannerVars, waitVars, rcv, filterVars, pmtList, rt, signal, announced, changes, done>>
  BY DEF IndInv, TunerTypes, NotifyEnd
<1>2. notify # Quiet
  BY <1>1 DEF Quiet
<1>3. sc.at # "idle" /\ (sc.at = "sync" => ~m_locked')
  BY <1>1, <1>2 DEF IndInv, LockInv
<1>4. LockInv'
  BY <1>1, <1>3 DEF LockInv, scannerVars
<1>5. TunerTypes'
  BY <1>1 DEF IndInv, TunerTypes, NotifyType, Quiet
<1>6. ScanTypes' /\ FilterTypes' /\ ReceiverTypes' /\ WaitInv' /\ CurrentInv' /\ DetachInv' /\ GateInv'
  BY <1>1 DEF IndInv, ScanTypes, FilterTypes, ReceiverTypes, WaitInv, SuccessMeansScanned, CurrentInv,
     DetachInv, GateInv, scannerVars, waitVars, filterVars
<1> QED
  BY <1>4, <1>5, <1>6 DEF IndInv

-----------------------------------------------------------------------------
(* The receiver thread.                                                     *)

(* The thread has a section in hand, one of this scan, unless it is idle.   *)
LEMMA InHand ==
  ASSUME IndInv, rt.at # "idle"
  PROVE  rt \in SectionType /\ rt # Idle /\ rt.scan = scan /\ sc.at # "idle"
BY DEF IndInv, ReceiverTypes, CurrentInv, Idle

(* What a step of the receiver thread leaves alone.                         *)
LEMMA ThreadFrame ==
  ASSUME IndInv, UNCHANGED <<threadFrame, waitVars, done>>
  PROVE  ScanTypes' /\ WaitInv' /\ TunerTypes' /\ LockInv'
BY DEF IndInv, ScanTypes, WaitInv, SuccessMeansScanned, TunerTypes, LockInv,
       threadFrame, scannerVars, waitVars, tunerVars

(* A step that attaches no receiver and no filter of one.                   *)
LEMMA DetachFrame ==
  ASSUME IndInv, UNCHANGED threadFrame,
         \A r \in Receivers : rcv'[r].attached = rcv[r].attached /\ rcv'[r].handle = rcv[r].handle,
         \A r \in Receivers : filt'[r].attached => filt[r].attached
  PROVE  DetachInv'
BY DEF IndInv, DetachInv, threadFrame, scannerVars

(* A step of the thread that only turns to another part of its section.     *)
LEMMA OnlySection ==
  ASSUME IndInv, UNCHANGED <<threadFrame, waitVars, rcv, filterVars, pmtList, done>>,
         rt' \in SectionType \cup {Idle}, rt' # Idle => rt'.scan = scan,
         sc.at # "idle", rt.at # "tell"
  PROVE  IndInv'
<1>1. ScanTypes' /\ WaitInv' /\ TunerTypes' /\ LockInv'
  BY ThreadFrame
<1>2. ReceiverTypes' /\ CurrentInv' /\ GateInv'
  BY DEF IndInv, ReceiverTypes, CurrentInv, GateInv, threadFrame, scannerVars
<1>3. FilterTypes' /\ DetachInv'
  BY DEF IndInv, FilterTypes, DetachInv, filterVars, threadFrame, scannerVars
<1> QED
  BY <1>1, <1>2, <1>3 DEF IndInv

LEMMA ReceiveInd ==
  ASSUME IndInv, NEW f \in Filters, Receive(f)
  PROVE  IndInv'
<1>1. /\ rt = Idle /\ f \in opened /\ UNCHANGED <<threadFrame, waitVars, rcv, filterVars, pmtList, done>>
      /\ rt' = [at |-> IF f \in GatedTables THEN "gate" ELSE "sync", filter |-> f, todo |-> {},
                haspmt |-> FALSE, handle |-> NoHandle, scan |-> scan]
  BY DEF Receive
<1>2. sc.at # "idle" /\ rt.at # "tell" /\ scan \in 0..MaxScans
  BY <1>1 DEF IndInv, CurrentInv, ScanTypes, Idle
<1>3. rt' \in SectionType /\ rt'.scan = scan
  BY <1>1, <1>2, NoHandleInRange DEF SectionType
<1> QED
  BY <1>1, <1>2, <1>3, OnlySection

LEMMA ChangeProcessedInd ==
  ASSUME IndInv, NEW f \in Receivers, ChangeProcessed(f)
  PROVE  IndInv'
<1>1. /\ UNCHANGED <<threadFrame, waitVars, rcv, filters, opened, pmtList, rt, done>>
      /\ detaching' = detaching \ {f}
      /\ filt' = [filt EXCEPT ![f].synced = FALSE, ![f].previous = NoVersion]
  BY DEF ChangeProcessed
<1>2. filt' \in [Filters -> FilterType] /\ \A r \in Receivers : filt'[r].attached = filt[r].attached
  BY <1>1 DEF IndInv, FilterTypes, FilterType, Filters
<1>3. FilterTypes'
  BY <1>1, <1>2 DEF IndInv, FilterTypes
<1>4. ScanTypes' /\ WaitInv' /\ TunerTypes' /\ LockInv'
  BY <1>1, ThreadFrame
<1>5. DetachInv'
  BY <1>1, <1>2, DetachFrame
<1>6. ReceiverTypes' /\ CurrentInv' /\ GateInv'
  BY <1>1 DEF IndInv, ReceiverTypes, CurrentInv, GateInv, threadFrame, scannerVars
<1> QED
  BY <1>3, <1>4, <1>5, <1>6 DEF IndInv

LEMMA ReceivePacketInd ==
  ASSUME IndInv,
         \/ PmtScanned \/ Synced \/ HasUnsyncedPids
         \/ \E p \in PmtPids : ReadHandle(p)
  PROVE  IndInv'
<1>1. UNCHANGED <<threadFrame, waitVars, rcv, filterVars, pmtList, done>> /\ rt.at \notin {"idle", "tell"}
  BY DEF PmtScanned, Synced, HasUnsyncedPids, ReadHandle
<1>2. rt \in SectionType /\ rt.scan = scan /\ sc.at # "idle"
  BY <1>1, InHand
<1>3. rt' \in SectionType \cup {Idle} /\ (rt' # Idle => rt'.scan = scan)
  <2>1. CASE PmtScanned \/ Synced \/ HasUnsyncedPids
    <3>1. \/ rt' = Idle
          \/ \E where \in {"sync", "filterscanned", "attachpmt", "unsynced", "flag"} : rt' = [rt EXCEPT !.at = where]
      BY <2>1 DEF PmtScanned, Synced, HasUnsyncedPids, Goto, Return
    <3> QED
      BY <1>2, <3>1 DEF SectionType
  <2>2. CASE \E p \in PmtPids : ReadHandle(p)
    <3>1. rt' = [rt EXCEPT !.at = "add", !.handle = rcv[Pat].handle]
      BY <2>2 DEF ReadHandle
    <3>2. rcv[Pat].handle \in 0..MaxScans
      BY DEF IndInv, ReceiverTypes, ReceiverType, AllReceivers, Receivers
    <3> QED
      BY <1>2, <3>1, <3>2 DEF SectionType
  <2> QED
    BY <2>1, <2>2
<1> QED
  BY <1>1, <1>2, <1>3, OnlySection

LEMMA SyncInd ==
  ASSUME IndInv, NEW v \in Versions, NEW n \in 0..1, Sync(v, n)
  PROVE  IndInv'
<1>1. /\ rt.at = "sync" /\ UNCHANGED <<threadFrame, waitVars, rcv, filters, opened, detaching, pmtList, done>>
      /\ rt \in SectionType /\ rt.scan = scan /\ sc.at # "idle" /\ rt.filter \in Filters
      /\ filt \in [Filters -> FilterType]
  BY InHand DEF Sync, IndInv, FilterTypes, SectionType
<1>2. filt' \in [Filters -> FilterType] /\ \A f \in Filters : filt'[f].attached = filt[f].attached
  <2>1. CASE filt' = filt
    BY <1>1, <2>1
  <2>2. CASE filt' = [filt EXCEPT ![rt.filter].synced = TRUE,
                        ![rt.filter].previous = IF n = LastSection(rt.filter) THEN v ELSE @]
    <3>1. PICK u \in Versions \cup {NoVersion} :
             filt' = [filt EXCEPT ![rt.filter].synced = TRUE, ![rt.filter].previous = u]
      BY <1>1, <2>2 DEF FilterType
    <3> DEFINE w == [filt[rt.filter] EXCEPT !.synced = TRUE, !.previous = u]
    <3>2. w \in FilterType /\ w.attached = filt[rt.filter].attached
      BY <1>1 DEF FilterType
    <3>3. filt' = [filt EXCEPT ![rt.filter] = w]
      BY <1>1, <3>1, <3>2
    <3> HIDE DEF w
    <3> QED
      BY <1>1, <3>2, <3>3
  <2> QED
    BY <2>1, <2>2 DEF Sync
<1>3. /\ rt' \in SectionType \cup {Idle}
      /\ rt' # Idle => rt'.scan = scan
      /\ rt'.at \notin {"gate", "tell"}
  <2>1. CASE Return
    BY <2>1 DEF Return, Idle
  <2>2. CASE Goto("synced") \/ Goto("flag")
    BY <1>1, <2>2 DEF Goto, SectionType
  <2>3. CASE \E assoc \in PatContents :
               rt' = [rt EXCEPT !.at = NextAssociation(assoc), !.todo = assoc, !.haspmt = assoc # {}]
    <3>1. PICK assoc \in SUBSET PmtPids :
            rt' = [rt EXCEPT !.at = NextAssociation(assoc), !.todo = assoc, !.haspmt = assoc # {}]
      BY <2>3, PatAssumption
    <3>2. PICK where \in {"synced", "assoc"}, haspmt \in BOOLEAN :
            where = NextAssociation(assoc) /\ haspmt = (assoc # {})
      BY DEF NextAssociation
    <3>3. rt' = [rt EXCEPT !.at = where, !.todo = assoc, !.haspmt = haspmt]
      BY <3>1, <3>2, Zenon
    <3> QED
      BY <1>1, <3>3 DEF SectionType
  <2> QED
    BY <2>1, <2>2, <2>3 DEF Sync
<1>4. ScanTypes' /\ WaitInv' /\ TunerTypes' /\ LockInv'
  BY <1>1, ThreadFrame
<1>5. ReceiverTypes' /\ CurrentInv'
  BY <1>1, <1>3 DEF IndInv, ReceiverTypes, CurrentInv, threadFrame, scannerVars
<1>6. FilterTypes'
  BY <1>1, <1>2 DEF IndInv, FilterTypes
<1>7. DetachInv'
  BY <1>1, <1>2, DetachFrame DEF Filters
<1>8. GateInv'
  BY <1>1 DEF IndInv, GateInv, threadFrame, scannerVars
<1> QED
  BY <1>4, <1>5, <1>6, <1>7, <1>8 DEF IndInv

LEMMA AddTransportInd ==
  ASSUME IndInv, NEW p \in PmtPids, AddTransport(p)
  PROVE  IndInv'
<1>1. /\ rt.at = "add" /\ UNCHANGED <<threadFrame, waitVars, done>>
      /\ rt' = [rt EXCEPT !.at = NextAssociation(rt.todo \ {p}), !.todo = @ \ {p}]
      /\ rt \in SectionType /\ rt.scan = scan /\ sc.at # "idle"
  BY InHand DEF AddTransport
<1>2. rt' \in SectionType /\ rt'.scan = scan /\ rt'.at # "tell"
  BY <1>1 DEF SectionType, NextAssociation
<1>3. Pmt \in AllReceivers /\ Receivers \subseteq AllReceivers /\ Pmt \notin Receivers
  BY NameAssumption DEF AllReceivers, Receivers
<1>4. /\ rcv' \in [AllReceivers -> ReceiverType]
      /\ \A r \in Receivers : rcv'[r] = rcv[r]
      /\ rcv'[Pmt].scanned => rcv[Pmt].scanned
  <2>1. CASE rcv' = rcv
    BY <2>1 DEF IndInv, ReceiverTypes
  <2>2. CASE rcv' = [rcv EXCEPT ![Pmt].scanned = FALSE, ![Pmt].handle = rt.handle]
    <3>1. rcv \in [AllReceivers -> ReceiverType] /\ rt.handle \in 0..MaxScans
      BY <1>1 DEF IndInv, ReceiverTypes, SectionType
    <3> DEFINE w == [rcv[Pmt] EXCEPT !.scanned = FALSE, !.handle = rt.handle]
    <3>2. w \in ReceiverType /\ ~w.scanned
      BY <1>3, <3>1 DEF ReceiverType
    <3>3. rcv' = [rcv EXCEPT ![Pmt] = w]
      BY <1>3, <2>2, <3>1, <3>2
    <3> HIDE DEF w
    <3> QED
      BY <1>3, <3>1, <3>2, <3>3
  <2> QED
    BY <2>1, <2>2 DEF AddTransport
<1>5. filt' = filt \/ filt' = [filt EXCEPT ![p] = OpenFilter]
  BY DEF AddTransport, filterVars
<1>6. /\ filters' \in {filters, filters \cup {p}} /\ opened' \in {opened, opened \cup {p}}
      /\ pmtList' \in {pmtList, pmtList \cup {p}} /\ detaching' = detaching
  BY DEF AddTransport, filterVars
<1>7. FilterTypes'
  BY <1>5, <1>6, NewFiltersAreFilters DEF IndInv, FilterTypes, Filters
<1>8. \A r \in Receivers : filt'[r] = filt[r]
  <2>1. \A r \in Receivers : r # p
    BY NameAssumption DEF Receivers
  <2> QED
    BY <1>5, <2>1 DEF IndInv, FilterTypes, Filters
<1>9. ScanTypes' /\ WaitInv' /\ TunerTypes' /\ LockInv'
  BY <1>1, ThreadFrame
<1>10. DetachInv'
  BY <1>1, <1>4, <1>8, DetachFrame
<1>11. ReceiverTypes' /\ CurrentInv' /\ GateInv'
  BY <1>1, <1>2, <1>4 DEF IndInv, ReceiverTypes, CurrentInv, GateInv, threadFrame, scannerVars
<1> QED
  BY <1>7, <1>9, <1>10, <1>11 DEF IndInv

LEMMA FilterScannedInd ==
  ASSUME IndInv, FilterScanned
  PROVE  IndInv'
<1> DEFINE f == rt.filter
           scanned == IF Exists(f) THEN [filt EXCEPT ![f].attached = FALSE, ![f].state = "DONE"] ELSE filt
           mine == IF f = Pat THEN {Pat} ELSE filters
<1>1. /\ rt.at = "filterscanned" /\ UNCHANGED <<threadFrame, waitVars, rcv, filters, pmtList, done>>
      /\ rt \in SectionType /\ rt.scan = scan /\ sc.at # "idle" /\ f \in Filters
  BY InHand DEF FilterScanned, SectionType
<1>2. PICK where \in {"aborted", "attachpmt", "unsynced"} : rt' = [rt EXCEPT !.at = where]
  BY DEF FilterScanned, Goto
<1>3. rt' \in SectionType /\ rt'.scan = scan /\ rt'.at # "tell"
  BY <1>1, <1>2 DEF SectionType
<1>4. /\ scanned \in [Filters -> FilterType]
      /\ \A g \in Filters : scanned[g].attached => filt[g].attached
      /\ f = Pat => scanned[f].state = "DONE"
  <2>1. filt \in [Filters -> FilterType]
    BY DEF IndInv, FilterTypes
  <2>2. CASE Exists(f)
    <3> DEFINE w == [filt[f] EXCEPT !.attached = FALSE, !.state = "DONE"]
    <3>1. filt[f] \in FilterType
      BY <1>1, <2>1
    <3>2. w \in FilterType /\ ~w.attached /\ w.state = "DONE"
      BY <3>1 DEF FilterType, FilterStates
    <3>3. scanned = [filt EXCEPT ![f] = w]
      BY <1>1, <2>1, <2>2
    <3> HIDE DEF w, f, scanned
    <3> QED
      BY <1>1, <2>1, <3>2, <3>3
  <2>3. CASE ~Exists(f)
    BY <2>1, <2>3 DEF Exists, Receivers
  <2> QED
    BY <2>2, <2>3
<1>5. \/ filt' = scanned /\ opened' = opened
      \/ \E g \in mine : /\ scanned[g].state = "WAITING"
                         /\ filt' = [scanned EXCEPT ![g] = OpenFilter]
                         /\ opened' = opened \cup {g}
  BY DEF FilterScanned
<1>6. detaching' = detaching \/ (f = Pat /\ detaching' = detaching \cup {f})
  BY DEF FilterScanned
<1> HIDE DEF f, scanned
<1>7. \/ filt' = scanned /\ opened' = opened
      \/ \E g \in PmtPids : filt' = [scanned EXCEPT ![g] = OpenFilter] /\ opened' = opened \cup {g}
  BY <1>4, <1>5 DEF IndInv, FilterTypes
<1>8. FilterTypes'
  BY <1>1, <1>4, <1>6, <1>7, NewFiltersAreFilters DEF IndInv, FilterTypes, Filters, Receivers
<1>9. \A r \in Receivers : filt'[r].attached => filt[r].attached
  <2>1. \A r \in Receivers : r \in Filters /\ r \notin PmtPids
    BY NameAssumption DEF Receivers, Filters
  <2> QED
    BY <1>4, <1>7, <2>1
<1>10. ScanTypes' /\ WaitInv' /\ TunerTypes' /\ LockInv'
  BY <1>1, ThreadFrame
<1>11. DetachInv'
  BY <1>1, <1>9, DetachFrame
<1>12. ReceiverTypes' /\ CurrentInv' /\ GateInv'
  BY <1>1, <1>3 DEF IndInv, ReceiverTypes, CurrentInv, GateInv, threadFrame, scannerVars
<1> QED
  BY <1>8, <1>10, <1>11, <1>12 DEF IndInv

LEMMA AttachPmtInd ==
  ASSUME IndInv, AttachPmt
  PROVE  IndInv'
<1>1. /\ rt.at = "attachpmt" /\ UNCHANGED <<threadFrame, waitVars, detaching, pmtList, done>>
      /\ rt \in SectionType /\ rt.scan = scan /\ sc.at # "idle"
  BY InHand DEF AttachPmt
<1>2. rt' \in SectionType \cup {Idle} /\ (rt' # Idle => rt'.scan = scan) /\ rt'.at # "tell"
  <2>1. CASE Return
    BY <2>1 DEF Return, Idle
  <2>2. CASE Goto("flag")
    BY <1>1, <2>2 DEF Goto, SectionType
  <2> QED
    BY <2>1, <2>2 DEF AttachPmt
<1>3. /\ Pmt \in AllReceivers /\ Receivers \subseteq AllReceivers /\ Pmt \notin Receivers
      /\ rcv[Pat].handle \in 0..MaxScans
  BY NameAssumption DEF AllReceivers, Receivers, IndInv, ReceiverTypes, ReceiverType
<1>4. \A r \in Receivers : r \in Filters /\ r \notin PmtPids
  BY NameAssumption DEF Receivers, Filters
<1>5. /\ rcv' \in [AllReceivers -> ReceiverType]
      /\ \A r \in Receivers : rcv'[r] = rcv[r]
      /\ rcv'[Pmt].scanned => rcv[Pmt].scanned
  <2>1. \/ rcv' = rcv
        \/ rcv' = [rcv EXCEPT ![Pmt] = [attached |-> TRUE, handle |-> rcv[Pat].handle, scanned |-> FALSE]]
        \/ rcv' = [rcv EXCEPT ![Pmt].handle = rcv[Pat].handle]
    BY DEF AttachPmt, AttachPmtReceiver
  <2>2. rcv \in [AllReceivers -> ReceiverType]
    BY DEF IndInv, ReceiverTypes
  <2>3. CASE rcv' = [rcv EXCEPT ![Pmt] = [attached |-> TRUE, handle |-> rcv[Pat].handle, scanned |-> FALSE]]
    BY <1>3, <2>2, <2>3 DEF ReceiverType
  <2>4. CASE rcv' = [rcv EXCEPT ![Pmt].handle = rcv[Pat].handle]
    BY <1>3, <2>2, <2>4 DEF ReceiverType
  <2> QED
    BY <2>1, <2>2, <2>3, <2>4
<1>6. FilterTypes' /\ \A r \in Receivers : filt'[r] = filt[r]
  <2>1. \/ RemoveFilters /\ opened' = opened
        \/ filt' = AttachFilters(filters) /\ opened' = opened \cup filters /\ filters' = filters
        \/ filt' = filt /\ filters' = filters /\ opened' = opened
    BY DEF AttachPmt, AttachPmtReceiver
  <2>2. CASE RemoveFilters /\ opened' = opened
    BY <1>1, <1>4, <2>2, NewFiltersAreFilters DEF RemoveFilters, IndInv, FilterTypes, Filters
  <2>3. CASE filt' = AttachFilters(filters) /\ opened' = opened \cup filters /\ filters' = filters
    BY <1>1, <1>4, <2>3, NewFiltersAreFilters DEF AttachFilters, IndInv, FilterTypes, Filters
  <2>4. CASE filt' = filt /\ filters' = filters /\ opened' = opened
    BY <1>1, <2>4 DEF IndInv, FilterTypes
  <2> QED
    BY <2>1, <2>2, <2>3, <2>4
<1>7. ScanTypes' /\ WaitInv' /\ TunerTypes' /\ LockInv'
  BY <1>1, ThreadFrame
<1>8. DetachInv'
  BY <1>1, <1>5, <1>6, DetachFrame
<1>9. ReceiverTypes' /\ CurrentInv' /\ GateInv'
  BY <1>1, <1>2, <1>5 DEF IndInv, ReceiverTypes, CurrentInv, GateInv, threadFrame, scannerVars
<1> QED
  BY <1>6, <1>7, <1>8, <1>9 DEF IndInv

LEMMA SetScannedFlagInd ==
  ASSUME IndInv, SetScannedFlag
  PROVE  IndInv'
<1> DEFINE r == Owner(rt.filter)
<1>1. /\ rt.at = "flag" /\ UNCHANGED <<threadFrame, waitVars, filterVars, pmtList, done>>
      /\ rcv' = [rcv EXCEPT ![r].scanned = TRUE] /\ rt' = [rt EXCEPT !.at = "tell"]
      /\ rt \in SectionType /\ rt.scan = scan /\ sc.at # "idle" /\ rt.filter \in Filters
  BY InHand DEF SetScannedFlag, Goto, SectionType
<1>2. rt' \in SectionType /\ rt'.scan = scan /\ rt'.at = "tell" /\ rt'.filter = rt.filter
  BY <1>1 DEF SectionType
<1>3. /\ r \in AllReceivers /\ Receivers \subseteq AllReceivers /\ Pmt \in AllReceivers
      /\ r = Pmt <=> rt.filter \in PmtPids
  BY <1>1, NameAssumption DEF Owner, AllReceivers, Receivers, Filters
<1> HIDE DEF r
<1>4. /\ rcv' \in [AllReceivers -> ReceiverType]
      /\ \A s \in AllReceivers : rcv'[s].attached = rcv[s].attached /\ rcv'[s].handle = rcv[s].handle
      /\ r # Pmt => rcv'[Pmt] = rcv[Pmt]
  BY <1>1, <1>3 DEF IndInv, ReceiverTypes, ReceiverType
<1>5. ScanTypes' /\ WaitInv' /\ TunerTypes' /\ LockInv'
  BY <1>1, ThreadFrame
<1>6. FilterTypes' /\ filt' = filt
  BY <1>1 DEF IndInv, FilterTypes, filterVars
<1>7. DetachInv'
  BY <1>1, <1>3, <1>4, <1>6, DetachFrame
<1>8. ReceiverTypes' /\ CurrentInv'
  BY <1>1, <1>2, <1>4 DEF IndInv, ReceiverTypes, CurrentInv, threadFrame, scannerVars
<1>9. GateInv'
  <2>1. scan' = scan /\ sc' = sc /\ done' = done /\ scan # 0
    BY <1>1 DEF threadFrame, scannerVars, IndInv, GateInv
  <2> QED
    BY <1>1, <1>2, <1>3, <1>4, <2>1 DEF IndInv, GateInv
<1> QED
  BY <1>5, <1>6, <1>7, <1>8, <1>9 DEF IndInv

LEMMA SetScannedInd ==
  ASSUME IndInv, SetScanned
  PROVE  IndInv'
<1> DEFINE r == Owner(rt.filter)
<1>1. /\ rt.at = "tell" /\ UNCHANGED <<threadFrame, rcv, filterVars, pmtList>> /\ rt' = Idle
      /\ m_waitingForReceivers' = m_waitingForReceivers \ {r}
      /\ m_scanFinished' = IF r \in m_waitingForReceivers THEN m_waitingForReceivers' = {} ELSE m_scanFinished
      /\ done' = done \cup {r}
      /\ rt \in SectionType /\ sc.at # "idle" /\ rt.filter \in Filters
  BY InHand DEF SetScanned, Return, SectionType
<1>2. r \in AllReceivers /\ (rt.filter \in PmtPids => r = Pmt)
  BY <1>1 DEF Owner, AllReceivers, Receivers, Filters
<1> HIDE DEF r
<1>3. ScanTypes'
  BY <1>1, <1>2 DEF IndInv, ScanTypes, threadFrame, scannerVars
<1>4. WaitInv'
  BY <1>1 DEF IndInv, WaitInv, SuccessMeansScanned, threadFrame, scannerVars
<1>5. ReceiverTypes' /\ CurrentInv'
  BY <1>1 DEF IndInv, ReceiverTypes, CurrentInv, threadFrame, scannerVars
<1>6. GateInv'
  BY <1>1, <1>2 DEF IndInv, GateInv, threadFrame, scannerVars
<1>7. FilterTypes' /\ TunerTypes' /\ LockInv' /\ DetachInv'
  BY <1>1 DEF IndInv, FilterTypes, TunerTypes, LockInv, DetachInv, threadFrame, scannerVars, filterVars, tunerVars
<1> QED
  BY <1>3, <1>4, <1>5, <1>6, <1>7 DEF IndInv

-----------------------------------------------------------------------------
(* The theorems.                                                            *)

LEMMA StepInd ==
  IndInv /\ [Next]_vars => IndInv'
<1> SUFFICES ASSUME IndInv, [Next]_vars
             PROVE  IndInv'
  OBVIOUS
<1>1. CASE Scanner
  BY <1>1, BeginScanInd, AttachReceiverInd, RegisterInd, WaitInd, DetachReceiverInd, DetachReceiversInd,
     ClearChannelInd, SyncPidsInd DEF Scanner
<1>2. CASE SignalChange \/ NotifyBegin
  BY <1>2, SignalInd
<1>3. CASE Notification
  BY <1>3, LockAcquiredInd, LockLostInd, PmtDetachInd, PmtClearInd, NotifyEndInd DEF Notification
<1>4. CASE (\E f \in Filters : Receive(f)) \/ (\E f \in Receivers : ChangeProcessed(f))
  BY <1>4, ReceiveInd, ChangeProcessedInd
<1>5. CASE ReceivePacket
  BY <1>5, ReceivePacketInd, SyncInd, AddTransportInd, FilterScannedInd, AttachPmtInd, SetScannedFlagInd,
     SetScannedInd DEF ReceivePacket
<1>6. CASE UNCHANGED vars
  <2>1. (ScanTypes /\ ReceiverTypes /\ FilterTypes /\ TunerTypes)'
    BY <1>6 DEF IndInv, ScanTypes, ReceiverTypes, FilterTypes, TunerTypes,
       vars, scannerVars, waitVars, filterVars, tunerVars
  <2>2. (WaitInv /\ CurrentInv /\ GateInv)'
    BY <1>6 DEF IndInv, WaitInv, SuccessMeansScanned, CurrentInv, GateInv,
       vars, scannerVars, waitVars, filterVars
  <2>3. LockInv' /\ DetachInv'
    BY <1>6 DEF IndInv, LockInv, DetachInv, vars, scannerVars, waitVars, filterVars, tunerVars
  <2> QED
    BY <2>1, <2>2, <2>3 DEF IndInv
<1> QED
  BY <1>1, <1>2, <1>3, <1>4, <1>5, <1>6 DEF Next

(* The inductive invariant holds of every behaviour of the scan.            *)
LEMMA Inductive ==
  Spec => []IndInv
BY InitInd, StepInd, PTL DEF Spec

(* The scanner, the receivers, the filters and the threads stay within      *)
(* their types: in particular only filters of a receiver's own ask for the  *)
(* callback when their detach is processed.                                 *)
THEOREM ScanTypesCorrect ==
  Spec => []TypeOK
<1>1. IndInv => TypeOK
  BY TypeParts DEF IndInv
<1> QED
  BY <1>1, Inductive, PTL

(* WaitForTransponderScan() succeeds only if every receiver that            *)
(* AttachReceivers() registered has completed since.                        *)
THEOREM ScanSucceedsOnlyComplete ==
  Spec => []SuccessMeansScanned
<1>1. IndInv => SuccessMeansScanned
  BY DEF IndInv, WaitInv
<1> QED
  BY <1>1, Inductive, PTL

(* A section that SetScanned() completes a receiver with was taken up in    *)
(* this scan: SyncPids() let the receiver thread finish with the last one.  *)
THEOREM SectionsAreOfThisScan ==
  Spec => []CompletionsAreCurrent
<1>1. IndInv => CompletionsAreCurrent
  BY DEF IndInv, CurrentInv, CompletionsAreCurrent, Idle
<1> QED
  BY <1>1, Inductive, PTL

(* Once Release() has returned, no receiver of the scan is attached, none   *)
(* holds the tuner handle, and the lock is forgotten.                       *)
THEOREM ReleaseDetaches ==
  Spec => []ReleasedIsDetached
<1>1. IndInv => ReleasedIsDetached
  BY DEF IndInv, LockInv, DetachInv, ReleasedIsDetached
<1> QED
  BY <1>1, Inductive, PTL

(* In a device's first scan a section of the gated tables (cSdt, cPsipVct)  *)
(* is taken up only after the PMT scan has completed.                       *)
THEOREM GateWaitsForPmt ==
  Spec => GatedAfterPmt
<1>1. IndInv /\ [Next]_vars => [rt.at = "gate" /\ rt'.at = "sync" /\ scan = 1 => Pmt \in done]_vars
  <2> SUFFICES ASSUME IndInv, Next, rt.at = "gate", rt'.at = "sync", scan = 1
               PROVE  Pmt \in done
    OBVIOUS
  <2>1. rt' # rt /\ rt # Idle /\ sc.at # "idle"
    BY InHand DEF Idle
  <2>2. PmtScanned
    <3>1. ~Scanner
      BY <2>1 DEF Scanner, BeginScan, AttachReceiver, Register, WaitForLock, WaitForTransponderScan, WaitForEPGScan,
         DetachReceiver, DetachReceivers, ClearChannel, SyncPids
    <3>2. ~(SignalChange \/ NotifyBegin \/ Notification)
      BY <2>1 DEF SignalChange, NotifyBegin, Notification, LockAcquired, LockLost, PmtDetach, PmtClear, NotifyEnd
    <3>3. ~(\E f \in Filters : Receive(f)) /\ ~(\E f \in Receivers : ChangeProcessed(f))
      BY <2>1 DEF Receive, ChangeProcessed
    <3>4. ReceivePacket => PmtScanned
      BY DEF ReceivePacket, Synced, FilterScanned, AttachPmt, HasUnsyncedPids, SetScannedFlag, SetScanned, Sync,
         ReadHandle, AddTransport
    <3> QED
      BY <3>1, <3>2, <3>3, <3>4 DEF Next
  <2>3. rcv[Pmt].scanned
    BY <2>2 DEF PmtScanned, Return, Idle
  <2> QED
    BY <2>1, <2>3 DEF IndInv, GateInv
<1> QED
  BY <1>1, Inductive, PTL DEF Spec, GatedAfterPmt
=============================================================================
