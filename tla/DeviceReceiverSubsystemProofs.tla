------------------- MODULE DeviceReceiverSubsystemProofs -------------------
(***************************************************************************)
(* Proofs of the safety properties of the receiver subsystem for any       *)
(* number of clients, receivers, PIDs, section filters, changes and starts *)
(* of the thread.                                                          *)
(***************************************************************************)
EXTENDS DeviceReceiverSubsystem, TLAPS

(* Nobody waits for a change that was not submitted.                       *)
WaitersBounded == \A c \in Clients : waitingFor[c] <= submitted

(* The attach and detach-all changes not yet applied are no newer than the *)
(* last ones submitted, and the last detach-all is one.                    *)
PendingChanges ==
  /\ lastAttach <= submitted
  /\ lastClear <= submitted
  /\ \A i \in 1..Len(m_receiverChanges) :
       /\ m_receiverChanges[i].type \in AttachTypes => m_receiverChanges[i].ticket <= lastAttach
       /\ m_receiverChanges[i].ticket = lastClear => m_receiverChanges[i].type = "DETACH_ALL"
  /\ pc = "process" =>
       /\ current.type \in AttachTypes => current.ticket <= lastAttach
       /\ current.ticket = lastClear => current.type = "DETACH_ALL"

(* Nothing is attached before the thread runs for the first time.          *)
FirstRun ==
  /\ starts = 0 => pc = "off"
  /\ starts = 0 \/ (starts = 1 /\ pc = "init") => TableEmpty(m_receiverPidTable)

(* The inductive invariant.                                                *)
IndInv ==
  /\ TypeOK
  /\ ChangesAppliedInOrder
  /\ NoForgottenChange
  /\ WaitersBounded
  /\ WaiterSeesItsChange
  /\ PendingChanges
  /\ ClearedTableStaysEmpty
  /\ FirstRun
  /\ FlagMatchesTable

-----------------------------------------------------------------------------
(* What all client calls have in common: client c submits the change ch.   *)
Submission(c, ch) ==
  /\ Idle(c)
  /\ submitted < MaxChanges
  /\ ch.ticket = submitted + 1
  /\ submitted' = submitted + 1
  /\ m_receiverChanges' = Append(m_receiverChanges, ch)
  /\ m_changed' = TRUE
  /\ lastAttach' = IF ch.type \in AttachTypes THEN submitted + 1 ELSE lastAttach
  /\ lastClear' = IF ch.type = "DETACH_ALL" THEN submitted + 1 ELSE lastClear
  /\ \/ UNCHANGED <<m_changeProcessed, waitingFor>>
     \/ \E wait \in BOOLEAN : WaitForChange(c, wait)
  /\ UNCHANGED <<pc, stop, starts, m_receiverPidTable, delivered, current, empty, applied>>

(* Every client call submits one change, whichever call it is.             *)
LEMMA ClientCallSubmits ==
  ASSUME NEW c \in Clients, TypeOK, ClientCall(c)
  PROVE  \E ch \in Changes : Submission(c, ch)
<1> DEFINE Chg(type, r, p, t) ==
             [type |-> type, receiver |-> r, pid |-> p, tid |-> t, ticket |-> submitted + 1]
<1>1. ASSUME NEW r \in Receivers, NEW p \in Pids, NEW t \in Tids, AttachStreamingReceiver(c, r, p, t)
      PROVE  \E ch \in Changes : Submission(c, ch)
  <2>1. Chg("ATTACH_STREAMING", r, p, t) \in Changes
    BY DEF TypeOK, Changes
  <2>2. Submission(c, Chg("ATTACH_STREAMING", r, p, t))
    BY <1>1 DEF AttachStreamingReceiver, Attach, Push, Submission, threadVars, tableVars, AttachTypes
  <2> QED BY <2>1, <2>2
<1>2. ASSUME NEW r \in Receivers, NEW p \in Pids, AttachMultiplexedReceiver(c, r, p)
      PROVE  \E ch \in Changes : Submission(c, ch)
  <2>1. Chg("ATTACH_MULTIPLEXED", r, p, AnyTid) \in Changes
    BY DEF TypeOK, Changes
  <2>2. Submission(c, Chg("ATTACH_MULTIPLEXED", r, p, AnyTid))
    BY <1>2 DEF AttachMultiplexedReceiver, Attach, Push, Submission, threadVars, tableVars, AttachTypes
  <2> QED BY <2>1, <2>2
<1>3. ASSUME NEW wait \in BOOLEAN, NEW r \in Receivers, NEW p \in Pids, NEW t \in Tids,
             DetachStreamingReceiver(c, r, p, t, wait)
      PROVE  \E ch \in Changes : Submission(c, ch)
  <2>1. Chg("DETACH_STREAMING", r, p, t) \in Changes
    BY DEF TypeOK, Changes
  <2>2. Submission(c, Chg("DETACH_STREAMING", r, p, t))
    BY <1>3 DEF DetachStreamingReceiver, Detach, Push, Submission, threadVars, tableVars, AttachTypes
  <2> QED BY <2>1, <2>2
<1>4. ASSUME NEW wait \in BOOLEAN, NEW r \in Receivers, NEW p \in Pids,
             DetachMultiplexedReceiver(c, r, p, wait)
      PROVE  \E ch \in Changes : Submission(c, ch)
  <2>1. Chg("DETACH_MULTIPLEXED", r, p, AnyTid) \in Changes
    BY DEF TypeOK, Changes
  <2>2. Submission(c, Chg("DETACH_MULTIPLEXED", r, p, AnyTid))
    BY <1>4 DEF DetachMultiplexedReceiver, Detach, Push, Submission, threadVars, tableVars, AttachTypes
  <2> QED BY <2>1, <2>2
<1>5. ASSUME NEW wait \in BOOLEAN, NEW r \in Receivers, DetachReceiver(c, r, wait)
      PROVE  \E ch \in Changes : Submission(c, ch)
  <2>1. Chg("DETACH", r, NoPid, AnyTid) \in Changes
    BY DEF TypeOK, Changes
  <2>2. Submission(c, Chg("DETACH", r, NoPid, AnyTid))
    BY <1>5 DEF DetachReceiver, Detach, Push, Submission, threadVars, tableVars, AttachTypes
  <2> QED BY <2>1, <2>2
<1>6. ASSUME NEW wait \in BOOLEAN, SyncPids(c, wait)
      PROVE  \E ch \in Changes : Submission(c, ch)
  <2>1. Chg("NOOP", NoReceiver, NoPid, AnyTid) \in Changes
    BY DEF TypeOK, Changes
  <2>2. Submission(c, Chg("NOOP", NoReceiver, NoPid, AnyTid))
    BY <1>6 DEF SyncPids, Detach, Push, Submission, threadVars, tableVars, AttachTypes
  <2> QED BY <2>1, <2>2
<1>7. ASSUME NEW wait \in BOOLEAN, DetachAllReceivers(c, wait)
      PROVE  \E ch \in Changes : Submission(c, ch)
  <2>1. Chg("DETACH_ALL", NoReceiver, NoPid, AnyTid) \in Changes
    BY DEF TypeOK, Changes
  <2>2. Submission(c, Chg("DETACH_ALL", NoReceiver, NoPid, AnyTid))
    BY <1>7 DEF DetachAllReceivers, Push, Submission, threadVars, tableVars, AttachTypes
  <2> QED BY <2>1, <2>2
<1> QED BY <1>1, <1>2, <1>3, <1>4, <1>5, <1>6, <1>7 DEF ClientCall

-----------------------------------------------------------------------------
(* The invariant holds initially.                                          *)
LEMMA InitEstablishes == Init => IndInv
<1> SUFFICES ASSUME Init PROVE IndInv
  OBVIOUS
<1>1. TableEmpty(m_receiverPidTable)
  BY DEF Init, EmptyTable, TableEmpty
<1>2. TypeOK
  <2>1. m_receiverChanges \in Seq(Changes)
    BY DEF Init
  <2>2. m_receiverPidTable \in [Keys -> SUBSET Edges]
    BY DEF Init, EmptyTable
  <2>3. delivered \in [from : Resources \cup {NoResource}, via : SUBSET Edges]
    BY DEF Init, NothingDelivered
  <2> QED BY <2>1, <2>2, <2>3 DEF Init, TypeOK
<1> QED
  BY <1>1, <1>2 DEF Init, IndInv, ChangesAppliedInOrder, InFlight, NoForgottenChange, WaitersBounded,
     WaiterSeesItsChange, Idle, PendingChanges, ClearedTableStaysEmpty, FirstRun, FlagMatchesTable

(* A client call preserves the invariant.                                  *)
LEMMA SubmissionPreserves ==
  ASSUME IndInv, NEW c \in Clients, NEW ch \in Changes, Submission(c, ch)
  PROVE  IndInv'
<1> DEFINE q == m_receiverChanges
<1> USE DEF IndInv
<1>1. /\ q \in Seq(Changes) /\ q' = Append(q, ch)
      /\ submitted \in Nat /\ applied \in Nat
      /\ submitted' = submitted + 1 /\ ch.ticket = submitted + 1
      /\ UNCHANGED <<pc, applied, current, m_receiverPidTable, empty, starts>>
  BY DEF Submission, TypeOK
<1>2. TypeOK'
  <2>1. (m_receiverChanges \in Seq(Changes))'
    BY <1>1
  <2>2. m_changeProcessed' \in BOOLEAN /\ waitingFor' \in [Clients -> Nat]
    <3>1. CASE UNCHANGED <<m_changeProcessed, waitingFor>>
      BY <3>1 DEF TypeOK
    <3>2. ASSUME NEW wait \in BOOLEAN, WaitForChange(c, wait)
          PROVE  m_changeProcessed' \in BOOLEAN /\ waitingFor' \in [Clients -> Nat]
      <4>1. submitted + 1 \in Nat /\ waitingFor \in [Clients -> Nat]
        BY DEF TypeOK
      <4> QED BY <3>2, <4>1 DEF WaitForChange
    <3> QED BY <3>1, <3>2 DEF Submission
  <2>3. lastAttach' \in Nat /\ lastClear' \in Nat
    BY DEF Submission, TypeOK
  <2> QED BY <2>1, <2>2, <2>3 DEF Submission, TypeOK
<1>3. ChangesAppliedInOrder'
  <2>1. InFlight' = InFlight /\ InFlight \in Nat
    BY <1>1 DEF InFlight
  <2>2. \A i \in 1..Len(q') : q'[i] = IF i \in 1..Len(q) THEN q[i] ELSE ch
    BY <1>1
  <2>3. Len(q') = Len(q) + 1 /\ Len(q) \in Nat
    BY <1>1
  <2>4. submitted = applied + InFlight + Len(q)
    BY DEF ChangesAppliedInOrder
  <2>5. \A i \in 1..Len(q') : q'[i].ticket = applied + InFlight + i
    BY <1>1, <2>1, <2>2, <2>3, <2>4 DEF ChangesAppliedInOrder
  <2> QED BY <1>1, <2>1, <2>3, <2>4, <2>5 DEF ChangesAppliedInOrder
<1>4. NoForgottenChange'
  BY DEF Submission, NoForgottenChange
<1>5. WaitersBounded' /\ WaiterSeesItsChange'
  <2>1. CASE UNCHANGED <<m_changeProcessed, waitingFor>>
    BY <1>1, <2>1 DEF WaitersBounded, WaiterSeesItsChange, Idle, TypeOK
  <2>2. ASSUME NEW wait \in BOOLEAN, WaitForChange(c, wait)
        PROVE  WaitersBounded' /\ WaiterSeesItsChange'
    BY <1>1, <2>2 DEF WaitForChange, WaitersBounded, WaiterSeesItsChange, Idle, TypeOK
  <2> QED BY <2>1, <2>2 DEF Submission
<1>6. PendingChanges'
  <2>1. \A i \in 1..Len(q') : q'[i] = IF i \in 1..Len(q) THEN q[i] ELSE ch
    BY <1>1
  <2>2. \A i \in 1..Len(q) : q[i].ticket <= submitted
    <3>1. InFlight \in Nat /\ Len(q) \in Nat
      BY <1>1 DEF InFlight
    <3> QED BY <1>1, <3>1 DEF ChangesAppliedInOrder
  <2>3. pc = "process" => current.ticket <= submitted
    <3>1. Len(q) \in Nat
      BY <1>1
    <3> QED BY <1>1, <3>1 DEF ChangesAppliedInOrder, InFlight
  <2>4. /\ lastAttach \in Nat /\ lastClear \in Nat
        /\ lastAttach' = IF ch.type \in AttachTypes THEN submitted + 1 ELSE lastAttach
        /\ lastClear' = IF ch.type = "DETACH_ALL" THEN submitted + 1 ELSE lastClear
    BY DEF Submission, TypeOK
  <2>5. lastAttach' <= submitted' /\ lastClear' <= submitted' /\ lastAttach <= lastAttach'
    BY <1>1, <2>4 DEF PendingChanges
  <2>6. \A i \in 1..Len(q) : q[i].ticket \in Nat
    BY <1>1 DEF Changes
  <2>7. pc = "process" => current.ticket \in Nat
    BY <1>1 DEF ChangesAppliedInOrder
  <2>8. \A i \in 1..Len(q') :
          /\ q'[i].type \in AttachTypes => q'[i].ticket <= lastAttach'
          /\ q'[i].ticket = lastClear' => q'[i].type = "DETACH_ALL"
    <3> SUFFICES ASSUME NEW i \in 1..Len(q')
                 PROVE  /\ q'[i].type \in AttachTypes => q'[i].ticket <= lastAttach'
                        /\ q'[i].ticket = lastClear' => q'[i].type = "DETACH_ALL"
      OBVIOUS
    <3>1. CASE i \in 1..Len(q)
      <4>1. q'[i] = q[i] /\ q[i].ticket \in Nat /\ q[i].ticket <= submitted
        BY <2>1, <2>2, <2>6, <3>1
      <4>2. /\ q[i].type \in AttachTypes => q[i].ticket <= lastAttach
            /\ q[i].ticket = lastClear => q[i].type = "DETACH_ALL"
        BY <3>1 DEF PendingChanges
      <4> QED BY <1>1, <2>4, <2>5, <4>1, <4>2
    <3>2. CASE i \notin 1..Len(q)
      <4>1. q'[i] = ch
        BY <2>1, <3>2
      <4> QED BY <1>1, <2>4, <4>1 DEF PendingChanges
    <3> QED BY <3>1, <3>2
  <2>9. pc' = "process" =>
          /\ current'.type \in AttachTypes => current'.ticket <= lastAttach'
          /\ current'.ticket = lastClear' => current'.type = "DETACH_ALL"
    BY <1>1, <2>3, <2>4, <2>5, <2>7 DEF PendingChanges
  <2> QED BY <2>5, <2>8, <2>9 DEF PendingChanges
<1>7. ClearedTableStaysEmpty'
  <2>1. applied <= submitted
    <3>1. InFlight \in Nat /\ Len(q) \in Nat
      BY <1>1 DEF InFlight
    <3> QED BY <1>1, <3>1 DEF ChangesAppliedInOrder
  <2>2. lastAttach \in Nat /\ lastClear \in Nat /\ lastClear <= submitted
    BY DEF TypeOK, PendingChanges
  <2> QED BY <1>1, <2>1, <2>2 DEF Submission, ClearedTableStaysEmpty, TableEmpty
<1>8. FirstRun' /\ FlagMatchesTable'
  BY <1>1 DEF FirstRun, FlagMatchesTable, TableEmpty
<1> QED BY <1>2, <1>3, <1>4, <1>5, <1>6, <1>7, <1>8

(* Steps that leave the queue, the table and the clients alone preserve    *)
(* everything that is not about the thread's own flag.                     *)
LEMMA QuietPreserves ==
  ASSUME IndInv, TypeOK', FirstRun', FlagMatchesTable',
         pc # "process", pc' # "process",
         UNCHANGED <<m_receiverChanges, m_changed, m_changeProcessed, m_receiverPidTable,
                     waitingFor, submitted, applied, lastAttach, lastClear>>
  PROVE  IndInv'
<1>1. InFlight = 0 /\ InFlight' = 0
  BY DEF InFlight
<1>2. ChangesAppliedInOrder' /\ NoForgottenChange' /\ PendingChanges'
  BY <1>1 DEF IndInv, ChangesAppliedInOrder, NoForgottenChange, PendingChanges
<1>3. WaitersBounded' /\ WaiterSeesItsChange'
  BY DEF IndInv, WaitersBounded, WaiterSeesItsChange, Idle
<1>4. ClearedTableStaysEmpty'
  BY DEF IndInv, ClearedTableStaysEmpty, TableEmpty
<1> QED BY <1>2, <1>3, <1>4 DEF IndInv

(* Start() and the thread's steps that do not process changes.             *)
LEMMA QuietStepsPreserve ==
  ASSUME IndInv,
         \/ Start \/ Initialise \/ Deinitialise \/ CheckStopped \/ WaitForPidChange \/ PollNotReady
         \/ \E res \in Resources : DispatchSection(res)
         \/ \E p \in Pids, complete \in BOOLEAN : DispatchPacket(p, complete)
  PROVE  IndInv'
<1> USE DEF queueVars, tableVars, history
<1>1. CASE Start
  <2>1. TypeOK'
    <3>1. starts' \in Nat
      BY <1>1 DEF IndInv, Start, TypeOK
    <3>2. stop' \in BOOLEAN /\ pc' = "init"
      BY <1>1 DEF Start
    <3> QED BY <1>1, <3>1, <3>2 DEF IndInv, Start, TypeOK
  <2>2. FirstRun' /\ FlagMatchesTable'
    BY <1>1 DEF IndInv, Start, IsRunning, FirstRun, FlagMatchesTable, TableEmpty, TypeOK
  <2> QED BY <1>1, <2>1, <2>2, QuietPreserves DEF Start, IsRunning
<1>2. CASE Initialise
  <2>1. TypeOK'
    BY <1>2 DEF IndInv, Initialise, TypeOK
  <2>2. FirstRun' /\ FlagMatchesTable'
    BY <1>2 DEF IndInv, Initialise, FirstRun, FlagMatchesTable, TableEmpty, TypeOK
  <2> QED BY <1>2, <2>1, <2>2, QuietPreserves DEF Initialise
<1>3. CASE Deinitialise
  <2>1. TypeOK'
    BY <1>3 DEF IndInv, Deinitialise, TypeOK
  <2>2. FirstRun' /\ FlagMatchesTable'
    BY <1>3 DEF IndInv, Deinitialise, FirstRun, FlagMatchesTable, TableEmpty, TypeOK
  <2> QED BY <1>3, <2>1, <2>2, QuietPreserves DEF Deinitialise
<1>4. CASE CheckStopped
  <2>1. TypeOK'
    <3>1. delivered' \in [from : Resources \cup {NoResource}, via : SUBSET Edges]
      BY <1>4 DEF CheckStopped, NothingDelivered
    <3> QED BY <1>4, <3>1 DEF IndInv, CheckStopped, TypeOK
  <2>2. FirstRun' /\ FlagMatchesTable'
    BY <1>4 DEF IndInv, CheckStopped, FirstRun, FlagMatchesTable, TableEmpty, TypeOK
  <2> QED BY <1>4, <2>1, <2>2, QuietPreserves DEF CheckStopped
<1>5. CASE WaitForPidChange
  <2>1. TypeOK'
    BY <1>5 DEF IndInv, WaitForPidChange, TypeOK
  <2>2. FirstRun' /\ FlagMatchesTable'
    BY <1>5 DEF IndInv, WaitForPidChange, FirstRun, FlagMatchesTable, TableEmpty, TypeOK
  <2> QED BY <1>5, <2>1, <2>2, QuietPreserves DEF WaitForPidChange
<1>6. CASE PollNotReady
  <2>1. TypeOK'
    BY <1>6 DEF IndInv, PollNotReady, TypeOK
  <2>2. FirstRun' /\ FlagMatchesTable'
    BY <1>6 DEF IndInv, PollNotReady, FirstRun, FlagMatchesTable, TableEmpty, TypeOK
  <2> QED BY <1>6, <2>1, <2>2, QuietPreserves DEF PollNotReady
<1>7. ASSUME NEW res \in Resources, DispatchSection(res) PROVE IndInv'
  <2>1. ResourceKey(res) \in Keys
    BY DEF Resources, StreamingResources, MultiplexedResources, ResourceKey, Keys
  <2>2. delivered' \in [from : Resources \cup {NoResource}, via : SUBSET Edges]
    BY <1>7, <2>1 DEF IndInv, DispatchSection, TypeOK
  <2>3. TypeOK'
    BY <1>7, <2>2 DEF IndInv, DispatchSection, TypeOK
  <2>4. FirstRun' /\ FlagMatchesTable'
    BY <1>7 DEF IndInv, DispatchSection, FirstRun, FlagMatchesTable, TableEmpty, TypeOK
  <2> QED BY <1>7, <2>3, <2>4, QuietPreserves DEF DispatchSection
<1>8. ASSUME NEW p \in Pids, NEW complete \in BOOLEAN, DispatchPacket(p, complete) PROVE IndInv'
  <2>1. <<p, AnyTid>> \in Keys /\ CreateMultiplexedResource(p) \in Resources
    BY DEF Resources, MultiplexedResources, CreateMultiplexedResource, Keys
  <2>2. delivered' \in [from : Resources \cup {NoResource}, via : SUBSET Edges]
    <3>1. m_receiverPidTable[<<p, AnyTid>>] \subseteq Edges
      BY <2>1 DEF IndInv, TypeOK
    <3>2. PICK via \in SUBSET m_receiverPidTable[<<p, AnyTid>>] :
            delivered' = [from |-> CreateMultiplexedResource(p), via |-> via]
      BY <1>8 DEF DispatchPacket
    <3> QED BY <2>1, <3>1, <3>2
  <2>3. TypeOK'
    BY <1>8, <2>2 DEF IndInv, DispatchPacket, TypeOK
  <2>4. FirstRun' /\ FlagMatchesTable'
    BY <1>8 DEF IndInv, DispatchPacket, FirstRun, FlagMatchesTable, TableEmpty, TypeOK
  <2> QED BY <1>8, <2>3, <2>4, QuietPreserves DEF DispatchPacket
<1> QED BY <1>1, <1>2, <1>3, <1>4, <1>5, <1>6, <1>7, <1>8

(* Stop() only sets the thread's stop flag.                                *)
LEMMA StopPreserves == IndInv /\ Stop => IndInv'
<1> SUFFICES ASSUME IndInv, Stop PROVE IndInv'
  OBVIOUS
<1> USE DEF Stop, queueVars, tableVars, history
<1>1. TypeOK'
  BY DEF IndInv, TypeOK
<1>2. ChangesAppliedInOrder' /\ NoForgottenChange' /\ PendingChanges'
  BY DEF IndInv, ChangesAppliedInOrder, InFlight, NoForgottenChange, PendingChanges
<1>3. WaitersBounded' /\ WaiterSeesItsChange'
  BY DEF IndInv, WaitersBounded, WaiterSeesItsChange, Idle
<1>4. ClearedTableStaysEmpty' /\ FirstRun' /\ FlagMatchesTable'
  BY DEF IndInv, ClearedTableStaysEmpty, FirstRun, FlagMatchesTable, TableEmpty
<1> QED BY <1>1, <1>2, <1>3, <1>4 DEF IndInv

(* A waiting call returns.                                                 *)
LEMMA WakeUpPreserves ==
  ASSUME IndInv, NEW c \in Clients, WakeUp(c)
  PROVE  IndInv'
<1> USE DEF WakeUp, threadVars, queueVars, tableVars, history
<1>1. TypeOK'
  BY DEF IndInv, TypeOK
<1>2. ChangesAppliedInOrder' /\ NoForgottenChange' /\ PendingChanges'
  BY DEF IndInv, ChangesAppliedInOrder, InFlight, NoForgottenChange, PendingChanges
<1>3. WaitersBounded' /\ WaiterSeesItsChange'
  BY DEF IndInv, WaitersBounded, WaiterSeesItsChange, Idle, TypeOK
<1>4. ClearedTableStaysEmpty' /\ FirstRun' /\ FlagMatchesTable'
  BY DEF IndInv, ClearedTableStaysEmpty, FirstRun, FlagMatchesTable, TableEmpty
<1> QED BY <1>1, <1>2, <1>3, <1>4 DEF IndInv

(* NextChange() moves the head of the queue into the thread's hands.       *)
LEMMA NextChangePreserves == IndInv /\ NextChange => IndInv'
<1> SUFFICES ASSUME IndInv, NextChange PROVE IndInv'
  OBVIOUS
<1> DEFINE q == m_receiverChanges
<1> USE DEF queueVars, tableVars, history
<1>1. /\ q \in Seq(Changes) /\ pc = "next" /\ InFlight = 0
      /\ UNCHANGED <<applied, submitted, m_changed, m_receiverPidTable, lastAttach, lastClear>>
      /\ submitted \in Nat /\ applied \in Nat
  BY DEF IndInv, TypeOK, NextChange, InFlight
<1>2. WaitersBounded' /\ WaiterSeesItsChange'
  BY DEF IndInv, NextChange, WaitersBounded, WaiterSeesItsChange, Idle
<1>3. ClearedTableStaysEmpty' /\ FirstRun' /\ FlagMatchesTable'
  BY DEF IndInv, NextChange, ClearedTableStaysEmpty, FirstRun, FlagMatchesTable, TableEmpty
<1>4. CASE q # <<>>
  <2>1. /\ current' = Head(q) /\ q' = Tail(q) /\ pc' = "process" /\ InFlight' = 1
        /\ Head(q) \in Changes /\ Head(q) = q[1] /\ 1 \in 1..Len(q)
        /\ Tail(q) \in Seq(Changes) /\ Len(q') = Len(q) - 1 /\ Len(q) \in Nat
        /\ \A i \in 1..Len(q') : q'[i] = q[i + 1] /\ i + 1 \in 1..Len(q)
    BY <1>1, <1>4 DEF NextChange, InFlight
  <2>2. TypeOK'
    BY <2>1 DEF IndInv, TypeOK, NextChange
  <2>3. ChangesAppliedInOrder'
    BY <1>1, <2>1 DEF IndInv, ChangesAppliedInOrder
  <2>4. NoForgottenChange'
    BY <1>1, <1>4 DEF IndInv, NoForgottenChange
  <2>5. PendingChanges'
    BY <1>1, <2>1 DEF IndInv, PendingChanges
  <2> QED BY <1>2, <1>3, <2>2, <2>3, <2>4, <2>5 DEF IndInv
<1>5. CASE q = <<>>
  <2>1. q' = q /\ current' = current /\ pc' = "settle" /\ InFlight' = 0
    BY <1>5 DEF NextChange, InFlight
  <2>2. TypeOK'
    BY <2>1 DEF IndInv, TypeOK, NextChange
  <2>3. ChangesAppliedInOrder' /\ NoForgottenChange' /\ PendingChanges'
    BY <1>1, <2>1 DEF IndInv, ChangesAppliedInOrder, NoForgottenChange, PendingChanges
  <2> QED BY <1>2, <1>3, <2>2, <2>3 DEF IndInv
<1> QED BY <1>4, <1>5

(* The end of ProcessChanges().                                            *)
LEMMA SettlePreserves == IndInv /\ Settle => IndInv'
<1> SUFFICES ASSUME IndInv, Settle PROVE IndInv'
  OBVIOUS
<1> USE DEF tableVars, history
<1>1. /\ pc = "settle" /\ pc' \in {"loop", "poll"} /\ InFlight = 0 /\ InFlight' = 0
      /\ empty' = TableEmpty(m_receiverPidTable)
      /\ UNCHANGED <<stop, starts, m_receiverChanges, m_receiverPidTable, delivered, current,
                     waitingFor, submitted, applied, lastAttach, lastClear>>
  BY DEF Settle, InFlight
<1>2. \/ UNCHANGED <<m_changed, m_changeProcessed>>
      \/ m_receiverChanges = <<>> /\ m_changeProcessed' = TRUE /\ m_changed' = FALSE
  BY DEF Settle
<1>3. TypeOK'
  <2>1. m_changed' \in BOOLEAN /\ m_changeProcessed' \in BOOLEAN
    BY <1>2 DEF IndInv, TypeOK
  <2>2. empty' \in BOOLEAN
    BY <1>1 DEF TableEmpty
  <2> QED BY <1>1, <2>1, <2>2 DEF IndInv, TypeOK
<1>4. ChangesAppliedInOrder' /\ NoForgottenChange' /\ PendingChanges'
  BY <1>1, <1>2 DEF IndInv, ChangesAppliedInOrder, NoForgottenChange, PendingChanges
<1>5. WaitersBounded' /\ WaiterSeesItsChange'
  <2>1. m_receiverChanges = <<>> => submitted = applied
    BY <1>1 DEF IndInv, ChangesAppliedInOrder, TypeOK
  <2> QED BY <1>1, <1>2, <2>1 DEF IndInv, WaitersBounded, WaiterSeesItsChange, Idle
<1>6. ClearedTableStaysEmpty' /\ FirstRun' /\ FlagMatchesTable'
  BY <1>1 DEF IndInv, ClearedTableStaysEmpty, FirstRun, FlagMatchesTable, TableEmpty
<1> QED BY <1>3, <1>4, <1>5, <1>6 DEF IndInv

-----------------------------------------------------------------------------
(* Processing a change keeps the table well-typed, only an attach can add  *)
(* to an empty table, and detaching all empties it.                        *)
LEMMA ApplyChangeTable ==
  ASSUME TypeOK, NEW ch \in Changes, ApplyChange(ch)
  PROVE  /\ m_receiverPidTable' \in [Keys -> SUBSET Edges]
         /\ TableEmpty(m_receiverPidTable) /\ ch.type \notin AttachTypes
              => TableEmpty(m_receiverPidTable')
         /\ ch.type = "DETACH_ALL" => TableEmpty(m_receiverPidTable')
<1> DEFINE table == m_receiverPidTable
<1>0. table \in [Keys -> SUBSET Edges]
  BY DEF TypeOK
<1>1. ASSUME NEW r \in Receivers, NEW res \in Resources, AttachReceiver(r, res)
      PROVE  table' \in [Keys -> SUBSET Edges]
  <2>1. [receiver |-> r, resource |-> res] \in Edges
    BY DEF Edges
  <2> QED BY <1>0, <1>1, <2>1 DEF AttachReceiver
<1>2. CASE ch.type = "ATTACH_STREAMING"
  <2>1. ch.receiver \in Receivers /\ CreateStreamingResource(ch.pid, ch.tid) \in Resources
    BY <1>2 DEF Changes, CreateStreamingResource, Resources, StreamingResources
  <2>2. AttachReceiver(ch.receiver, CreateStreamingResource(ch.pid, ch.tid))
    BY <1>2 DEF ApplyChange
  <2> QED BY <1>1, <1>2, <2>1, <2>2 DEF AttachTypes
<1>3. CASE ch.type = "ATTACH_MULTIPLEXED"
  <2>1. ch.receiver \in Receivers /\ CreateMultiplexedResource(ch.pid) \in Resources
    BY <1>3 DEF Changes, CreateMultiplexedResource, Resources, MultiplexedResources
  <2>2. AttachReceiver(ch.receiver, CreateMultiplexedResource(ch.pid))
    BY <1>3 DEF ApplyChange
  <2> QED BY <1>1, <1>3, <2>1, <2>2 DEF AttachTypes
<1>4. CASE ch.type = "DETACH_STREAMING"
  BY <1>0, <1>4 DEF ApplyChange, ProcessDetachStreaming, TableEmpty
<1>5. CASE ch.type = "DETACH_MULTIPLEXED"
  BY <1>0, <1>5 DEF ApplyChange, ProcessDetachMultiplexed, TableEmpty
<1>6. CASE ch.type = "DETACH"
  BY <1>0, <1>6 DEF ApplyChange, ProcessDetachReceiver, TableEmpty
<1>7. CASE ch.type = "DETACH_ALL"
  BY <1>7 DEF ApplyChange, ProcessDetachAll, EmptyTable, TableEmpty
<1>8. CASE ch.type = "NOOP"
  BY <1>0, <1>8 DEF ApplyChange, TableEmpty
<1> QED BY <1>2, <1>3, <1>4, <1>5, <1>6, <1>7, <1>8 DEF Changes

(* Processing a change preserves the invariant.                            *)
LEMMA ProcessReceiverChangePreserves == IndInv /\ ProcessReceiverChange => IndInv'
<1> SUFFICES ASSUME IndInv, ProcessReceiverChange PROVE IndInv'
  OBVIOUS
<1> USE DEF queueVars
<1>1. /\ pc = "process" /\ pc' = "settle" /\ InFlight = 1 /\ InFlight' = 0
      /\ current \in Changes /\ current.ticket = applied + 1 /\ current' = NoChange
      /\ applied \in Nat /\ applied' = applied + 1
      /\ UNCHANGED <<stop, starts, m_receiverChanges, m_changed, m_changeProcessed, delivered, empty,
                     waitingFor, submitted, lastAttach, lastClear>>
  BY DEF IndInv, TypeOK, ChangesAppliedInOrder, ProcessReceiverChange, InFlight
<1>2. ApplyChange(current)
  BY DEF ProcessReceiverChange
<1>3. TypeOK'
  <2>1. m_receiverPidTable' \in [Keys -> SUBSET Edges]
    BY <1>1, <1>2, ApplyChangeTable DEF IndInv
  <2> QED BY <1>1, <2>1 DEF IndInv, TypeOK
<1>4. ChangesAppliedInOrder' /\ NoForgottenChange' /\ PendingChanges'
  BY <1>1 DEF IndInv, TypeOK, ChangesAppliedInOrder, NoForgottenChange, PendingChanges
<1>5. WaitersBounded' /\ WaiterSeesItsChange'
  BY <1>1 DEF IndInv, TypeOK, WaitersBounded, WaiterSeesItsChange, Idle
<1>6. ClearedTableStaysEmpty'
  <2> SUFFICES ASSUME lastClear > lastAttach, applied + 1 >= lastClear
               PROVE  TableEmpty(m_receiverPidTable')
    BY <1>1 DEF ClearedTableStaysEmpty, TableEmpty
  <2>1. lastClear \in Nat /\ lastAttach \in Nat
    BY DEF IndInv, TypeOK
  <2>2. CASE applied + 1 = lastClear
    <3>1. current.type = "DETACH_ALL"
      BY <1>1, <2>2 DEF IndInv, PendingChanges
    <3> QED BY <1>1, <1>2, <3>1, ApplyChangeTable DEF IndInv
  <2>3. CASE applied >= lastClear
    <3>1. TableEmpty(m_receiverPidTable)
      BY <2>3 DEF IndInv, ClearedTableStaysEmpty
    <3>2. current.type \notin AttachTypes
      BY <1>1, <2>1, <2>3 DEF IndInv, PendingChanges
    <3> QED BY <1>1, <1>2, <3>1, <3>2, ApplyChangeTable DEF IndInv
  <2> QED BY <1>1, <2>1, <2>2, <2>3
<1>7. FirstRun' /\ FlagMatchesTable'
  BY <1>1 DEF IndInv, FirstRun, FlagMatchesTable
<1> QED BY <1>3, <1>4, <1>5, <1>6, <1>7 DEF IndInv

-----------------------------------------------------------------------------
(* Every step of the subsystem preserves the invariant.                    *)
LEMMA NextPreserves == IndInv /\ [Next]_vars => IndInv'
<1> SUFFICES ASSUME IndInv, [Next]_vars PROVE IndInv'
  OBVIOUS
<1>1. CASE UNCHANGED vars
  BY <1>1 DEF vars, threadVars, queueVars, tableVars, history, IndInv, TypeOK, ChangesAppliedInOrder,
     InFlight, NoForgottenChange, WaitersBounded, WaiterSeesItsChange, Idle, PendingChanges,
     ClearedTableStaysEmpty, FirstRun, FlagMatchesTable, TableEmpty
<1>2. CASE Start
  BY <1>2, QuietStepsPreserve
<1>3. CASE Stop
  BY <1>3, StopPreserves
<1>4. CASE Process
  BY <1>4, QuietStepsPreserve, NextChangePreserves, ProcessReceiverChangePreserves, SettlePreserves
     DEF Process
<1>5. ASSUME NEW c \in Clients, ClientCall(c) PROVE IndInv'
  BY <1>5, ClientCallSubmits, SubmissionPreserves DEF IndInv
<1>6. ASSUME NEW c \in Clients, WakeUp(c) PROVE IndInv'
  BY <1>6, WakeUpPreserves
<1> QED BY <1>1, <1>2, <1>3, <1>4, <1>5, <1>6 DEF Next

(* The invariant holds in every reachable state.                           *)
THEOREM Invariance == Spec => []IndInv
BY InitEstablishes, NextPreserves, PTL DEF Spec

(* The type invariant holds for all values of the constants.               *)
THEOREM TypeCorrect == Spec => []TypeOK
<1>1. IndInv => TypeOK
  BY DEF IndInv
<1> QED BY <1>1, Invariance, PTL

(* Changes are applied exactly once and in the order of submission.        *)
THEOREM InOrder == Spec => []ChangesAppliedInOrder
<1>1. IndInv => ChangesAppliedInOrder
  BY DEF IndInv
<1> QED BY <1>1, Invariance, PTL

(* A queued change is never left behind the flag that ProcessChanges()     *)
(* clears.                                                                 *)
THEOREM NoneForgotten == Spec => []NoForgottenChange
<1>1. IndInv => NoForgottenChange
  BY DEF IndInv
<1> QED BY <1>1, Invariance, PTL

(* DetachReceiver(), SyncPids() and DetachAllReceivers() with wait return  *)
(* only when their change has been applied.                                *)
THEOREM WaitersSafe == Spec => []WaiterSeesItsChange
<1>1. IndInv => WaiterSeesItsChange
  BY DEF IndInv
<1> QED BY <1>1, Invariance, PTL

(* After DetachAllReceivers() has been applied nothing is attached until a *)
(* client asks for it.                                                     *)
THEOREM ClearedTable == Spec => []ClearedTableStaysEmpty
<1>1. IndInv => ClearedTableStaysEmpty
  BY DEF IndInv
<1> QED BY <1>1, Invariance, PTL

(* After DetachAllReceivers() has been applied Process() hands nothing to  *)
(* a receiver until a client asks for it.                                  *)
THEOREM Silent == Spec => NothingAfterClear
<1>1. ASSUME IndInv, Dispatch, lastClear > lastAttach, applied >= lastClear
      PROVE  delivered'.via = {}
  <2>1. TableEmpty(m_receiverPidTable)
    BY <1>1 DEF IndInv, ClearedTableStaysEmpty
  <2>2. CASE \E res \in Resources : DispatchSection(res)
    <3>1. PICK res \in Resources : DispatchSection(res)
      BY <2>2
    <3>2. ResourceKey(res) \in Keys
      BY DEF Resources, StreamingResources, MultiplexedResources, CreateStreamingResource,
             CreateMultiplexedResource, ResourceKey, Keys
    <3>3. delivered'.via = m_receiverPidTable[ResourceKey(res)]
      BY <3>1 DEF DispatchSection
    <3> QED BY <2>1, <3>2, <3>3 DEF TableEmpty
  <2>3. CASE \E p \in Pids, complete \in BOOLEAN : DispatchPacket(p, complete)
    BY <2>1, <2>3 DEF DispatchPacket, TableEmpty, EdgesOf
  <2> QED BY <1>1, <2>2, <2>3 DEF Dispatch
<1>2. IndInv => (Dispatch /\ lastClear > lastAttach /\ applied >= lastClear => delivered'.via = {})
  BY <1>1
<1> QED BY <1>2, Invariance, PTL DEF NothingAfterClear

(* In its first run the thread polls exactly when something is attached.   *)
THEOREM FlagAgrees == Spec => []FlagMatchesTable
<1>1. IndInv => FlagMatchesTable
  BY DEF IndInv
<1> QED BY <1>1, Invariance, PTL

-----------------------------------------------------------------------------
(* The pending changes are those numbered from applied + 1 to submitted.   *)
PendingConsecutive == PendingTickets = [i \in 1..(submitted - applied) |-> applied + i]

LEMMA PendingAreConsecutive == TypeOK /\ ChangesAppliedInOrder => PendingConsecutive
<1> SUFFICES ASSUME TypeOK, ChangesAppliedInOrder PROVE PendingConsecutive
  OBVIOUS
<1>1. InFlight + Len(m_receiverChanges) = submitted - applied
  BY DEF TypeOK, ChangesAppliedInOrder, InFlight
<1>2. ASSUME NEW i \in 1..(submitted - applied)
      PROVE  (IF i <= InFlight THEN current.ticket ELSE m_receiverChanges[i - InFlight].ticket) = applied + i
  <2>1. CASE i <= InFlight
    BY <1>2, <2>1 DEF TypeOK, ChangesAppliedInOrder, InFlight
  <2>2. CASE ~(i <= InFlight)
    <3>1. i - InFlight \in 1..Len(m_receiverChanges)
      BY <1>1, <1>2, <2>2 DEF TypeOK, InFlight
    <3> QED BY <1>2, <2>2, <3>1 DEF TypeOK, ChangesAppliedInOrder, InFlight
  <2> QED BY <2>1, <2>2
<1> QED BY <1>1, <1>2 DEF PendingConsecutive, PendingTickets

(* Every step of the subsystem is a step of the abstract specification or  *)
(* leaves its variables unchanged.                                         *)
LEMMA StepRefinement == IndInv /\ [Next]_vars => [Barrier!Next]_(Barrier!vars)
<1> SUFFICES ASSUME IndInv, [Next]_vars PROVE [Barrier!Next]_(Barrier!vars)
  OBVIOUS
<1>a. IndInv'
  BY NextPreserves
<1>b. PendingTickets = [i \in 1..(submitted - applied) |-> applied + i]
  BY PendingAreConsecutive DEF IndInv, PendingConsecutive
<1>c. PendingTickets' = [i \in 1..(submitted' - applied') |-> applied' + i]
  <2>1. TypeOK' /\ ChangesAppliedInOrder'
    BY <1>a DEF IndInv
  <2>2. PendingConsecutive'
    BY <2>1, PendingAreConsecutive, PTL
  <2> QED BY <2>2 DEF PendingConsecutive
<1>d. /\ submitted \in Nat /\ applied \in Nat /\ applied <= submitted
      /\ waitingFor \in [Clients -> Nat]
  BY DEF IndInv, TypeOK, ChangesAppliedInOrder, InFlight
<1>e. UNCHANGED <<submitted, applied, waitingFor>> => UNCHANGED Barrier!vars
  BY <1>b, <1>c DEF Barrier!vars
<1>1. CASE UNCHANGED vars
  BY <1>1, <1>e DEF vars, history
<1>2. CASE Start \/ Stop
  BY <1>2, <1>e DEF Start, Stop, history
<1>3. CASE ProcessReceiverChange
  <2>1. submitted' = submitted /\ applied' = applied + 1 /\ waitingFor' = waitingFor
    BY <1>3 DEF ProcessReceiverChange
  <2>2. applied < submitted
    BY <1>3 DEF IndInv, TypeOK, ProcessReceiverChange, ChangesAppliedInOrder, InFlight
  <2>3. PendingTickets # <<>> /\ PendingTickets' = Tail(PendingTickets)
    BY <1>b, <1>c, <1>d, <2>1, <2>2
  <2>4. Barrier!Apply
    BY <2>1, <2>3 DEF Barrier!Apply
  <2> QED BY <2>4 DEF Barrier!Next
<1>4. CASE \/ Initialise \/ CheckStopped \/ WaitForPidChange \/ NextChange \/ Settle \/ PollNotReady
           \/ \E res \in Resources : DispatchSection(res)
           \/ \E p \in Pids, complete \in BOOLEAN : DispatchPacket(p, complete)
           \/ Deinitialise
  BY <1>4, <1>e DEF Initialise, CheckStopped, WaitForPidChange, NextChange, Settle, PollNotReady,
     DispatchSection, DispatchPacket, Deinitialise, history
<1>5. ASSUME NEW c \in Clients, ClientCall(c) PROVE Barrier!Next
  <2>1. PICK ch \in Changes : Submission(c, ch)
    BY <1>5, ClientCallSubmits DEF IndInv
  <2>2. PICK wait \in BOOLEAN :
          waitingFor' = IF wait THEN [waitingFor EXCEPT ![c] = submitted + 1] ELSE waitingFor
    BY <2>1 DEF Submission, WaitForChange
  <2>3. submitted' = submitted + 1 /\ applied' = applied
    BY <2>1 DEF Submission
  <2>4. PendingTickets' = Append(PendingTickets, submitted + 1)
    BY <1>b, <1>c, <1>d, <2>3
  <2>5. Barrier!Submit(c, wait)
    BY <2>1, <2>2, <2>4 DEF Submission, Idle, Barrier!Submit
  <2> QED BY <2>5 DEF Barrier!Next
<1>6. ASSUME NEW c \in Clients, WakeUp(c) PROVE Barrier!Next
  <2>1. waitingFor[c] \in 1..applied
    BY <1>6 DEF IndInv, TypeOK, WakeUp, WaiterSeesItsChange, Idle
  <2>2. \A i \in DOMAIN PendingTickets : PendingTickets[i] # waitingFor[c]
    BY <1>b, <1>d, <2>1
  <2>3. submitted' = submitted /\ applied' = applied
    BY <1>6 DEF WakeUp, history
  <2>4. PendingTickets' = PendingTickets
    BY <1>b, <1>c, <2>3
  <2>5. Barrier!Return(c)
    BY <1>6, <2>1, <2>2, <2>3, <2>4 DEF WakeUp, Barrier!Return
  <2> QED BY <2>5 DEF Barrier!Next
<1> QED BY <1>1, <1>2, <1>3, <1>4, <1>5, <1>6 DEF Next, Process

(* The subsystem implements ChangeBarrier: however the thread's unlocked   *)
(* work interleaves with its clients, changes take effect in the order of  *)
(* submission and waiting calls return after theirs has.                   *)
THEOREM Refinement == Spec => ImplementsChangeBarrier
<1>1. Init => Barrier!Init
  BY DEF Init, Barrier!Init, PendingTickets, InFlight
<1> QED BY <1>1, Invariance, StepRefinement, PTL DEF Spec, ImplementsChangeBarrier, Barrier!Spec
=============================================================================
