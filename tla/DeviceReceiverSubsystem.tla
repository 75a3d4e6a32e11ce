---------------------- MODULE DeviceReceiverSubsystem ----------------------
(***************************************************************************)
(* The receiver subsystem of a device (cDeviceReceiverSubsystem, with the  *)
(* DVB resources of cDvbReceiverSubsystem).  Client threads never touch    *)
(* the table of attached receivers: they push change requests on a queue   *)
(* and, when asked to, wait on a condition variable until the receiver     *)
(* thread has caught up.  The receiver thread pops one change at a time,   *)
(* applies it outside the lock, and otherwise polls the hardware and hands *)
(* what it reads to the attached receivers.                                *)
(*                                                                         *)
(* Every change carries a ticket, its position in the order of submission. *)
(* The counters submitted and applied, and the tickets, are history: no    *)
(* guard reads them except to bound the number of submissions.             *)
(***************************************************************************)
EXTENDS Naturals, Sequences

CONSTANTS
  Clients,       \* threads calling the subsystem
  Receivers,     \* iReceiver objects
  PsiReceivers,  \* those whose IsPsiReceiver() is true
  Pids,          \* packet IDs
  Tids,          \* section filters (table ID and mask) other than 0xFF
  AnyTid,        \* the table ID 0xFF of a resource without one
  NoReceiver,    \* the NULL receiver of a change that names none
  NoPid,         \* the PID of a change that names none
  MaxChanges,    \* bound on the number of changes submitted
  MaxStarts      \* bound on the number of times the thread is started

ASSUME ReceiverAssumption == PsiReceivers \subseteq Receivers
ASSUME NoReceiverAssumption == NoReceiver \notin Receivers
ASSUME TidAssumption == AnyTid \notin Tids
ASSUME BoundAssumption == MaxChanges \in Nat /\ MaxStarts \in Nat

VARIABLES
  pc,               \* where the receiver thread is in Process()
  stop,             \* CThread::m_bStop
  starts,           \* how often the thread was created
  m_receiverChanges,
  m_changed,
  m_changeProcessed,
  m_receiverPidTable,
  current,          \* the change NextChange() returned
  empty,            \* Process()'s copy of whether the table is empty
  delivered,        \* the last dispatch: what was read, through which edges it went
  waitingFor,       \* per client, the ticket it waits for (0: not waiting)
  submitted,        \* history: changes pushed
  applied,          \* history: changes processed
  lastAttach,       \* history: ticket of the last attach pushed
  lastClear         \* history: ticket of the last detach-all pushed

threadVars == <<pc, stop, starts>>
queueVars == <<m_receiverChanges, m_changed, m_changeProcessed>>
tableVars == <<m_receiverPidTable, delivered>>
history == <<submitted, applied, lastAttach, lastClear>>
vars == <<threadVars, queueVars, tableVars, current, empty, waitingFor, history>>

-----------------------------------------------------------------------------
(* Resources, edges and changes.  Both kinds of DVB resource hand only the *)
(* PID to cPidResource, so the (non-virtual) Tid() the table is keyed with *)
(* is 0xFF for either of them.                                             *)

StreamingResources == [type : {"streaming"}, pid : Pids, tid : Tids]
MultiplexedResources == [type : {"multiplexing"}, pid : Pids, tid : {AnyTid}]
Resources == StreamingResources \cup MultiplexedResources

CreateStreamingResource(p, t) == [type |-> "streaming", pid |-> p, tid |-> t]

CreateMultiplexedResource(p) == [type |-> "multiplexing", pid |-> p, tid |-> AnyTid]

Keys == Pids \X (Tids \cup {AnyTid})
ResourceKey(res) == <<res.pid, AnyTid>>

Edges == [receiver : Receivers, resource : Resources]

AttachTypes == {"ATTACH_STREAMING", "ATTACH_MULTIPLEXED"}

(* One set of changes per constructor of cReceiverChange.                   *)
Changes ==
       [type : {"ATTACH_STREAMING", "DETACH_STREAMING"}, receiver : Receivers,
        pid : Pids, tid : Tids, ticket : Nat]
  \cup [type : {"ATTACH_MULTIPLEXED", "DETACH_MULTIPLEXED"}, receiver : Receivers,
        pid : Pids, tid : {AnyTid}, ticket : Nat]
  \cup [type : {"DETACH"}, receiver : Receivers,
        pid : {NoPid}, tid : {AnyTid}, ticket : Nat]
  \cup [type : {"DETACH_ALL", "NOOP"}, receiver : {NoReceiver},
        pid : {NoPid}, tid : {AnyTid}, ticket : Nat]
NoChange == [ticket |-> 0]

EmptyTable == [k \in Keys |-> {}]
TableEmpty(table) == \A k \in Keys : table[k] = {}
EdgesOf(table) == UNION {table[k] : k \in Keys}
NoResource == [type |-> "none"]
NothingDelivered == [from |-> NoResource, via |-> {}]

IsRunning == pc # "off"

(* The type invariant of the thread, the queue of changes and the table.    *)
TypeOK ==
  /\ pc \in {"off", "init", "loop", "wait", "next", "process", "settle", "poll", "deinit"}
  /\ stop \in BOOLEAN
  /\ starts \in Nat
  /\ m_receiverChanges \in Seq(Changes)
  /\ m_changed \in BOOLEAN
  /\ m_changeProcessed \in BOOLEAN
  /\ m_receiverPidTable \in [Keys -> SUBSET Edges]
  /\ current \in Changes \cup {NoChange}
  /\ empty \in BOOLEAN
  /\ delivered \in [from : Resources \cup {NoResource}, via : SUBSET Edges]
  /\ waitingFor \in [Clients -> Nat]
  /\ submitted \in Nat
  /\ applied \in Nat
  /\ lastAttach \in Nat
  /\ lastClear \in Nat

Init ==
  /\ pc = "off"
  /\ stop = FALSE
  /\ starts = 0
  /\ m_receiverChanges = <<>>
  /\ m_changed = FALSE
  /\ m_changeProcessed = FALSE
  /\ m_receiverPidTable = EmptyTable
  /\ current = NoChange
  /\ empty = TRUE
  /\ delivered = NothingDelivered
  /\ waitingFor = [c \in Clients |-> 0]
  /\ submitted = 0
  /\ applied = 0
  /\ lastAttach = 0
  /\ lastClear = 0

-----------------------------------------------------------------------------
(* The thread's life: Start() and Stop() are called by the device, the rest *)
(* is CThread::ThreadHandler and the head and tail of Process().            *)

Start ==
  /\ ~IsRunning
  /\ starts < MaxStarts
  /\ starts' = starts + 1
  /\ stop' = FALSE
  /\ pc' = "init"
  /\ UNCHANGED <<queueVars, tableVars, current, empty, waitingFor, history>>

Stop ==
  /\ IsRunning
  /\ ~stop
  /\ stop' = TRUE
  /\ UNCHANGED <<pc, starts, queueVars, tableVars, current, empty, waitingFor, history>>

Initialise ==
  /\ pc = "init"
  /\ pc' \in {"loop", "off"}   \* opening the DVR may fail
  /\ empty' = TRUE
  /\ UNCHANGED <<stop, starts, queueVars, tableVars, current, waitingFor, history>>

Deinitialise ==
  /\ pc = "deinit"
  /\ pc' = "off"
  /\ UNCHANGED <<stop, starts, queueVars, tableVars, current, empty, waitingFor, history>>

-----------------------------------------------------------------------------
(* Client calls.  All of them run under m_mutex and all but                 *)
(* DetachAllReceivers return at once when the thread does not run.          *)

Idle(c) == waitingFor[c] = 0

Push(type, r, p, t) ==
  /\ submitted < MaxChanges
  /\ submitted' = submitted + 1
  /\ m_receiverChanges' = Append(m_receiverChanges,
       [type |-> type, receiver |-> r, pid |-> p, tid |-> t, ticket |-> submitted + 1])
  /\ m_changed' = TRUE

Attach(c, type, r, p, t) ==
  /\ Idle(c)
  /\ IsRunning
  /\ Push(type, r, p, t)
  /\ lastAttach' = submitted + 1
  /\ UNCHANGED <<threadVars, tableVars, current, empty, m_changeProcessed, waitingFor, applied, lastClear>>

AttachStreamingReceiver(c, r, p, t) == Attach(c, "ATTACH_STREAMING", r, p, t)
AttachMultiplexedReceiver(c, r, p) == Attach(c, "ATTACH_MULTIPLEXED", r, p, AnyTid)

WaitForChange(c, wait) ==
  /\ m_changeProcessed' = FALSE
  /\ waitingFor' = IF wait THEN [waitingFor EXCEPT ![c] = submitted + 1] ELSE waitingFor

Detach(c, type, r, p, t, wait) ==
  /\ Idle(c)
  /\ IsRunning
  /\ Push(type, r, p, t)
  /\ WaitForChange(c, wait)
  /\ UNCHANGED <<threadVars, tableVars, current, empty, applied, lastAttach, lastClear>>

DetachStreamingReceiver(c, r, p, t, wait) == Detach(c, "DETACH_STREAMING", r, p, t, wait)
DetachMultiplexedReceiver(c, r, p, wait) == Detach(c, "DETACH_MULTIPLEXED", r, p, AnyTid, wait)
DetachReceiver(c, r, wait) == Detach(c, "DETACH", r, NoPid, AnyTid, wait)
SyncPids(c, wait) == Detach(c, "NOOP", NoReceiver, NoPid, AnyTid, wait)

DetachAllReceivers(c, wait) ==
  /\ Idle(c)
  /\ Push("DETACH_ALL", NoReceiver, NoPid, AnyTid)
  /\ WaitForChange(c, wait)
  /\ lastClear' = submitted + 1
  /\ UNCHANGED <<threadVars, tableVars, current, empty, applied, lastAttach>>

(* A waiting call returns when it finds m_changeProcessed set: the wait is  *)
(* repeated until then, without a timeout.                                  *)
WakeUp(c) ==
  /\ ~Idle(c)
  /\ m_changeProcessed
  /\ waitingFor' = [waitingFor EXCEPT ![c] = 0]
  /\ UNCHANGED <<threadVars, queueVars, tableVars, current, empty, history>>

-----------------------------------------------------------------------------
(* The receiver thread.                                                     *)

CheckStopped ==
  /\ pc = "loop"
  /\ pc' = IF stop THEN "deinit" ELSE "wait"
  /\ delivered' = NothingDelivered
  /\ UNCHANGED <<stop, starts, queueVars, m_receiverPidTable, current, empty, waitingFor, history>>

(* With an empty table the thread sleeps until it is signalled or a second  *)
(* has passed, and with a non-empty one it does not sleep at all: in either *)
(* case it goes on with the value m_changed has then.  Whether it polls is  *)
(* up to its own flag, which is set only where changes are processed.       *)
WaitForPidChange ==
  /\ pc = "wait"
  /\ pc' = IF m_changed THEN "next"
           ELSE IF empty THEN "loop" ELSE "poll"
  /\ UNCHANGED <<stop, starts, queueVars, tableVars, current, empty, waitingFor, history>>

(* Mutant: the newest change is taken. *)
NextChangeLast ==
  /\ pc = "next"
  /\ IF m_receiverChanges # <<>>
       THEN /\ current' = m_receiverChanges[Len(m_receiverChanges)]
            /\ m_receiverChanges' = SubSeq(m_receiverChanges, 1, Len(m_receiverChanges) - 1)
            /\ pc' = "process"
       ELSE pc' = "settle" /\ UNCHANGED <<current, m_receiverChanges>>
  /\ UNCHANGED <<stop, starts, m_changed, m_changeProcessed, tableVars, empty, waitingFor, history>>

NextChange ==
  /\ pc = "next"
  /\ IF m_receiverChanges # <<>>
       THEN /\ current' = Head(m_receiverChanges)
            /\ m_receiverChanges' = Tail(m_receiverChanges)
            /\ pc' = "process"
       ELSE /\ pc' = "settle"
            /\ UNCHANGED <<current, m_receiverChanges>>
  /\ UNCHANGED <<stop, starts, m_changed, m_changeProcessed, tableVars, empty, waitingFor, history>>

ResourceOpen(res) == \E e \in m_receiverPidTable[ResourceKey(res)] : e.resource = res
HasHandle(r) == \E e \in EdgesOf(m_receiverPidTable) : e.receiver = r

(* AttachReceiver(): opening a new resource and starting a new receiver may *)
(* fail, and then nothing stays attached.                                   *)
AttachReceiver(r, res) ==
  \/ m_receiverPidTable' =
       [m_receiverPidTable EXCEPT ![ResourceKey(res)] = @ \cup {[receiver |-> r, resource |-> res]}]
  \/ /\ ~(ResourceOpen(res) /\ HasHandle(r))
     /\ m_receiverPidTable' = m_receiverPidTable

SoleReceiver(k, r) == \A e \in m_receiverPidTable[k] : e.receiver = r

(* ProcessDetachReceiver() and ProcessDetachMultiplexed() walk a copy of    *)
(* the receiver list and unhook the nodes of the copy, so the list in the   *)
(* table keeps its nodes; the whole entry goes when the copy ends up empty. *)
ProcessDetachReceiver(r) ==
  m_receiverPidTable' =
    [k \in Keys |-> IF SoleReceiver(k, r) THEN {} ELSE m_receiverPidTable[k]]

ProcessDetachMultiplexed(r, p) ==
  m_receiverPidTable' =
    [m_receiverPidTable EXCEPT ![<<p, AnyTid>>] = IF SoleReceiver(<<p, AnyTid>>, r) THEN {} ELSE @]

ProcessDetachStreaming(r, p, t) ==
  m_receiverPidTable' =
    [m_receiverPidTable EXCEPT ![<<p, t>>] = {e \in @ : e.receiver # r}]

ProcessDetachAll == m_receiverPidTable' = EmptyTable

ApplyChange(ch) ==
  \/ /\ ch.type = "ATTACH_STREAMING"
     /\ AttachReceiver(ch.receiver, CreateStreamingResource(ch.pid, ch.tid))
  \/ /\ ch.type = "ATTACH_MULTIPLEXED"
     /\ AttachReceiver(ch.receiver, CreateMultiplexedResource(ch.pid))
  \/ /\ ch.type = "DETACH_STREAMING"
     /\ ProcessDetachStreaming(ch.receiver, ch.pid, ch.tid)
  \/ /\ ch.type = "DETACH_MULTIPLEXED"
     /\ ProcessDetachMultiplexed(ch.receiver, ch.pid)
  \/ /\ ch.type = "DETACH"
     /\ ProcessDetachReceiver(ch.receiver)
  \/ /\ ch.type = "DETACH_ALL"
     /\ ProcessDetachAll
  \/ /\ ch.type = "NOOP"
     /\ m_receiverPidTable' = m_receiverPidTable

(* ProcessReceiverChange(), outside the lock.  Counting the change as       *)
(* applied is also the call of its ChangeProcessed() callback.              *)
ProcessReceiverChange ==
  /\ pc = "process"
  /\ ApplyChange(current)
  /\ applied' = applied + 1
  /\ current' = NoChange
  /\ pc' = "settle"
  /\ UNCHANGED <<stop, starts, queueVars, delivered, empty, waitingFor, submitted, lastAttach, lastClear>>

(* Mutants: the flags are switched although more changes are queued; the    *)
(* waiters are not told; the thread's own flag is only brought up to date   *)
(* after the last change.                                                   *)
SettleAlways ==
  /\ pc = "settle"
  /\ m_changeProcessed' = TRUE
  /\ m_changed' = FALSE
  /\ empty' = TableEmpty(m_receiverPidTable)
  /\ pc' = IF empty' THEN "loop" ELSE "poll"
  /\ UNCHANGED <<stop, starts, m_receiverChanges, tableVars, current, waitingFor, history>>

SettleNoFlag ==
  /\ pc = "settle"
  /\ m_changed' = (m_receiverChanges # <<>>)
  /\ empty' = TableEmpty(m_receiverPidTable)
  /\ pc' = IF empty' THEN "loop" ELSE "poll"
  /\ UNCHANGED <<stop, starts, m_receiverChanges, m_changeProcessed, tableVars, current, waitingFor, history>>

SettleFlagAtLast ==
  /\ pc = "settle"
  /\ IF m_changed /\ m_receiverChanges = <<>>
       THEN m_changeProcessed' = TRUE /\ m_changed' = FALSE /\ empty' = TableEmpty(m_receiverPidTable)
       ELSE UNCHANGED <<m_changeProcessed, m_changed, empty>>
  /\ pc' = IF empty' THEN "loop" ELSE "poll"
  /\ UNCHANGED <<stop, starts, m_receiverChanges, tableVars, current, waitingFor, history>>

(* The end of ProcessChanges(), under the lock again.                       *)
Settle ==
  /\ pc = "settle"
  /\ IF m_changed /\ m_receiverChanges = <<>>
       THEN m_changeProcessed' = TRUE /\ m_changed' = FALSE
       ELSE UNCHANGED <<m_changeProcessed, m_changed>>
  /\ empty' = TableEmpty(m_receiverPidTable)
  /\ pc' = IF empty' THEN "loop" ELSE "poll"
  /\ UNCHANGED <<stop, starts, m_receiverChanges, tableVars, current, waitingFor, history>>

(* Poll() found nothing, the thread was told to stop, or the read failed.   *)
PollNotReady ==
  /\ pc = "poll"
  /\ pc' = "loop"
  /\ UNCHANGED <<stop, starts, queueVars, tableVars, current, empty, waitingFor, history>>

(* A section read from an open streaming resource goes out through every    *)
(* edge under the key of that resource.                                     *)
DispatchSection(res) ==
  /\ pc = "poll"
  /\ ~stop
  /\ res.type = "streaming"
  /\ ResourceOpen(res)
  /\ delivered' = [from |-> res, via |-> m_receiverPidTable[ResourceKey(res)]]
  /\ pc' = "loop"
  /\ UNCHANGED <<stop, starts, queueVars, m_receiverPidTable, current, empty, waitingFor, history>>

(* A transport packet of PID p goes out through every edge of the PID, but  *)
(* to a PSI receiver only as the packet that completes a section in the     *)
(* buffer of the PID's multiplexed resource.                                *)
DispatchPacket(p, complete) ==
  /\ pc = "poll"
  /\ ~stop
  /\ \E e \in EdgesOf(m_receiverPidTable) : e.resource.type = "multiplexing"
  /\ LET validpsi == complete /\ ResourceOpen(CreateMultiplexedResource(p))
     IN  delivered' = [from |-> CreateMultiplexedResource(p),
                       via |-> {e \in m_receiverPidTable[<<p, AnyTid>>] :
                                  e.receiver \in PsiReceivers => validpsi}]
  /\ pc' = "loop"
  /\ UNCHANGED <<stop, starts, queueVars, m_receiverPidTable, current, empty, waitingFor, history>>

-----------------------------------------------------------------------------
ClientCall(c) ==
  \/ \E r \in Receivers, p \in Pids, t \in Tids : AttachStreamingReceiver(c, r, p, t)
  \/ \E r \in Receivers, p \in Pids : AttachMultiplexedReceiver(c, r, p)
  \/ \E wait \in BOOLEAN :
       \/ \E r \in Receivers, p \in Pids, t \in Tids : DetachStreamingReceiver(c, r, p, t, wait)
       \/ \E r \in Receivers, p \in Pids : DetachMultiplexedReceiver(c, r, p, wait)
       \/ \E r \in Receivers : DetachReceiver(c, r, wait)
       \/ SyncPids(c, wait)
       \/ DetachAllReceivers(c, wait)

Process ==
  \/ Initialise \/ CheckStopped \/ WaitForPidChange
  \/ NextChange \/ ProcessReceiverChange \/ Settle
  \/ PollNotReady
  \/ \E res \in Resources : DispatchSection(res)
  \/ \E p \in Pids, complete \in BOOLEAN : DispatchPacket(p, complete)
  \/ Deinitialise

Next ==
  \/ Start \/ Stop
  \/ Process
  \/ \E c \in Clients : ClientCall(c) \/ WakeUp(c)

Spec == Init /\ [][Next]_vars

-----------------------------------------------------------------------------
(* Safety.                                                                  *)

InFlight == IF pc = "process" THEN 1 ELSE 0

(* Every change a client pushed is applied exactly once and in the order of *)
(* submission: those applied, the one popped by NextChange() and not yet    *)
(* processed, and those still queued follow each other without a gap.       *)
ChangesAppliedInOrder ==
  /\ submitted = applied + InFlight + Len(m_receiverChanges)
  /\ pc = "process" => current \in Changes /\ current.ticket = applied + 1
  /\ \A i \in 1..Len(m_receiverChanges) :
       m_receiverChanges[i].ticket = applied + InFlight + i

(* A queued change is never forgotten: ProcessChanges() clears m_changed    *)
(* only when the queue is empty, also when a client pushes a change while   *)
(* the thread works outside the lock.  With receivers attached the thread   *)
(* looks at the queue only if m_changed is set.                             *)
NoForgottenChange == m_receiverChanges # <<>> => m_changed

(* When a waiting DetachReceiver(), SyncPids() or DetachAllReceivers() is   *)
(* free to return, the change it pushed has been applied, although all      *)
(* waiters share the one flag m_changeProcessed and attach calls do not     *)
(* reset it.                                                                *)
WaiterSeesItsChange ==
  \A c \in Clients : ~Idle(c) /\ m_changeProcessed => waitingFor[c] <= applied

(* What SwitchChannel() needs of DetachAllReceivers(true): once the change  *)
(* is applied no receiver is attached, whatever was queued before it, until *)
(* a client asks for a new attachment.                                      *)
ClearedTableStaysEmpty ==
  lastClear > lastAttach /\ applied >= lastClear => TableEmpty(m_receiverPidTable)

(* The thread's flag agrees with the table whenever it decides whether to   *)
(* poll, so attached receivers are served and an empty table is not polled. *)
(* A restarted thread begins with the flag set and the old table, so this   *)
(* is about its first run.                                                  *)
FlagMatchesTable ==
  starts = 1 /\ pc \in {"loop", "wait", "poll"} => (empty <=> TableEmpty(m_receiverPidTable))

Dispatch ==
  \/ \E res \in Resources : DispatchSection(res)
  \/ \E p \in Pids, complete \in BOOLEAN : DispatchPacket(p, complete)

(* Once DetachAllReceivers() is applied no section or packet of the old     *)
(* transponder reaches a receiver, whatever Process() reads, until a client *)
(* asks for a new attachment.                                               *)
NothingAfterClear ==
  [][Dispatch /\ lastClear > lastAttach /\ applied >= lastClear => delivered'.via = {}]_vars

-----------------------------------------------------------------------------
(* The subsystem implements its abstract specification: the changes that    *)
(* have not taken effect are the one NextChange() popped, then the queue.   *)

PendingTickets ==
  [i \in 1..(InFlight + Len(m_receiverChanges)) |->
     IF i <= InFlight THEN current.ticket ELSE m_receiverChanges[i - InFlight].ticket]

Barrier == INSTANCE ChangeBarrier WITH pending <- PendingTickets

(* No interleaving of the clients' pushes with the thread's unlocked work   *)
(* reorders changes, loses one, applies one twice or lets a call that waits *)
(* return before its own change has taken effect.                           *)
ImplementsChangeBarrier == Barrier!Spec

-----------------------------------------------------------------------------
(* What the comments say.                                                   *)

Applies(type) == pc = "process" /\ pc' = "settle" /\ current.type = type

(* DeviceReceiverSubsystem.h: DetachReceiver() "Detaches the given receiver *)
(* from this device", so no edge of the receiver is left once it is done.   *)
DetachReceiverDetaches ==
  [][Applies("DETACH") =>
       \A e \in EdgesOf(m_receiverPidTable') : e.receiver # current.receiver]_vars

-----------------------------------------------------------------------------
(* Liveness.  The device starts the thread when it is initialised; the      *)
(* operating system runs every thread that can run; a client                *)
(* in a condition wait eventually gets the mutex while its flag stays set.  *)

Fairness == WF_vars(Start) /\ WF_vars(Process) /\ \A c \in Clients : WF_vars(WakeUp(c))
FairSpec == Spec /\ Fairness

StaysRunning == <>[](IsRunning /\ ~stop)

(* Every waiting call returns if the thread stays up, also when the next    *)
(* client resets m_changeProcessed before the waiter has seen it.           *)
WaitersReturnIfRunning == StaysRunning => \A c \in Clients : ~Idle(c) ~> Idle(c)

(* Every change is applied in the end if the thread stays up, also one that *)
(* was not signalled (DetachAllReceivers(false)) and one that was pushed    *)
(* while the thread was polling or between two of its runs.                 *)
ChangesAppliedIfRunning ==
  StaysRunning => \A n \in 1..MaxChanges : submitted >= n ~> applied >= n
=============================================================================
