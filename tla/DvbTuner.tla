------------------------------ MODULE DvbTuner ------------------------------
(***************************************************************************)
(* The tuner of a DVB device (cDvbTuner): a thread that drives the         *)
(* frontend through a state machine, and clients that ask it to tune or to *)
(* clear a transponder.  The state is guarded by m_stateMutex; the thread  *)
(* is woken through m_tuneEvent, which has a mutex of its own, and Tune()  *)
(* hands over from one to the other.  A block of code that runs under one  *)
(* mutex is one action; a mutex is a variable where it is held across      *)
(* several actions.                                                        *)
(***************************************************************************)
CONSTANTS
  Clients,              \* threads calling Tune() and ClearTransponder()
  Transponders,
  UntypedTransponders,  \* those with a lock timeout of 0
  None                  \* the reset transponder, and nobody holding a mutex

ASSUME UntypedAssumption == UntypedTransponders \subseteq Transponders
ASSUME NoneAssumption == None \notin Transponders \cup Clients

VARIABLES
  th,                 \* where the thread is in Process()
  m_bStop,
  m_state,
  m_stateMutex,       \* the client holding it between two actions
  m_tuneEvent,
  m_tuneEventMutex,   \* the client holding it between two actions
  m_tunerIdle,
  m_tunedLock,
  m_transponder,
  m_nextTransponder,
  m_status,           \* which of FE_HAS_SYNC and FE_HAS_LOCK are set
  frontend,           \* the transponder the hardware was last told to tune to
  at,                 \* per client, where it is in its call
  arg,                \* per client, the transponder it asks for
  m_changed,          \* Observable::m_bObservableChanged
  lastMessage,        \* what the observers were told last
  told,               \* history: per client, the transponder it was told to be locked on
  request,            \* history: the transponder requested and neither tried nor cancelled
  serial,             \* history: calls came one at a time
  prompt              \* history: no call timed out while the thread was at work

threadVars == <<th, m_bStop>>
eventVars == <<m_tuneEvent, m_tuneEventMutex>>
transponderVars == <<m_transponder, m_nextTransponder, m_status, frontend>>
clientVars == <<at, arg, serial, prompt>>
observerVars == <<m_changed, lastMessage, told>>
vars == <<threadVars, m_state, m_stateMutex, eventVars, m_tunerIdle, m_tunedLock, transponderVars,
          clientVars, observerVars, request>>

States == {"NOT_INITIALISED", "ERROR", "IDLE", "TUNING", "TUNING_FAILED",
           "LOCKING", "LOCKED", "LOST_LOCK", "CANCEL"}
PollStates == {"LOCKING", "LOCKED", "LOST_LOCK"}

(* The type invariant of the tuner thread, the calls and their locks.       *)
TypeOK ==
  /\ th \in {"new", "top", "cancel", "idle", "idlewait", "dozing", "asleep", "tuning", "poll",
             "read", "locked", "notifyLock", "lost", "notifyLost", "check", "ended"}
  /\ m_bStop \in BOOLEAN
  /\ m_state \in States
  /\ m_stateMutex \in Clients \cup {None}
  /\ m_tuneEvent \in BOOLEAN
  /\ m_tuneEventMutex \in Clients \cup {None}
  /\ m_tunerIdle \in BOOLEAN
  /\ m_tunedLock \in BOOLEAN
  /\ {m_transponder, m_nextTransponder, frontend, request} \subseteq Transponders \cup {None}
  /\ m_status \in {"none", "sync", "lock"}
  /\ at \in [Clients -> {"out", "cancelling", "request", "signal", "locking", "clearing",
                         "closing", "stopping"}]
  /\ arg \in [Clients -> Transponders \cup {None}]
  /\ m_changed \in BOOLEAN
  /\ lastMessage \in {"none", "lock", "lost"}
  /\ told \in [Clients -> Transponders \cup {None}]
  /\ serial \in BOOLEAN
  /\ prompt \in BOOLEAN

Init ==
  /\ th = "new"
  /\ m_bStop = FALSE
  /\ m_state = "NOT_INITIALISED"
  /\ m_stateMutex = None
  /\ m_tuneEvent = FALSE
  /\ m_tuneEventMutex = None
  /\ m_tunerIdle = TRUE
  /\ m_tunedLock = FALSE
  /\ m_transponder = None
  /\ m_nextTransponder = None
  /\ m_status = "none"
  /\ frontend = None
  /\ at = [c \in Clients |-> "out"]
  /\ arg = [c \in Clients |-> None]
  /\ m_changed = FALSE
  /\ lastMessage = "none"
  /\ told = [c \in Clients |-> None]
  /\ request = None
  /\ serial = TRUE
  /\ prompt = TRUE

-----------------------------------------------------------------------------
IsSynced == m_status \in {"sync", "lock"}
IsOpen == m_state \notin {"ERROR", "NOT_INITIALISED"} /\ ~m_bStop

StateFree == m_stateMutex = None

EventFree == m_tuneEventMutex = None /\ th # "dozing"

(* SetState(): only IDLE leaves CANCEL.                                     *)
SetState(state) ==
  m_state' = IF m_state # "CANCEL" \/ state = "IDLE" THEN state ELSE m_state

(* NotifyObservers(): only after SetChanged(), and it clears the mark.      *)
NotifyObservers(msg, changed) ==
  /\ m_changed' = FALSE
  /\ lastMessage' = IF changed THEN msg ELSE lastMessage
  /\ told' = IF changed /\ msg = "lost" THEN [c \in Clients |-> None] ELSE told

(* Waits may time out at any moment.  Seconds are long compared to what the *)
(* thread does between two waits of its own, so it is at rest by then,      *)
(* unless it is kept from running.                                          *)
ThreadAtRest ==
  \/ th = "asleep"
  \/ th \in {"idlewait", "check"} /\ m_tuneEventMutex # None
  \/ th \in {"poll", "read", "check", "top"} /\ m_state \in PollStates \cup {"TUNING_FAILED"}
  \/ th \in {"new", "ended"}

TimedOut == prompt' = (prompt /\ ThreadAtRest) /\ UNCHANGED serial

InTime == UNCHANGED <<serial, prompt>>

-----------------------------------------------------------------------------
(* Open() and the clients' calls.                                           *)

Open ==
  /\ StateFree
  /\ m_state = "NOT_INITIALISED"
  /\ ~m_bStop
  /\ \/ m_state' = "IDLE" /\ th' = "top"
     \/ m_state' = "ERROR" /\ UNCHANGED th
  /\ UNCHANGED <<m_bStop, m_stateMutex, eventVars, m_tunerIdle, m_tunedLock, transponderVars,
                 clientVars, observerVars, request>>

BeginCall ==
  /\ serial' = (serial /\ \A c \in Clients : at[c] = "out")
  /\ UNCHANGED prompt

Enter(c, where, t) ==
  /\ at' = [at EXCEPT ![c] = where]
  /\ arg' = [arg EXCEPT ![c] = t]

Return(c) == Enter(c, "out", None)

(* m_tuneEventCondition.Signal(): nothing happens unless the thread sleeps.  *)
SignalThread == th' = IF th = "asleep" THEN "idlewait" ELSE th

(* CancelTuning() up to its wait: afterwards the caller goes on if the      *)
(* state was IDLE or the tuner is idle, and waits otherwise.  It signals    *)
(* without holding m_tuneEventMutex.                                        *)
BeginCancel ==
  IF m_state # "IDLE"
    THEN m_state' = "CANCEL" /\ m_tuneEvent' = TRUE /\ request' = None /\ SignalThread
    ELSE UNCHANGED <<m_state, m_tuneEvent, request, th>>

NoWait == m_state = "IDLE" \/ m_tunerIdle

(* Tune(): the caller cancels what is going on and, once the tuner is idle, *)
(* holds m_stateMutex on its way to m_tuneEventMutex.                       *)
Tune(c, t) ==
  /\ at[c] = "out"
  /\ StateFree
  /\ IsOpen
  /\ BeginCancel
  /\ IF NoWait
       THEN Enter(c, "request", t) /\ m_stateMutex' = c
       ELSE Enter(c, "cancelling", t) /\ UNCHANGED m_stateMutex
  /\ BeginCall
  /\ told' = [told EXCEPT ![c] = None]
  /\ UNCHANGED <<m_bStop, m_tuneEventMutex, m_tunerIdle, m_tunedLock, transponderVars,
                 m_changed, lastMessage>>

Cancelled(c) ==
  /\ at[c] = "cancelling"
  /\ StateFree
  /\ \/ m_tunerIdle /\ Enter(c, "request", arg[c]) /\ m_stateMutex' = c /\ InTime
     \/ /\ ~m_tunerIdle /\ TimedOut /\ arg[c] \notin UntypedTransponders
        /\ Return(c) /\ UNCHANGED m_stateMutex
  /\ UNCHANGED <<threadVars, m_state, eventVars, m_tunerIdle, m_tunedLock, transponderVars,
                 observerVars, request>>

(* Mutant: m_tuneEvent is not raised. *)
RequestTuneUnseen(c) ==
  /\ at[c] = "request"
  /\ EventFree
  /\ m_tuneEventMutex' = c
  /\ SetState("TUNING")
  /\ m_nextTransponder' = arg[c]
  /\ m_tunedLock' = FALSE
  /\ m_stateMutex' = None
  /\ request' = arg[c]
  /\ Enter(c, "signal", arg[c]) /\ InTime
  /\ UNCHANGED <<threadVars, m_tuneEvent, m_tunerIdle, m_transponder, m_status, frontend, observerVars>>

RequestTune(c) ==
  /\ at[c] = "request"
  /\ EventFree
  /\ m_tuneEventMutex' = c
  /\ SetState("TUNING")
  /\ m_nextTransponder' = arg[c]
  /\ m_tuneEvent' = TRUE
  /\ m_tunedLock' = FALSE
  /\ m_stateMutex' = None
  /\ request' = arg[c]
  /\ Enter(c, "signal", arg[c]) /\ InTime
  /\ UNCHANGED <<threadVars, m_tunerIdle, m_transponder, m_status, frontend, observerVars>>

TuneResult(c) ==
  told' = IF m_transponder = arg[c] /\ m_state = "LOCKED"
            THEN [told EXCEPT ![c] = arg[c]] ELSE told

(* The signal is sent, m_stateMutex taken again and m_tuneEventMutex        *)
(* released; the wait for a lock begins with a look at m_tunedLock.         *)
SignalTune(c) ==
  /\ at[c] = "signal"
  /\ StateFree
  /\ SignalThread
  /\ m_tuneEventMutex' = None
  /\ InTime
  /\ IF m_tunedLock
       THEN Return(c) /\ TuneResult(c)
       ELSE Enter(c, "locking", arg[c]) /\ UNCHANGED told
  /\ UNCHANGED <<m_bStop, m_state, m_stateMutex, m_tuneEvent, m_tunerIdle, m_tunedLock,
                 transponderVars, m_changed, lastMessage, request>>

(* Mutant: the wait has no timeout. *)
WaitedForLockForever(c) ==
  /\ at[c] = "locking"
  /\ StateFree
  /\ m_tunedLock /\ TuneResult(c) /\ InTime
  /\ Return(c)
  /\ UNCHANGED <<threadVars, m_state, m_stateMutex, eventVars, m_tunerIdle, m_tunedLock,
                 transponderVars, m_changed, lastMessage, request>>

WaitedForLock(c) ==
  /\ at[c] = "locking"
  /\ StateFree
  /\ \/ m_tunedLock /\ TuneResult(c) /\ InTime
     \/ ~m_tunedLock /\ TimedOut /\ arg[c] \notin UntypedTransponders /\ UNCHANGED told
  /\ Return(c)
  /\ UNCHANGED <<threadVars, m_state, m_stateMutex, eventVars, m_tunerIdle, m_tunedLock,
                 transponderVars, m_changed, lastMessage, request>>

ClearTransponder(c, t) ==
  /\ at[c] = "out"
  /\ StateFree
  /\ ~m_bStop
  /\ m_transponder = t
  /\ BeginCall
  /\ BeginCancel
  /\ IF NoWait
       THEN NotifyObservers("lost", TRUE) /\ UNCHANGED <<at, arg>>
       ELSE m_changed' = TRUE /\ Enter(c, "clearing", t) /\ UNCHANGED <<lastMessage, told>>
  /\ UNCHANGED <<m_bStop, m_stateMutex, m_tuneEventMutex, m_tunerIdle, m_tunedLock, transponderVars>>

Cleared(c) ==
  /\ at[c] = "clearing"
  /\ StateFree
  /\ IF m_tunerIdle THEN InTime ELSE TimedOut
  /\ NotifyObservers("lost", m_changed)
  /\ Return(c)
  /\ UNCHANGED <<threadVars, m_state, m_stateMutex, eventVars, m_tunerIdle, m_tunedLock,
                 transponderVars, request>>

(* Close(), called by the destructor when no other call is in progress.     *)
Close(c) ==
  /\ \A d \in Clients : at[d] = "out"
  /\ StateFree
  /\ IsOpen
  /\ m_bStop' = TRUE
  /\ m_stateMutex' = c
  /\ Enter(c, "closing", None) /\ InTime
  /\ UNCHANGED <<th, m_state, eventVars, m_tunerIdle, m_tunedLock, transponderVars, observerVars, request>>

Closing(c) ==
  /\ at[c] = "closing"
  /\ EventFree
  /\ BeginCancel
  /\ m_tuneEventMutex' = c
  /\ m_stateMutex' = IF NoWait THEN c ELSE None
  /\ Enter(c, "stopping", None) /\ InTime
  /\ UNCHANGED <<m_bStop, m_tunerIdle, m_tunedLock, transponderVars, observerVars>>

(* Mutant: m_tuneEvent is not raised. *)
ClosedUnseen(c) ==
  /\ at[c] = "stopping"
  /\ m_stateMutex = c \/ StateFree
  /\ IF m_stateMutex = c \/ m_tunerIdle THEN InTime ELSE TimedOut
  /\ m_state' = "NOT_INITIALISED"
  /\ m_tuneEventMutex' = None
  /\ m_stateMutex' = None
  /\ m_transponder' = None
  /\ m_nextTransponder' = None
  /\ SignalThread
  /\ Return(c)
  /\ UNCHANGED <<m_bStop, m_tuneEvent, m_tunerIdle, m_tunedLock, m_status, frontend, observerVars, request>>

Closed(c) ==
  /\ at[c] = "stopping"
  /\ m_stateMutex = c \/ StateFree
  /\ IF m_stateMutex = c \/ m_tunerIdle THEN InTime ELSE TimedOut
  /\ m_state' = "NOT_INITIALISED"
  /\ m_tuneEvent' = TRUE
  /\ m_tuneEventMutex' = None
  /\ m_stateMutex' = None
  /\ m_transponder' = None
  /\ m_nextTransponder' = None
  /\ SignalThread
  /\ Return(c)
  /\ UNCHANGED <<m_bStop, m_tunerIdle, m_tunedLock, m_status, frontend, observerVars, request>>

-----------------------------------------------------------------------------
(* The thread, Process().                                                   *)

ThreadStep(from) ==
  /\ th = from
  /\ StateFree
  /\ UNCHANGED <<m_bStop, m_stateMutex, m_tuneEventMutex, clientVars>>

(* The head of the loop: IsStopped() and the dispatch on State().           *)
Dispatch ==
  /\ ThreadStep("top")
  /\ th' = IF m_bStop THEN "ended"
           ELSE CASE m_state = "CANCEL" -> "cancel"
                  [] m_state = "IDLE"   -> "idle"
                  [] m_state = "TUNING" -> "tuning"
                  [] m_state \in PollStates -> "poll"
                  [] OTHER -> "check"
  /\ UNCHANGED <<m_state, m_tuneEvent, m_tunerIdle, m_tunedLock, transponderVars, observerVars, request>>

(* Mutant: the observers are not notified. *)
ProcessCancelSilent ==
  /\ ThreadStep("cancel")
  /\ th' = "check"
  /\ m_transponder' = None
  /\ m_nextTransponder' = None
  /\ m_tunedLock' = FALSE
  /\ m_status' = "none"
  /\ SetState("IDLE")
  /\ UNCHANGED <<m_tuneEvent, m_tunerIdle, frontend, observerVars, request>>

(* m_tunedLock is raised for the broadcast and lowered again under the same *)
(* mutex, so the clients waiting for a lock see it lowered.                 *)
ProcessCancel ==
  /\ ThreadStep("cancel")
  /\ th' = "check"
  /\ m_transponder' = None
  /\ m_nextTransponder' = None
  /\ NotifyObservers("lost", TRUE)
  /\ m_tunedLock' = FALSE
  /\ m_status' = "none"
  /\ SetState("IDLE")
  /\ UNCHANGED <<m_tuneEvent, m_tunerIdle, frontend, request>>

ProcessIdle ==
  /\ ThreadStep("idle")
  /\ th' = "idlewait"
  /\ m_tunerIdle' = TRUE
  /\ UNCHANGED <<m_state, m_tuneEvent, m_tunedLock, transponderVars, observerVars, request>>

EventStep(from) ==
  /\ th = from
  /\ UNCHANGED <<m_bStop, m_state, m_stateMutex, m_tuneEventMutex, m_tunerIdle, m_tunedLock,
                 m_transponder, m_nextTransponder, frontend, clientVars, request>>

(* CheckEvent() without a timeout: the predicate is read and the thread     *)
(* falls asleep while it holds m_tuneEventMutex.                            *)
CheckIdleEvent ==
  /\ EventStep("idlewait")
  /\ EventFree
  /\ th' = IF m_tuneEvent THEN "check" ELSE "dozing"
  /\ m_tuneEvent' = FALSE
  /\ UNCHANGED <<m_status, observerVars>>

FallAsleep ==
  /\ EventStep("dozing")
  /\ th' = "asleep"
  /\ UNCHANGED <<m_tuneEvent, m_status, observerVars>>

(* CheckEvent(TUNER_POLL_TIMEOUT_MS): the event is consumed or it times out.*)
CheckEvent ==
  /\ EventStep("check")
  /\ EventFree
  /\ th' = "top"
  /\ m_tuneEvent' = FALSE
  /\ UNCHANGED <<m_status, observerVars>>

(* TuneDevice() with the outcome ok of the frontend commands.  It fails     *)
(* before it touches anything when the tuner is being closed.               *)
TuneDevice(ok) ==
  IF ~IsOpen \/ m_nextTransponder = m_transponder
    THEN /\ ok = IsOpen
         /\ UNCHANGED transponderVars
    ELSE /\ m_status' = "none"
         /\ ok => m_nextTransponder \notin UntypedTransponders
         /\ m_transponder' = IF ok THEN m_nextTransponder ELSE None
         /\ m_nextTransponder' = IF ok THEN None ELSE m_nextTransponder
         /\ frontend' = IF ok THEN m_nextTransponder ELSE frontend

(* Mutant: the result of TuneDevice() is ignored. *)
ProcessTuningIgnoresFailure ==
  /\ ThreadStep("tuning")
  /\ th' = "check"
  /\ m_tunerIdle' = FALSE
  /\ \E ok \in BOOLEAN :
       /\ TuneDevice(ok)
       /\ SetState("LOCKING")
  /\ request' = IF request = m_nextTransponder THEN None ELSE request
  /\ UNCHANGED <<m_tuneEvent, m_tunedLock, observerVars>>

ProcessTuning ==
  /\ ThreadStep("tuning")
  /\ th' = "check"
  /\ m_tunerIdle' = FALSE
  /\ \E ok \in BOOLEAN :
       /\ TuneDevice(ok)
       /\ SetState(IF ok THEN "LOCKING" ELSE "TUNING_FAILED")
  /\ request' = IF request = m_nextTransponder THEN None ELSE request
  /\ UNCHANGED <<m_tuneEvent, m_tunedLock, observerVars>>

PollFrontend ==
  /\ ThreadStep("poll")
  /\ th' = IF m_bStop \/ m_state = "CANCEL" THEN "check" ELSE "read"
  /\ UNCHANGED <<m_state, m_tuneEvent, m_tunerIdle, m_tunedLock, transponderVars, observerVars, request>>

(* Mutant: SetChanged() is left out. *)
ReadStatusUnmarked(status) ==
  /\ EventStep("read")
  /\ LET isSynced == status \in {"sync", "lock"} IN
       /\ m_status' = status
       /\ th' = CASE ~IsSynced /\ isSynced -> "locked"
                  [] IsSynced /\ ~isSynced -> "lost"
                  [] OTHER -> "poll"
       /\ m_changed' = m_changed
  /\ UNCHANGED <<m_tuneEvent, lastMessage, told>>

(* FE_READ_STATUS and UpdateFrontendStatus() up to m_stateMutex; a failed   *)
(* read is one that changes nothing.                                        *)
ReadStatus(status) ==
  /\ EventStep("read")
  /\ LET isSynced == status \in {"sync", "lock"} IN
       /\ m_status' = status
       /\ th' = CASE ~IsSynced /\ isSynced -> "locked"
                  [] IsSynced /\ ~isSynced -> "lost"
                  [] OTHER -> "poll"
       /\ m_changed' = (m_changed \/ IsSynced # isSynced)
  /\ UNCHANGED <<m_tuneEvent, lastMessage, told>>

UpdateLocked ==
  /\ ThreadStep("locked")
  /\ th' = "notifyLock"
  /\ SetState("LOCKED")
  /\ m_tunedLock' = TRUE
  /\ UNCHANGED <<m_tuneEvent, m_tunerIdle, transponderVars, observerVars, request>>

UpdateLost ==
  /\ ThreadStep("lost")
  /\ th' = "notifyLost"
  /\ SetState("LOST_LOCK")
  /\ UNCHANGED <<m_tuneEvent, m_tunerIdle, m_tunedLock, transponderVars, observerVars, request>>

(* The observers are told without any mutex of the tuner.                   *)
NotifyStatus(from, msg) ==
  /\ EventStep(from)
  /\ th' = "poll"
  /\ NotifyObservers(msg, m_changed)
  /\ UNCHANGED <<m_tuneEvent, m_status>>

ThreadNext ==
  \/ Dispatch \/ ProcessCancel \/ ProcessIdle \/ CheckIdleEvent \/ FallAsleep \/ CheckEvent
  \/ ProcessTuning \/ PollFrontend
  \/ \E status \in {"none", "sync", "lock"} : ReadStatus(status)
  \/ UpdateLocked \/ UpdateLost
  \/ NotifyStatus("notifyLock", "lock")
  \/ NotifyStatus("notifyLost", "lost")

(* What a client does inside a call it has begun.                           *)
Continue(c) ==
  \/ Cancelled(c) \/ RequestTune(c) \/ SignalTune(c) \/ WaitedForLock(c)
  \/ Cleared(c) \/ Closing(c) \/ Closed(c)

Next ==
  \/ Open
  \/ ThreadNext
  \/ \E c \in Clients :
       \/ Close(c)
       \/ Continue(c)
       \/ \E t \in Transponders : Tune(c, t) \/ ClearTransponder(c, t)

Spec == Init /\ [][Next]_vars

(* The thread and the calls in progress are scheduled; nobody has to call.  *)
FairSpec == Spec /\ WF_vars(ThreadNext) /\ \A c \in Clients : WF_vars(Continue(c))

-----------------------------------------------------------------------------
(* Until Close(), LOCKED means that the frontend was told to tune to        *)
(* m_transponder and has reported a sync since, up to a loss the thread is  *)
(* about to record (TuneDevice(), UpdateFrontendStatus(), Process()).       *)
LockedMeansTuned ==
  m_state = "LOCKED" /\ th # "lost" /\ ~m_bStop =>
    m_transponder # None /\ m_transponder = frontend /\ IsSynced

(* A client that was told its transponder is locked is told of the loss no  *)
(* later than the tuner drops the transponder: every path that resets       *)
(* m_transponder while the tuner is open notifies ChannelLostLock.          *)
NoSilentRetune ==
  ~m_bStop => \A c \in Clients : told[c] # None => m_transponder = told[c]

(* While the thread polls a locked frontend the observers have heard of the *)
(* lock, if calls came one at a time and the thread was not outrun: no call *)
(* then takes SetChanged()'s mark from UpdateFrontendStatus().              *)
LockIsAnnounced ==
  serial /\ prompt /\ m_state = "LOCKED" /\ th \in {"poll", "read"} => lastMessage = "lock"

(* Every call for a transponder with a timeout returns, and so does         *)
(* Close(), if calls come one at a time and the thread is not outrun by the *)
(* timeouts of CancelTuning() and Tune().                                   *)
OrderlyCallsReturn ==
  [](serial /\ prompt) => \A c \in Clients : (at[c] # "out" /\ arg[c] \notin UntypedTransponders) ~> at[c] = "out"

(* "Switch the tuner to the specified transponder": a request Tune() hands  *)
(* to the thread is tried on the frontend, or cancelled by a later call, if *)
(* calls come one at a time and the thread is not outrun.                   *)
RequestsAreTried ==
  [](serial /\ prompt) => \A t \in Transponders : request = t ~> request # t

(* Close() ends the thread, wherever it is in Process(): in particular the  *)
(* wait without a timeout in the IDLE case is always woken, whatever calls  *)
(* came before.                                                             *)
CloseEndsThread == m_bStop ~> th = "ended"

(* "Blocks until transponder is switched (returns true) or the switch       *)
(* fails/times out (returns false)": every call returns, the thread not     *)
(* being outrun by a timeout.                                               *)
CallsReturn ==
  []prompt => \A c \in Clients : at[c] # "out" ~> at[c] = "out"
=============================================================================
