-------------------------- MODULE DvbTunerProofs --------------------------
(***************************************************************************)
(* What holds of cDvbTuner for any number of clients and transponders.     *)
(* The invariant says which states of the state machine the thread can     *)
(* find at each place of Process(), although the clients change the state  *)
(* between any two of its critical sections: they only ever turn it into   *)
(* CANCEL, which only the thread leaves, or into TUNING, and that only     *)
(* while the thread is not polling a frontend.                             *)
(***************************************************************************)
EXTENDS DvbTuner, TLAPS

(* The thread is inside the LOCKING, LOCKED or LOST_LOCK case.              *)
Polling == {"poll", "read", "locked", "notifyLock", "lost", "notifyLost"}

(* TypeOK in three parts: the flags, the thread with the tuner's own state, *)
(* and the calls.                                                           *)
FlagTypes ==
  /\ m_bStop \in BOOLEAN
  /\ m_tuneEvent \in BOOLEAN
  /\ m_tunerIdle \in BOOLEAN
  /\ m_tunedLock \in BOOLEAN
  /\ m_changed \in BOOLEAN
  /\ serial \in BOOLEAN
  /\ prompt \in BOOLEAN

TunerTypes ==
  /\ th \in {"new", "top", "cancel", "idle", "idlewait", "dozing", "asleep", "tuning", "poll",
             "read", "locked", "notifyLock", "lost", "notifyLost", "check", "ended"}
  /\ m_state \in States
  /\ m_transponder \in Transponders \cup {None}
  /\ m_nextTransponder \in Transponders \cup {None}
  /\ frontend \in Transponders \cup {None}
  /\ request \in Transponders \cup {None}
  /\ m_status \in {"none", "sync", "lock"}
  /\ lastMessage \in {"none", "lock", "lost"}

CallTypes ==
  /\ m_stateMutex \in Clients \cup {None}
  /\ m_tuneEventMutex \in Clients \cup {None}
  /\ at \in [Clients -> {"out", "cancelling", "request", "signal", "locking", "clearing",
                         "closing", "stopping"}]
  /\ arg \in [Clients -> Transponders \cup {None}]
  /\ told \in [Clients -> Transponders \cup {None}]

(* Who holds m_stateMutex, what a call carries, and that the destructor's   *)
(* Close() runs alone.                                                      *)
CallInv ==
  /\ \A c \in Clients : at[c] \in {"request", "closing"} => m_stateMutex = c
  /\ \A c \in Clients : at[c] \in {"cancelling", "request", "signal", "locking"} => arg[c] \in Transponders
  /\ \A c \in Clients : at[c] \in {"closing", "stopping"} => m_bStop
  /\ m_bStop => \A c \in Clients : at[c] \in {"out", "closing", "stopping"}
  /\ serial => \A c, d \in Clients : at[c] # "out" /\ at[d] # "out" => c = d

(* What the thread knows where it is, whatever the clients do.              *)
ThreadInv ==
  /\ th = "new" => /\ ~m_bStop
                   /\ m_state \in {"NOT_INITIALISED", "ERROR"}
                   /\ m_transponder = None
                   /\ \A c \in Clients : at[c] = "out"
  /\ th \in Polling => ~m_tunerIdle
  /\ th \in {"locked", "notifyLock"} => IsSynced
  /\ th = "notifyLost" => m_state # "LOCKED"

(* The states the thread can meet until Close(), and the transponder that   *)
(* goes with each of them.                                                  *)
OpenInv ==
  ~m_bStop =>
    /\ th # "new" => m_state \notin {"NOT_INITIALISED", "ERROR"}
    /\ th = "cancel" => m_state = "CANCEL"
    /\ th = "tuning" => m_state \in {"TUNING", "CANCEL"} /\ m_transponder = None
    /\ th \in {"idle", "idlewait", "dozing", "asleep"} => m_state \in {"IDLE", "TUNING", "CANCEL"}
    /\ th \in Polling => m_state \in PollStates \cup {"CANCEL"}
    /\ m_state \in PollStates => ~m_tunerIdle /\ m_transponder # None /\ m_transponder = frontend
    /\ m_state \in {"IDLE", "TUNING", "TUNING_FAILED"} => m_transponder = None
    /\ m_state = "TUNING" => m_nextTransponder # None
    /\ m_state = "LOCKED" => th \in Polling /\ (th # "lost" => IsSynced)
    /\ \A c \in Clients : at[c] = "request" => m_state \notin PollStates

(* SetChanged()'s mark is in place from UpdateFrontendStatus() to the       *)
(* notification, if calls come one at a time and the thread is not outrun.  *)
AnnounceInv ==
  /\ serial => \A c \in Clients : at[c] = "clearing" => m_state \in {"CANCEL", "IDLE"}
  /\ serial /\ prompt /\ th \in {"locked", "notifyLock"} => m_changed

(* The inductive invariant.  The two properties are inductive together with *)
(* the rest; LockedMeansTuned is a part of OpenInv.                         *)
IndInv == FlagTypes /\ TunerTypes /\ CallTypes /\ CallInv /\ ThreadInv /\ OpenInv /\ AnnounceInv
          /\ NoSilentRetune /\ LockIsAnnounced

-----------------------------------------------------------------------------
(* Open() and the clients' calls.                                           *)

(* Open() starts the thread, or leaves the tuner in error.                  *)
LEMMA OpenInd ==
  ASSUME IndInv, Open
  PROVE  IndInv'
<1>1. FlagTypes'
  BY DEF IndInv, FlagTypes, Open, eventVars, clientVars, observerVars
<1>2. TunerTypes'
  BY DEF IndInv, TunerTypes, Open, States, transponderVars, observerVars
<1>3. CallTypes'
  BY DEF IndInv, CallTypes, Open, eventVars, clientVars, observerVars
<1>4. ThreadInv'
  BY DEF IndInv, FlagTypes, ThreadInv, IsSynced, Polling, Open, transponderVars, clientVars
<1>5. OpenInv'
  BY DEF IndInv, FlagTypes, ThreadInv, OpenInv, Polling, PollStates, Open, transponderVars
<1>6. AnnounceInv'
  BY DEF IndInv, FlagTypes, AnnounceInv, Open, clientVars, observerVars
<1>7. LockIsAnnounced'
  BY DEF IndInv, FlagTypes, LockIsAnnounced, Open
<1>8. CallInv' /\ NoSilentRetune'
  BY DEF IndInv, CallInv, NoSilentRetune, Open, transponderVars, clientVars, observerVars
<1> QED
  BY <1>1, <1>2, <1>3, <1>4, <1>5, <1>6, <1>7, <1>8 DEF IndInv

(* Tune() cancels what goes on; nothing is announced to its client before   *)
(* its own lock.                                                            *)
LEMMA TuneInd ==
  ASSUME IndInv, NEW c \in Clients, NEW t \in Transponders, Tune(c, t)
  PROVE  IndInv'
<1>1. FlagTypes'
  BY DEF IndInv, FlagTypes, Tune, BeginCancel, BeginCall
<1>2. TunerTypes'
  BY DEF IndInv, TunerTypes, Tune, BeginCancel, SignalThread, States, transponderVars
<1>3. CallTypes'
  BY DEF IndInv, CallTypes, Tune, Enter
<1>4. CallInv'
  BY NoneAssumption DEF IndInv, FlagTypes, CallTypes, CallInv, StateFree, Tune, IsOpen, Enter, BeginCall
<1>5. ThreadInv'
  BY DEF IndInv, FlagTypes, ThreadInv, IsSynced, Polling, Tune, IsOpen, BeginCancel, SignalThread, transponderVars
<1>6. OpenInv'
  BY DEF IndInv, FlagTypes, OpenInv, PollStates, Tune, BeginCancel, SignalThread, transponderVars
<1>7. AnnounceInv'
  BY DEF IndInv, FlagTypes, AnnounceInv, Tune, BeginCancel, SignalThread, BeginCall
<1>8. NoSilentRetune'
  BY DEF IndInv, FlagTypes, NoSilentRetune, Tune, transponderVars
<1>9. LockIsAnnounced'
  BY DEF IndInv, FlagTypes, LockIsAnnounced, Tune, BeginCancel
<1> QED
  BY <1>1, <1>2, <1>3, <1>4, <1>5, <1>6, <1>7, <1>8, <1>9 DEF IndInv

(* CancelTuning() returns to Tune(), or has timed out.                      *)
LEMMA CancelledInd ==
  ASSUME IndInv, NEW c \in Clients, Cancelled(c)
  PROVE  IndInv'
<1>1. FlagTypes'
  BY DEF IndInv, FlagTypes, Cancelled, InTime, TimedOut, threadVars, eventVars, observerVars
<1>2. TunerTypes'
  BY DEF IndInv, TunerTypes, Cancelled, threadVars, transponderVars, observerVars
<1>3. CallTypes'
  BY DEF IndInv, CallTypes, Cancelled, Enter, Return, eventVars, observerVars
<1>4. CallInv'
  BY NoneAssumption DEF IndInv, FlagTypes, CallTypes, CallInv, StateFree, Cancelled, Enter, Return, InTime,
                        TimedOut, threadVars
<1>5. ThreadInv'
  BY DEF IndInv, FlagTypes, ThreadInv, IsSynced, Cancelled, threadVars, transponderVars
<1>6. OpenInv'
  BY DEF IndInv, FlagTypes, CallTypes, OpenInv, IsSynced, Cancelled, Enter, Return, threadVars, transponderVars
<1>7. AnnounceInv'
  BY DEF IndInv, FlagTypes, CallTypes, AnnounceInv, Cancelled, Enter, Return, InTime, TimedOut, threadVars,
         observerVars
<1>8. LockIsAnnounced'
  BY DEF IndInv, FlagTypes, LockIsAnnounced, Cancelled, InTime, TimedOut, threadVars, observerVars
<1>9. NoSilentRetune'
  BY DEF IndInv, NoSilentRetune, Cancelled, threadVars, transponderVars, observerVars
<1> QED
  BY <1>1, <1>2, <1>3, <1>4, <1>5, <1>6, <1>7, <1>8, <1>9 DEF IndInv

(* The request is handed to the thread, which is not polling then.          *)
LEMMA RequestTuneInd ==
  ASSUME IndInv, NEW c \in Clients, RequestTune(c)
  PROVE  IndInv'
<1>1. FlagTypes'
  BY DEF IndInv, FlagTypes, RequestTune, InTime, threadVars, observerVars
<1>2. TunerTypes'
  BY DEF IndInv, TunerTypes, CallTypes, RequestTune, SetState, States, threadVars, observerVars
<1>3. CallTypes'
  BY DEF IndInv, CallTypes, RequestTune, Enter, observerVars
<1>4. CallInv'
  BY DEF IndInv, FlagTypes, CallTypes, CallInv, RequestTune, Enter, InTime, threadVars
<1>5. ThreadInv'
  BY DEF IndInv, FlagTypes, ThreadInv, IsSynced, RequestTune, SetState, threadVars
<1>6. OpenInv'
  BY NoneAssumption DEF IndInv, FlagTypes, TunerTypes, CallInv, ThreadInv, OpenInv, PollStates, States, RequestTune,
                        SetState, threadVars
<1>7. AnnounceInv'
  BY DEF IndInv, FlagTypes, CallInv, AnnounceInv, RequestTune, Enter, InTime, threadVars, observerVars
<1>8. LockIsAnnounced'
  BY DEF IndInv, FlagTypes, LockIsAnnounced, RequestTune, SetState
<1>9. NoSilentRetune'
  BY DEF IndInv, NoSilentRetune, RequestTune, threadVars, observerVars
<1> QED
  BY <1>1, <1>2, <1>3, <1>4, <1>5, <1>6, <1>7, <1>8, <1>9 DEF IndInv

(* Only a client that finds its own transponder LOCKED is told so.          *)
LEMMA SignalTuneInd ==
  ASSUME IndInv, NEW c \in Clients, SignalTune(c)
  PROVE  IndInv'
<1>1. FlagTypes'
  BY DEF IndInv, FlagTypes, SignalTune, InTime
<1>2. TunerTypes'
  BY DEF IndInv, TunerTypes, SignalTune, SignalThread, transponderVars
<1>3. CallTypes'
  BY DEF IndInv, CallTypes, SignalTune, Enter, Return, TuneResult
<1>4. CallInv'
  BY DEF IndInv, FlagTypes, CallTypes, CallInv, SignalTune, InTime, Enter, Return
<1>5. ThreadInv'
  BY DEF IndInv, FlagTypes, ThreadInv, IsSynced, Polling, SignalTune, SignalThread, transponderVars
<1>6. OpenInv'
  BY DEF IndInv, FlagTypes, CallTypes, OpenInv, IsSynced, Polling, SignalTune, SignalThread, Enter, Return,
         transponderVars
<1>7. AnnounceInv'
  BY DEF IndInv, FlagTypes, CallTypes, AnnounceInv, SignalTune, SignalThread, InTime, Enter, Return
<1>8. NoSilentRetune'
  BY DEF IndInv, FlagTypes, CallTypes, NoSilentRetune, SignalTune, TuneResult, transponderVars
<1>9. LockIsAnnounced'
  BY DEF IndInv, FlagTypes, LockIsAnnounced, SignalTune, SignalThread, InTime
<1> QED
  BY <1>1, <1>2, <1>3, <1>4, <1>5, <1>6, <1>7, <1>8, <1>9 DEF IndInv

(* The same at the end of the wait for the lock.                            *)
LEMMA WaitedForLockInd ==
  ASSUME IndInv, NEW c \in Clients, WaitedForLock(c)
  PROVE  IndInv'
<1>1. FlagTypes'
  BY DEF IndInv, FlagTypes, WaitedForLock, InTime, TimedOut, threadVars, eventVars
<1>2. TunerTypes'
  BY DEF IndInv, TunerTypes, WaitedForLock, threadVars, transponderVars
<1>3. CallTypes'
  BY DEF IndInv, CallTypes, WaitedForLock, Enter, Return, TuneResult, eventVars
<1>4. CallInv'
  BY DEF IndInv, FlagTypes, CallTypes, CallInv, WaitedForLock, InTime, TimedOut, Enter, Return, threadVars
<1>5. ThreadInv'
  BY DEF IndInv, FlagTypes, ThreadInv, IsSynced, WaitedForLock, threadVars, transponderVars
<1>6. OpenInv'
  BY DEF IndInv, FlagTypes, OpenInv, IsSynced, WaitedForLock, Enter, Return, threadVars, transponderVars
<1>7. AnnounceInv'
  BY DEF IndInv, FlagTypes, AnnounceInv, WaitedForLock, InTime, TimedOut, Enter, Return, threadVars
<1>8. NoSilentRetune'
  BY DEF IndInv, FlagTypes, CallTypes, NoSilentRetune, WaitedForLock, TuneResult, threadVars, transponderVars
<1>9. LockIsAnnounced'
  BY DEF IndInv, FlagTypes, LockIsAnnounced, WaitedForLock, InTime, TimedOut, threadVars
<1> QED
  BY <1>1, <1>2, <1>3, <1>4, <1>5, <1>6, <1>7, <1>8, <1>9 DEF IndInv

(* ClearTransponder() tells every client of the loss, or sets the mark and  *)
(* waits.                                                                   *)
LEMMA ClearTransponderInd ==
  ASSUME IndInv, NEW c \in Clients, NEW t \in Transponders, ClearTransponder(c, t)
  PROVE  IndInv'
<1>1. FlagTypes'
  BY DEF IndInv, FlagTypes, ClearTransponder, BeginCall, BeginCancel, NotifyObservers
<1>2. TunerTypes'
  BY DEF IndInv, TunerTypes, ClearTransponder, BeginCancel, SignalThread, NotifyObservers, States, transponderVars
<1>3. CallTypes'
  BY DEF IndInv, CallTypes, ClearTransponder, NotifyObservers, Enter
<1>4. CallInv'
  BY DEF IndInv, FlagTypes, CallTypes, CallInv, ClearTransponder, BeginCall, NotifyObservers, Enter
<1>5. ThreadInv'
  BY NoneAssumption DEF IndInv, FlagTypes, ThreadInv, IsSynced, Polling, ClearTransponder, BeginCancel,
                        SignalThread, transponderVars
<1>6. OpenInv'
  BY DEF IndInv, FlagTypes, OpenInv, PollStates, ClearTransponder, BeginCancel, SignalThread, transponderVars
<1>7. AnnounceInv'
  BY DEF IndInv, FlagTypes, ThreadInv, OpenInv, AnnounceInv, Polling, ClearTransponder, BeginCancel, SignalThread,
         NoWait
<1>8. NoSilentRetune'
  BY DEF IndInv, FlagTypes, NoSilentRetune, ClearTransponder, NotifyObservers, transponderVars
<1>9. LockIsAnnounced'
  BY DEF IndInv, FlagTypes, LockIsAnnounced, ClearTransponder, BeginCancel
<1> QED
  BY <1>1, <1>2, <1>3, <1>4, <1>5, <1>6, <1>7, <1>8, <1>9 DEF IndInv

(* A wait that times out while the thread is on its way to the notification *)
(* is not prompt.                                                           *)
LEMMA ClearedInd ==
  ASSUME IndInv, NEW c \in Clients, Cleared(c)
  PROVE  IndInv'
<1>1. FlagTypes'
  BY DEF IndInv, FlagTypes, Cleared, InTime, TimedOut, NotifyObservers, threadVars, eventVars
<1>2. TunerTypes'
  BY DEF IndInv, TunerTypes, Cleared, NotifyObservers, threadVars, transponderVars
<1>3. CallTypes'
  BY DEF IndInv, CallTypes, Cleared, NotifyObservers, Enter, Return, eventVars
<1>4. CallInv'
  BY DEF IndInv, FlagTypes, CallInv, StateFree, Cleared, InTime, TimedOut, Enter, Return, threadVars
<1>5. ThreadInv'
  BY DEF IndInv, FlagTypes, ThreadInv, IsSynced, Cleared, threadVars, transponderVars
<1>6. OpenInv'
  BY DEF IndInv, FlagTypes, OpenInv, IsSynced, Cleared, Enter, Return, threadVars, transponderVars
<1>7. AnnounceInv'
  BY DEF IndInv, FlagTypes, ThreadInv, AnnounceInv, Polling, Cleared, InTime, TimedOut, ThreadAtRest, threadVars
<1>8. NoSilentRetune'
  BY DEF IndInv, FlagTypes, NoSilentRetune, Cleared, NotifyObservers, threadVars, transponderVars
<1>9. LockIsAnnounced'
  BY DEF IndInv, FlagTypes, AnnounceInv, LockIsAnnounced, Cleared, InTime, TimedOut
<1> QED
  BY <1>1, <1>2, <1>3, <1>4, <1>5, <1>6, <1>7, <1>8, <1>9 DEF IndInv

(* Close() runs alone.                                                      *)
LEMMA CloseInd ==
  ASSUME IndInv, NEW c \in Clients, Close(c)
  PROVE  IndInv'
<1>1. FlagTypes'
  BY DEF IndInv, FlagTypes, Close, InTime, eventVars, observerVars
<1>2. TunerTypes'
  BY DEF IndInv, TunerTypes, Close, transponderVars, observerVars
<1>3. CallTypes'
  BY DEF IndInv, CallTypes, Close, Enter, eventVars, observerVars
<1>4. CallInv'
  BY DEF IndInv, FlagTypes, CallInv, Close, Enter
<1>5. ThreadInv'
  BY DEF IndInv, FlagTypes, ThreadInv, IsSynced, Close, IsOpen, transponderVars
<1>6. OpenInv'
  BY DEF IndInv, FlagTypes, OpenInv, Close
<1>7. AnnounceInv'
  BY DEF IndInv, FlagTypes, AnnounceInv, Close, Enter, InTime, observerVars
<1>8. NoSilentRetune'
  BY DEF IndInv, FlagTypes, NoSilentRetune, Close
<1>9. LockIsAnnounced'
  BY DEF IndInv, LockIsAnnounced, Close, InTime, observerVars
<1> QED
  BY <1>1, <1>2, <1>3, <1>4, <1>5, <1>6, <1>7, <1>8, <1>9 DEF IndInv

(* It holds m_stateMutex on its way to m_tuneEventMutex.                    *)
LEMMA ClosingInd ==
  ASSUME IndInv, NEW c \in Clients, Closing(c)
  PROVE  IndInv'
<1>1. FlagTypes'
  BY DEF IndInv, FlagTypes, Closing, BeginCancel, InTime, observerVars
<1>2. TunerTypes'
  BY DEF IndInv, TunerTypes, Closing, BeginCancel, SignalThread, States, transponderVars, observerVars
<1>3. CallTypes'
  BY DEF IndInv, CallTypes, Closing, Enter, observerVars
<1>4. CallInv'
  BY DEF IndInv, FlagTypes, CallTypes, CallInv, Closing, Enter, InTime
<1>5. ThreadInv'
  BY DEF IndInv, FlagTypes, ThreadInv, IsSynced, Polling, Closing, BeginCancel, SignalThread, transponderVars
<1>6. OpenInv'
  BY DEF IndInv, FlagTypes, OpenInv, PollStates, Closing, BeginCancel, SignalThread, transponderVars
<1>7. AnnounceInv'
  BY DEF IndInv, FlagTypes, AnnounceInv, Closing, BeginCancel, SignalThread, InTime, observerVars
<1>8. LockIsAnnounced'
  BY DEF IndInv, FlagTypes, LockIsAnnounced, Closing, BeginCancel
<1>9. NoSilentRetune'
  BY DEF IndInv, NoSilentRetune, Closing, transponderVars, observerVars
<1> QED
  BY <1>1, <1>2, <1>3, <1>4, <1>5, <1>6, <1>7, <1>8, <1>9 DEF IndInv

(* After it nothing is promised of the transponder.                         *)
LEMMA ClosedInd ==
  ASSUME IndInv, NEW c \in Clients, Closed(c)
  PROVE  IndInv'
<1>1. FlagTypes'
  BY DEF IndInv, FlagTypes, Closed, InTime, TimedOut, observerVars
<1>2. TunerTypes'
  BY DEF IndInv, TunerTypes, Closed, SignalThread, States, observerVars
<1>3. CallTypes'
  BY DEF IndInv, CallTypes, Closed, Enter, Return, observerVars
<1>4. CallInv'
  BY DEF IndInv, FlagTypes, CallInv, StateFree, Closed, InTime, TimedOut, Enter, Return
<1>5. ThreadInv'
  BY DEF IndInv, FlagTypes, ThreadInv, IsSynced, Polling, Closed, SignalThread
<1>6. OpenInv'
  BY DEF IndInv, FlagTypes, CallInv, OpenInv, Closed
<1>7. AnnounceInv'
  BY DEF IndInv, FlagTypes, CallInv, AnnounceInv, Closed, InTime, TimedOut, SignalThread, Enter, Return, observerVars
<1>8. NoSilentRetune'
  BY DEF IndInv, FlagTypes, CallInv, NoSilentRetune, Closed
<1>9. LockIsAnnounced'
  BY DEF IndInv, FlagTypes, LockIsAnnounced, Closed
<1> QED
  BY <1>1, <1>2, <1>3, <1>4, <1>5, <1>6, <1>7, <1>8, <1>9 DEF IndInv

-----------------------------------------------------------------------------
(* The thread.                                                              *)

(* The dispatch on State(): what is found is what the invariant says of     *)
(* each case.                                                               *)
LEMMA DispatchInd ==
  ASSUME IndInv, Dispatch
  PROVE  IndInv'
<1>1. FlagTypes'
  BY DEF IndInv, FlagTypes, Dispatch, ThreadStep, observerVars, clientVars
<1>2. TunerTypes'
  BY DEF IndInv, TunerTypes, Dispatch, transponderVars, observerVars
<1>3. CallTypes'
  BY DEF IndInv, CallTypes, Dispatch, ThreadStep, observerVars, clientVars
<1>4. ThreadInv'
  BY DEF IndInv, FlagTypes, ThreadInv, OpenInv, Polling, Dispatch
<1>5. OpenInv'
  BY DEF IndInv, FlagTypes, OpenInv, Polling, Dispatch, ThreadStep, transponderVars, clientVars
<1>6. AnnounceInv'
  BY DEF IndInv, FlagTypes, AnnounceInv, Dispatch, ThreadStep, clientVars
<1>7. LockIsAnnounced'
  BY DEF IndInv, FlagTypes, OpenInv, LockIsAnnounced, Polling, Dispatch, ThreadStep
<1>8. CallInv' /\ NoSilentRetune'
  BY DEF IndInv, CallInv, NoSilentRetune, Dispatch, ThreadStep, transponderVars, observerVars, clientVars
<1> QED
  BY <1>1, <1>2, <1>3, <1>4, <1>5, <1>6, <1>7, <1>8 DEF IndInv

(* The transponder is dropped and the loss announced in one critical        *)
(* section.                                                                 *)
LEMMA ProcessCancelInd ==
  ASSUME IndInv, ProcessCancel
  PROVE  IndInv'
<1>1. FlagTypes'
  BY DEF IndInv, FlagTypes, ProcessCancel, ThreadStep, NotifyObservers, clientVars
<1>2. TunerTypes'
  BY DEF IndInv, TunerTypes, ProcessCancel, NotifyObservers, SetState, States
<1>3. CallTypes'
  BY DEF IndInv, CallTypes, ProcessCancel, ThreadStep, NotifyObservers, clientVars
<1>4. ThreadInv'
  BY DEF IndInv, FlagTypes, ThreadInv, Polling, ProcessCancel
<1>5. OpenInv'
  BY DEF IndInv, FlagTypes, OpenInv, Polling, PollStates, ProcessCancel, SetState
<1>6. AnnounceInv'
  BY DEF IndInv, FlagTypes, AnnounceInv, ProcessCancel, SetState
<1>7. NoSilentRetune'
  BY DEF IndInv, FlagTypes, NoSilentRetune, ProcessCancel, NotifyObservers
<1>8. LockIsAnnounced'
  BY DEF IndInv, FlagTypes, LockIsAnnounced, ProcessCancel
<1>9. CallInv'
  BY DEF IndInv, CallInv, ProcessCancel, ThreadStep, clientVars
<1> QED
  BY <1>1, <1>2, <1>3, <1>4, <1>5, <1>6, <1>7, <1>8, <1>9 DEF IndInv

(* The tuner is idle.                                                       *)
LEMMA ProcessIdleInd ==
  ASSUME IndInv, ProcessIdle
  PROVE  IndInv'
<1>1. FlagTypes'
  BY DEF IndInv, FlagTypes, ProcessIdle, ThreadStep, observerVars, clientVars
<1>2. TunerTypes'
  BY DEF IndInv, TunerTypes, ProcessIdle, transponderVars, observerVars
<1>3. CallTypes'
  BY DEF IndInv, CallTypes, ProcessIdle, ThreadStep, observerVars, clientVars
<1>4. ThreadInv'
  BY DEF IndInv, FlagTypes, ThreadInv, Polling, ProcessIdle
<1>5. OpenInv'
  BY DEF IndInv, FlagTypes, OpenInv, Polling, PollStates, ProcessIdle, ThreadStep, transponderVars
<1>6. AnnounceInv'
  BY DEF IndInv, FlagTypes, AnnounceInv, ProcessIdle, ThreadStep, clientVars
<1>7. LockIsAnnounced'
  BY DEF IndInv, FlagTypes, LockIsAnnounced, ProcessIdle
<1>8. CallInv' /\ NoSilentRetune'
  BY DEF IndInv, CallInv, NoSilentRetune, ProcessIdle, ThreadStep, transponderVars, observerVars, clientVars
<1> QED
  BY <1>1, <1>2, <1>3, <1>4, <1>5, <1>6, <1>7, <1>8 DEF IndInv

(* CheckEvent() of the IDLE case.                                           *)
LEMMA CheckIdleEventInd ==
  ASSUME IndInv, CheckIdleEvent
  PROVE  IndInv'
<1>1. FlagTypes'
  BY DEF IndInv, FlagTypes, CheckIdleEvent, EventStep, observerVars, clientVars
<1>2. TunerTypes'
  BY DEF IndInv, TunerTypes, CheckIdleEvent, EventStep, observerVars
<1>3. CallTypes'
  BY DEF IndInv, CallTypes, CheckIdleEvent, EventStep, observerVars, clientVars
<1>4. ThreadInv'
  BY DEF IndInv, FlagTypes, ThreadInv, Polling, CheckIdleEvent
<1>5. OpenInv'
  BY DEF IndInv, FlagTypes, OpenInv, Polling, CheckIdleEvent, EventStep, clientVars
<1>6. AnnounceInv'
  BY DEF IndInv, FlagTypes, AnnounceInv, CheckIdleEvent, EventStep, clientVars
<1>7. LockIsAnnounced'
  BY DEF IndInv, FlagTypes, LockIsAnnounced, CheckIdleEvent
<1>8. CallInv' /\ NoSilentRetune'
  BY DEF IndInv, CallInv, NoSilentRetune, CheckIdleEvent, EventStep, observerVars, clientVars
<1> QED
  BY <1>1, <1>2, <1>3, <1>4, <1>5, <1>6, <1>7, <1>8 DEF IndInv

(* The wait of the IDLE case begins.                                        *)
LEMMA FallAsleepInd ==
  ASSUME IndInv, FallAsleep
  PROVE  IndInv'
<1>1. FlagTypes'
  BY DEF IndInv, FlagTypes, FallAsleep, EventStep, observerVars, clientVars
<1>2. TunerTypes'
  BY DEF IndInv, TunerTypes, FallAsleep, EventStep, observerVars
<1>3. CallTypes'
  BY DEF IndInv, CallTypes, FallAsleep, EventStep, observerVars, clientVars
<1>4. ThreadInv'
  BY DEF IndInv, FlagTypes, ThreadInv, Polling, FallAsleep
<1>5. OpenInv'
  BY DEF IndInv, FlagTypes, OpenInv, Polling, FallAsleep, EventStep, clientVars
<1>6. AnnounceInv'
  BY DEF IndInv, FlagTypes, AnnounceInv, FallAsleep, EventStep, clientVars
<1>7. LockIsAnnounced'
  BY DEF IndInv, FlagTypes, LockIsAnnounced, FallAsleep
<1>8. CallInv' /\ NoSilentRetune'
  BY DEF IndInv, CallInv, NoSilentRetune, FallAsleep, EventStep, observerVars, clientVars
<1> QED
  BY <1>1, <1>2, <1>3, <1>4, <1>5, <1>6, <1>7, <1>8 DEF IndInv

(* CheckEvent() at the foot of the loop.                                    *)
LEMMA CheckEventInd ==
  ASSUME IndInv, CheckEvent
  PROVE  IndInv'
<1>1. FlagTypes'
  BY DEF IndInv, FlagTypes, CheckEvent, EventStep, observerVars, clientVars
<1>2. TunerTypes'
  BY DEF IndInv, TunerTypes, CheckEvent, EventStep, observerVars
<1>3. CallTypes'
  BY DEF IndInv, CallTypes, CheckEvent, EventStep, observerVars, clientVars
<1>4. ThreadInv'
  BY DEF IndInv, FlagTypes, ThreadInv, Polling, CheckEvent
<1>5. OpenInv'
  BY DEF IndInv, FlagTypes, OpenInv, Polling, CheckEvent, EventStep, clientVars
<1>6. AnnounceInv'
  BY DEF IndInv, FlagTypes, AnnounceInv, CheckEvent, EventStep, clientVars
<1>7. LockIsAnnounced'
  BY DEF IndInv, FlagTypes, LockIsAnnounced, CheckEvent
<1>8. CallInv' /\ NoSilentRetune'
  BY DEF IndInv, CallInv, NoSilentRetune, CheckEvent, EventStep, observerVars, clientVars
<1> QED
  BY <1>1, <1>2, <1>3, <1>4, <1>5, <1>6, <1>7, <1>8 DEF IndInv

(* TuneDevice() is only called with no transponder set, so it drops none.   *)
LEMMA ProcessTuningInd ==
  ASSUME IndInv, ProcessTuning
  PROVE  IndInv'
<1>1. FlagTypes'
  BY DEF IndInv, FlagTypes, ProcessTuning, ThreadStep, observerVars, clientVars
<1>2. TunerTypes'
  BY DEF IndInv, TunerTypes, ProcessTuning, TuneDevice, SetState, States, observerVars, transponderVars
<1>3. CallTypes'
  BY DEF IndInv, CallTypes, ProcessTuning, ThreadStep, observerVars, clientVars
<1>4. ThreadInv'
  BY DEF IndInv, FlagTypes, ThreadInv, ProcessTuning
<1>5. OpenInv'
  BY NoneAssumption DEF IndInv, FlagTypes, CallInv, OpenInv, StateFree, Polling, PollStates, ProcessTuning,
                        ThreadStep, TuneDevice, SetState, clientVars, transponderVars
<1>6. AnnounceInv'
  BY DEF IndInv, FlagTypes, CallInv, OpenInv, AnnounceInv, ProcessTuning, ThreadStep, SetState, clientVars
<1>7. NoSilentRetune'
  BY DEF IndInv, FlagTypes, OpenInv, NoSilentRetune, ProcessTuning, ThreadStep, observerVars
<1>8. LockIsAnnounced'
  BY DEF IndInv, FlagTypes, LockIsAnnounced, ProcessTuning
<1>9. CallInv'
  BY DEF IndInv, CallInv, ProcessTuning, ThreadStep, clientVars
<1> QED
  BY <1>1, <1>2, <1>3, <1>4, <1>5, <1>6, <1>7, <1>8, <1>9 DEF IndInv

(* The loop of the polling cases ends with CANCEL.                          *)
LEMMA PollFrontendInd ==
  ASSUME IndInv, PollFrontend
  PROVE  IndInv'
<1>1. FlagTypes'
  BY DEF IndInv, FlagTypes, PollFrontend, ThreadStep, observerVars, clientVars
<1>2. TunerTypes'
  BY DEF IndInv, TunerTypes, CallTypes, PollFrontend, transponderVars, observerVars
<1>3. CallTypes'
  BY DEF IndInv, CallTypes, PollFrontend, ThreadStep, observerVars, clientVars
<1>4. ThreadInv'
  BY DEF IndInv, FlagTypes, ThreadInv, Polling, PollFrontend, ThreadStep
<1>5. OpenInv'
  BY DEF IndInv, FlagTypes, OpenInv, IsSynced, Polling, PollFrontend, ThreadStep, transponderVars, clientVars
<1>6. AnnounceInv'
  BY DEF IndInv, FlagTypes, AnnounceInv, PollFrontend, ThreadStep, clientVars
<1>7. LockIsAnnounced'
  BY DEF IndInv, FlagTypes, LockIsAnnounced, PollFrontend, ThreadStep, observerVars, clientVars
<1>8. CallInv' /\ NoSilentRetune'
  BY DEF IndInv, CallInv, NoSilentRetune, PollFrontend, ThreadStep, transponderVars, observerVars, clientVars
<1> QED
  BY <1>1, <1>2, <1>3, <1>4, <1>5, <1>6, <1>7, <1>8 DEF IndInv

(* A change of the sync sets the mark.                                      *)
LEMMA ReadStatusInd ==
  ASSUME IndInv, NEW status \in {"none", "sync", "lock"}, ReadStatus(status)
  PROVE  IndInv'
<1>1. FlagTypes'
  BY DEF IndInv, FlagTypes, ReadStatus, EventStep, clientVars
<1>2. TunerTypes'
  BY DEF IndInv, TunerTypes, ReadStatus, EventStep
<1>3. CallTypes'
  BY DEF IndInv, CallTypes, ReadStatus, EventStep, clientVars
<1>4. ThreadInv'
  BY DEF IndInv, FlagTypes, ThreadInv, IsSynced, Polling, ReadStatus, EventStep
<1>5. OpenInv'
  BY DEF IndInv, FlagTypes, OpenInv, IsSynced, Polling, ReadStatus, EventStep, clientVars
<1>6. AnnounceInv'
  BY DEF IndInv, FlagTypes, AnnounceInv, ReadStatus, EventStep, clientVars
<1>7. LockIsAnnounced'
  BY DEF IndInv, FlagTypes, LockIsAnnounced, ReadStatus, EventStep, clientVars
<1>8. CallInv' /\ NoSilentRetune'
  BY DEF IndInv, CallInv, NoSilentRetune, ReadStatus, EventStep, clientVars
<1> QED
  BY <1>1, <1>2, <1>3, <1>4, <1>5, <1>6, <1>7, <1>8 DEF IndInv

(* LOCKED is set after a sync, unless a call has cancelled.                 *)
LEMMA UpdateLockedInd ==
  ASSUME IndInv, UpdateLocked
  PROVE  IndInv'
<1>1. FlagTypes'
  BY DEF IndInv, FlagTypes, UpdateLocked, ThreadStep, observerVars, clientVars
<1>2. TunerTypes'
  BY DEF IndInv, TunerTypes, UpdateLocked, SetState, States, transponderVars, observerVars
<1>3. CallTypes'
  BY DEF IndInv, CallTypes, UpdateLocked, ThreadStep, observerVars, clientVars
<1>4. ThreadInv'
  BY DEF IndInv, FlagTypes, ThreadInv, IsSynced, Polling, UpdateLocked, ThreadStep, transponderVars
<1>5. OpenInv'
  BY DEF IndInv, FlagTypes, ThreadInv, OpenInv, IsSynced, Polling, PollStates, UpdateLocked, ThreadStep, SetState,
         transponderVars, clientVars
<1>6. AnnounceInv'
  BY DEF IndInv, FlagTypes, CallInv, OpenInv, AnnounceInv, Polling, UpdateLocked, ThreadStep, SetState,
         observerVars, clientVars
<1>7. LockIsAnnounced'
  BY DEF IndInv, FlagTypes, LockIsAnnounced, UpdateLocked
<1>8. CallInv' /\ NoSilentRetune'
  BY DEF IndInv, CallInv, NoSilentRetune, UpdateLocked, ThreadStep, transponderVars, observerVars, clientVars
<1> QED
  BY <1>1, <1>2, <1>3, <1>4, <1>5, <1>6, <1>7, <1>8 DEF IndInv

(* LOST_LOCK is set before the loss is announced.                           *)
LEMMA UpdateLostInd ==
  ASSUME IndInv, UpdateLost
  PROVE  IndInv'
<1>1. FlagTypes'
  BY DEF IndInv, FlagTypes, UpdateLost, ThreadStep, observerVars, clientVars
<1>2. TunerTypes'
  BY DEF IndInv, TunerTypes, UpdateLost, SetState, States, transponderVars, observerVars
<1>3. CallTypes'
  BY DEF IndInv, CallTypes, UpdateLost, ThreadStep, observerVars, clientVars
<1>4. ThreadInv'
  BY DEF IndInv, FlagTypes, ThreadInv, Polling, UpdateLost, ThreadStep, SetState
<1>5. OpenInv'
  BY DEF IndInv, FlagTypes, OpenInv, Polling, PollStates, UpdateLost, ThreadStep, SetState, transponderVars,
         clientVars
<1>6. AnnounceInv'
  BY DEF IndInv, FlagTypes, CallInv, OpenInv, AnnounceInv, Polling, UpdateLost, ThreadStep, SetState, clientVars
<1>7. LockIsAnnounced'
  BY DEF IndInv, FlagTypes, LockIsAnnounced, UpdateLost
<1>8. CallInv' /\ NoSilentRetune'
  BY DEF IndInv, CallInv, NoSilentRetune, UpdateLost, ThreadStep, transponderVars, observerVars, clientVars
<1> QED
  BY <1>1, <1>2, <1>3, <1>4, <1>5, <1>6, <1>7, <1>8 DEF IndInv

(* The lock is announced, the mark being in place.                          *)
LEMMA NotifyLockInd ==
  ASSUME IndInv, NotifyStatus("notifyLock", "lock")
  PROVE  IndInv'
<1>1. FlagTypes'
  BY DEF IndInv, FlagTypes, NotifyStatus, EventStep, NotifyObservers, clientVars
<1>2. TunerTypes'
  BY DEF IndInv, TunerTypes, NotifyStatus, EventStep, NotifyObservers
<1>3. CallTypes'
  BY DEF IndInv, CallTypes, NotifyStatus, EventStep, NotifyObservers, clientVars
<1>4. ThreadInv'
  BY DEF IndInv, FlagTypes, ThreadInv, Polling, NotifyStatus, EventStep
<1>5. OpenInv'
  BY DEF IndInv, FlagTypes, OpenInv, IsSynced, Polling, NotifyStatus, EventStep, clientVars
<1>6. AnnounceInv'
  BY DEF IndInv, FlagTypes, AnnounceInv, NotifyStatus, EventStep, clientVars
<1>7. NoSilentRetune'
  BY DEF IndInv, FlagTypes, NoSilentRetune, NotifyStatus, EventStep, NotifyObservers
<1>8. LockIsAnnounced'
  BY DEF IndInv, FlagTypes, AnnounceInv, LockIsAnnounced, NotifyStatus, EventStep, NotifyObservers, clientVars
<1>9. CallInv'
  BY DEF IndInv, CallInv, NotifyStatus, EventStep, clientVars
<1> QED
  BY <1>1, <1>2, <1>3, <1>4, <1>5, <1>6, <1>7, <1>8, <1>9 DEF IndInv

(* So is the loss.                                                          *)
LEMMA NotifyLostInd ==
  ASSUME IndInv, NotifyStatus("notifyLost", "lost")
  PROVE  IndInv'
<1>1. FlagTypes'
  BY DEF IndInv, FlagTypes, NotifyStatus, EventStep, NotifyObservers, clientVars
<1>2. TunerTypes'
  BY DEF IndInv, TunerTypes, NotifyStatus, EventStep, NotifyObservers
<1>3. CallTypes'
  BY DEF IndInv, CallTypes, NotifyStatus, EventStep, NotifyObservers, clientVars
<1>4. ThreadInv'
  BY DEF IndInv, FlagTypes, ThreadInv, Polling, NotifyStatus, EventStep
<1>5. OpenInv'
  BY DEF IndInv, FlagTypes, OpenInv, IsSynced, Polling, NotifyStatus, EventStep, clientVars
<1>6. AnnounceInv'
  BY DEF IndInv, FlagTypes, AnnounceInv, NotifyStatus, EventStep, clientVars
<1>7. NoSilentRetune'
  BY DEF IndInv, FlagTypes, NoSilentRetune, NotifyStatus, EventStep, NotifyObservers
<1>8. LockIsAnnounced'
  BY DEF IndInv, FlagTypes, ThreadInv, LockIsAnnounced, NotifyStatus, EventStep
<1>9. CallInv'
  BY DEF IndInv, CallInv, NotifyStatus, EventStep, clientVars
<1> QED
  BY <1>1, <1>2, <1>3, <1>4, <1>5, <1>6, <1>7, <1>8, <1>9 DEF IndInv

-----------------------------------------------------------------------------
(* The theorems.                                                            *)

(* The three parts make the type invariant.                                 *)
LEMMA TypeParts == FlagTypes /\ TunerTypes /\ CallTypes => TypeOK
BY DEF TypeOK, FlagTypes, TunerTypes, CallTypes

(* The tuner starts with no thread and no call.                             *)
LEMMA InitInd == Init => IndInv
<1> SUFFICES ASSUME Init PROVE IndInv
  OBVIOUS
<1>1. FlagTypes
  BY Zenon DEF Init, FlagTypes
<1>2. TunerTypes
  BY DEF Init, TunerTypes, States
<1>3. CallTypes
  BY DEF Init, CallTypes
<1>4. CallInv
  BY DEF Init, CallInv
<1>5. ThreadInv /\ OpenInv
  BY DEF Init, ThreadInv, OpenInv, Polling, PollStates
<1>6. AnnounceInv /\ LockIsAnnounced
  BY DEF Init, AnnounceInv, LockIsAnnounced
<1>7. NoSilentRetune
  BY DEF Init, NoSilentRetune
<1> QED
  BY <1>1, <1>2, <1>3, <1>4, <1>5, <1>6, <1>7 DEF IndInv

(* Every step keeps the invariant.                                          *)
LEMMA StepInd == IndInv /\ [Next]_vars => IndInv'
<1> SUFFICES ASSUME IndInv, [Next]_vars PROVE IndInv'
  OBVIOUS
<1>1. CASE Open
  BY <1>1, OpenInd
<1>2. CASE ThreadNext
  <2>1. CASE Dispatch \/ ProcessCancel \/ ProcessIdle \/ CheckIdleEvent \/ FallAsleep \/ CheckEvent
    BY <2>1, DispatchInd, ProcessCancelInd, ProcessIdleInd, CheckIdleEventInd, FallAsleepInd, CheckEventInd
  <2>2. CASE ProcessTuning \/ PollFrontend \/ UpdateLocked \/ UpdateLost
    BY <2>2, ProcessTuningInd, PollFrontendInd, UpdateLockedInd, UpdateLostInd
  <2>3. CASE \E status \in {"none", "sync", "lock"} : ReadStatus(status)
    BY <2>3, ReadStatusInd
  <2>4. CASE NotifyStatus("notifyLock", "lock") \/ NotifyStatus("notifyLost", "lost")
    BY <2>4, NotifyLockInd, NotifyLostInd
  <2> QED
    BY <1>2, <2>1, <2>2, <2>3, <2>4 DEF ThreadNext
<1>3. ASSUME NEW c \in Clients, Continue(c)
      PROVE  IndInv'
  BY <1>3, CancelledInd, RequestTuneInd, SignalTuneInd, WaitedForLockInd, ClearedInd, ClosingInd, ClosedInd
     DEF Continue
<1>4. ASSUME NEW c \in Clients, Close(c) \/ \E t \in Transponders : Tune(c, t) \/ ClearTransponder(c, t)
      PROVE  IndInv'
  BY <1>4, CloseInd, TuneInd, ClearTransponderInd
<1>5. CASE UNCHANGED vars
  <2>1. FlagTypes' /\ TunerTypes' /\ CallTypes'
    BY <1>5 DEF IndInv, FlagTypes, TunerTypes, CallTypes, vars, threadVars, eventVars, transponderVars, clientVars,
                observerVars
  <2>2. CallInv' /\ ThreadInv'
    BY <1>5 DEF IndInv, CallInv, ThreadInv, IsSynced, vars, threadVars, transponderVars, clientVars
  <2>3. OpenInv'
    BY <1>5 DEF IndInv, OpenInv, IsSynced, vars, threadVars, transponderVars, clientVars
  <2>4. AnnounceInv' /\ NoSilentRetune' /\ LockIsAnnounced'
    BY <1>5 DEF IndInv, AnnounceInv, NoSilentRetune, LockIsAnnounced, vars, threadVars, transponderVars, clientVars,
                observerVars
  <2> QED
    BY <2>1, <2>2, <2>3, <2>4 DEF IndInv
<1> QED
  BY <1>1, <1>2, <1>3, <1>4, <1>5 DEF Next

(* Every reachable state satisfies the inductive invariant.                 *)
THEOREM Inductive == Spec => []IndInv
BY InitInd, StepInd, PTL DEF Spec

(* The thread, the state machine and the calls keep their types: SetState() *)
(* and Tune() never leave the states of DVB_TUNER_STATE.                    *)
THEOREM TunerTypesCorrect == Spec => []TypeOK
<1>1. IndInv => TypeOK
  BY TypeParts DEF IndInv
<1> QED
  BY <1>1, Inductive, PTL

(* Until Close(), LOCKED means that the frontend was told to tune to        *)
(* m_transponder and is synced, whatever calls interrupt the thread between *)
(* FE_READ_STATUS and SetState().                                           *)
THEOREM LockedIsTuned == Spec => []LockedMeansTuned
<1>1. IndInv => LockedMeansTuned
  BY DEF IndInv, FlagTypes, OpenInv, LockedMeansTuned, PollStates
<1> QED
  BY <1>1, Inductive, PTL

(* The tuner drops a transponder a client relies on only together with the  *)
(* announcement of the loss, in CancelTuning(), TuneDevice() and Process(). *)
THEOREM RetuneIsAnnounced == Spec => []NoSilentRetune
<1>1. IndInv => NoSilentRetune
  BY DEF IndInv
<1> QED
  BY <1>1, Inductive, PTL

(* While the thread polls a locked frontend the observers have heard of the *)
(* lock, if calls come one at a time and no timeout outruns the thread.     *)
THEOREM LockAnnounced == Spec => []LockIsAnnounced
<1>1. IndInv => LockIsAnnounced
  BY DEF IndInv
<1> QED
  BY <1>1, Inductive, PTL
=============================================================================
