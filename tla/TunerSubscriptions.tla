------------------------- MODULE TunerSubscriptions -------------------------
(***************************************************************************)
(* The subscriptions to one device (cDeviceChannelSubsystem, cTunerHandle): *)
(* recordings, live TV and the two scanners acquire a handle on a          *)
(* transponder, attach receivers through it and release it.  The table of  *)
(* active handles is guarded by m_mutex; switching the channel, clearing   *)
(* it and calling back the preempted subscribers happen outside it.  The   *)
(* tuner below is reduced to the transponder it is tuned to.               *)
(***************************************************************************)
EXTENDS Naturals

CONSTANTS
  Recorders, Viewers, ChannelScanners, EpgScanners,  \* the subscribers, by tuning type
  Transponders,
  None

ASSUME NoneAssumption == None \notin Transponders

Scanners == ChannelScanners \cup EpgScanners
Clients == Recorders \cup Viewers \cup Scanners

VARIABLES
  active,        \* the owners of the handles in m_activeTransponders
  before,        \* and the pairs of them whose first stands before the second
  tuned,         \* the tuner's m_transponder
  receivers,     \* the clients whose receivers are attached to the device
  scanning,      \* the scanners that are running
  at,            \* per client, where it is in its call
  transponder,   \* per client, the transponder of its handle
  lowerPrio,     \* per client, the owners it preempted and has yet to tell
  switchNeeded,  \* per client
  pass,          \* per client, which run of Release() this is: explicit, then destructor
  told,          \* history: the clients told LostPriority since they were given a handle
  wanted,        \* history: the clients that attached receivers since they were given a handle
  overlapped,    \* history: a call was begun while another was in progress
  sidelined      \* history: a switch left a handle registered on what was tuned before

tableVars == <<active, before, sidelined>>
callVars == <<transponder, lowerPrio, switchNeeded, pass>>
vars == <<tableVars, tuned, receivers, scanning, at, callVars, told, wanted, overlapped>>

(* The type invariant of the table, the device and the calls.               *)
TypeOK ==
  /\ active \subseteq Clients
  /\ before \subseteq Clients \X Clients
  /\ tuned \in Transponders \cup {None}
  /\ receivers \subseteq Clients
  /\ scanning \subseteq Scanners
  /\ at \in [Clients -> {"out", "acquiring", "notifying", "switching", "tuning", "holding",
                         "releasing", "clearing", "detaching"}]
  /\ transponder \in [Clients -> Transponders \cup {None}]
  /\ lowerPrio \in [Clients -> SUBSET Clients]
  /\ switchNeeded \in [Clients -> BOOLEAN]
  /\ pass \in [Clients -> 0..2]
  /\ told \subseteq Clients
  /\ wanted \subseteq Clients
  /\ overlapped \in BOOLEAN
  /\ sidelined \in BOOLEAN

Init ==
  /\ active = {}
  /\ before = {}
  /\ tuned = None
  /\ receivers = {}
  /\ scanning = {}
  /\ at = [c \in Clients |-> "out"]
  /\ transponder = [c \in Clients |-> None]
  /\ lowerPrio = [c \in Clients |-> {}]
  /\ switchNeeded = [c \in Clients |-> FALSE]
  /\ pass = [c \in Clients |-> 0]
  /\ told = {}
  /\ wanted = {}
  /\ overlapped = FALSE
  /\ sidelined = FALSE

-----------------------------------------------------------------------------
(* device_tuning_type_t: a smaller number is a higher priority.             *)
Type(c) ==
  CASE c \in Recorders -> 0
    [] c \in Viewers -> 1
    [] c \in ChannelScanners -> 2
    [] c \in EpgScanners -> 3

InCall(c) == at[c] \notin {"out", "holding"}
Overlap == overlapped' = (overlapped \/ \E c \in Clients : InCall(c))

Goto(c, where) == at' = [at EXCEPT ![c] = where]

(* The handle and what the owner remembers of it are gone.                  *)
DropHandle(c) ==
  /\ transponder' = [transponder EXCEPT ![c] = None]
  /\ told' = told \ {c}
  /\ wanted' = wanted \ {c}

(* Mutant: priorities are not looked at. *)
CanTuneAlways(c) == TRUE

CanTune(c) == \A d \in active : Type(d) >= Type(c)

(* The loop over the active handles stops at the first one on the same      *)
(* transponder, unless the caller is live TV, which never shares.           *)
Shares(c, d) == c \notin Viewers /\ transponder[d] = transponder[c]

SwitchNeeded(c) == \A d \in active : ~Shares(c, d)

LowerPriority(c) ==
  {d \in active : Type(d) > Type(c) /\ \A e \in active : Shares(c, e) => <<d, e>> \in before}

(* ClearTransponder(): only if the tuner is on that transponder.            *)
Untuned(t) == IF tuned = t THEN None ELSE tuned

-----------------------------------------------------------------------------
StartScan(c) ==
  /\ at[c] = "out"
  /\ scanning' = scanning \cup {c}
  /\ UNCHANGED <<tableVars, tuned, receivers, at, callVars, told, wanted, overlapped>>

(* Acquire() up to m_mutex: live TV and recordings stop the scanners.       *)
Acquire(c, t) ==
  /\ at[c] = "out"
  /\ Overlap
  /\ c \in Scanners => c \in scanning
  /\ scanning' = IF c \in Scanners THEN scanning ELSE {}
  /\ transponder' = [transponder EXCEPT ![c] = t]
  /\ Goto(c, "acquiring")
  /\ UNCHANGED <<tableVars, tuned, receivers, lowerPrio, switchNeeded, pass, told, wanted>>

(* The handle made at the top is destroyed, and its destructor runs         *)
(* Release() although it was never registered.                              *)
Refuse(c) ==
  /\ at[c] = "acquiring"
  /\ ~CanTune(c)
  /\ Goto(c, "releasing")
  /\ pass' = [pass EXCEPT ![c] = 2]
  /\ UNCHANGED <<tableVars, tuned, receivers, scanning, transponder, lowerPrio, switchNeeded, told, wanted, overlapped>>

(* The block under m_mutex.  Replacing the handle made at the top destroys  *)
(* it, and its destructor clears the channel if the table is empty.         *)
Register(c) ==
  /\ at[c] = "acquiring"
  /\ CanTune(c)
  /\ switchNeeded' = [switchNeeded EXCEPT ![c] = SwitchNeeded(c)]
  /\ lowerPrio' = [lowerPrio EXCEPT ![c] = LowerPriority(c)]
  /\ LET kept == active \ LowerPriority(c)
     IN /\ active' = kept \cup {c}
        /\ before' = (before \cap (kept \X kept)) \cup (kept \X {c})
        /\ tuned' = IF kept = {} THEN Untuned(transponder[c]) ELSE tuned
        /\ sidelined' = (sidelined \/ (SwitchNeeded(c) /\ kept # {}))
  /\ Goto(c, "notifying")
  /\ UNCHANGED <<receivers, scanning, transponder, pass, told, wanted, overlapped>>

(* Mutant: the preempted are not called back. *)
NotifyLowerPriorityNot(c) ==
  /\ at[c] = "notifying"
  /\ receivers' = receivers \ (lowerPrio[c] \cap Scanners)
  /\ told' = told
  /\ lowerPrio' = [lowerPrio EXCEPT ![c] = {}]
  /\ switchNeeded' = [switchNeeded EXCEPT ![c] = FALSE]
  /\ Goto(c, IF switchNeeded[c] THEN "switching" ELSE "holding")
  /\ UNCHANGED <<tableVars, tuned, scanning, transponder, pass, wanted, overlapped>>

(* LockLost() and LostPriority() of the preempted, after m_mutex.  A        *)
(* scanner's LockLost() detaches its receivers, its LostPriority() stops    *)
(* it.                                                                      *)
NotifyLowerPriority(c) ==
  /\ at[c] = "notifying"
  /\ receivers' = receivers \ (lowerPrio[c] \cap Scanners)
  /\ scanning' = scanning \ lowerPrio[c]
  /\ told' = told \cup lowerPrio[c]
  /\ lowerPrio' = [lowerPrio EXCEPT ![c] = {}]
  /\ switchNeeded' = [switchNeeded EXCEPT ![c] = FALSE]
  /\ Goto(c, IF switchNeeded[c] THEN "switching" ELSE "holding")
  /\ UNCHANGED <<tableVars, tuned, transponder, pass, wanted, overlapped>>

(* SwitchChannel(): every receiver of the device is detached, then the      *)
(* tuner is asked.  A failed Tune() may leave the transponder set.          *)
DetachAllReceivers(c) ==
  /\ at[c] = "switching"
  /\ receivers' = {}
  /\ Goto(c, "tuning")
  /\ UNCHANGED <<tableVars, tuned, scanning, callVars, told, wanted, overlapped>>

(* Mutant: a failed switch does not release the handle. *)
SwitchChannelNoRelease(c) ==
  /\ at[c] = "tuning"
  /\ \/ /\ tuned' = transponder[c]
        /\ Goto(c, "holding")
        /\ UNCHANGED pass
     \/ /\ tuned' \in {None, transponder[c]}
        /\ Goto(c, "out")
        /\ UNCHANGED pass
  /\ UNCHANGED <<tableVars, receivers, scanning, transponder, lowerPrio, switchNeeded, told, wanted, overlapped>>

SwitchChannel(c) ==
  /\ at[c] = "tuning"
  /\ \/ /\ tuned' = transponder[c]
        /\ Goto(c, "holding")
        /\ UNCHANGED pass
     \/ /\ tuned' \in {None, transponder[c]}
        /\ Goto(c, "releasing")
        /\ pass' = [pass EXCEPT ![c] = 1]
  /\ UNCHANGED <<tableVars, receivers, scanning, transponder, lowerPrio, switchNeeded, told, wanted, overlapped>>

Attach(c) ==
  /\ at[c] = "holding"
  /\ receivers' = receivers \cup {c}
  /\ wanted' = wanted \cup {c}
  /\ UNCHANGED <<tableVars, tuned, scanning, at, callVars, told, overlapped>>

(* Release(): the owner's call, and later the destructor's.                 *)
Release(c) ==
  /\ at[c] = "holding"
  /\ Overlap
  /\ Goto(c, "releasing")
  /\ pass' = [pass EXCEPT ![c] = 1]
  /\ UNCHANGED <<tableVars, tuned, receivers, scanning, transponder, lowerPrio, switchNeeded, told, wanted>>

Erase(c) ==
  /\ active' = active \ {c}
  /\ before' = before \cap (active' \X active')
  /\ UNCHANGED sidelined

(* Mutant: the channel is cleared whoever else is registered. *)
UnregisterAlwaysClears(c) ==
  /\ at[c] = "releasing"
  /\ Erase(c)
  /\ Goto(c, "clearing")
  /\ receivers' = IF c \in active \cap Scanners THEN receivers \ {c} ELSE receivers
  /\ UNCHANGED <<tuned, scanning, callVars, told, wanted, overlapped>>

(* Mutant: the channel is not cleared. *)
UnregisterNeverClears(c) ==
  /\ at[c] = "releasing"
  /\ Erase(c)
  /\ Goto(c, "detaching")
  /\ receivers' = IF c \in active \cap Scanners THEN receivers \ {c} ELSE receivers
  /\ UNCHANGED <<tuned, scanning, callVars, told, wanted, overlapped>>

Unregister(c) ==
  /\ at[c] = "releasing"
  /\ Erase(c)
  /\ Goto(c, IF active' = {} THEN "clearing" ELSE "detaching")
  /\ receivers' = IF c \in active \cap Scanners THEN receivers \ {c} ELSE receivers
  /\ UNCHANGED <<tuned, scanning, callVars, told, wanted, overlapped>>

(* What was empty under m_mutex need not be empty any more.                 *)
ClearChannel(c) ==
  /\ at[c] = "clearing"
  /\ tuned' = Untuned(transponder[c])
  /\ Goto(c, "detaching")
  /\ UNCHANGED <<tableVars, receivers, scanning, callVars, told, wanted, overlapped>>

DetachReceivers(c) ==
  /\ at[c] = "detaching"
  /\ receivers' = receivers \ {c}
  /\ pass' = [pass EXCEPT ![c] = (@ + 1) % 3]
  /\ \/ pass[c] = 1 /\ Goto(c, "releasing") /\ UNCHANGED <<transponder, told, wanted>>
     \/ pass[c] # 1 /\ Goto(c, "out") /\ DropHandle(c)
  /\ UNCHANGED <<tableVars, tuned, scanning, lowerPrio, switchNeeded, overlapped>>

Continue(c) ==
  \/ Refuse(c) \/ Register(c) \/ NotifyLowerPriority(c) \/ DetachAllReceivers(c) \/ SwitchChannel(c)
  \/ Unregister(c) \/ ClearChannel(c) \/ DetachReceivers(c)

Next ==
  \E c \in Clients :
    \/ c \in Scanners /\ StartScan(c)
    \/ \E t \in Transponders : Acquire(c, t)
    \/ Attach(c)
    \/ Release(c)
    \/ Continue(c)

Spec == Init /\ [][Next]_vars

-----------------------------------------------------------------------------
(* A client that holds a handle stays registered until it is told that it   *)
(* lost its priority: whoever erased it is on the way to tell it.           *)
RegisteredUntilTold ==
  \A c \in Clients :
    at[c] = "holding" /\ c \notin active =>
      c \in told \/ \E d \in Clients : at[d] = "notifying" /\ c \in lowerPrio[d]

(* Acquire() admits nobody above whom a subscription is active, so the      *)
(* table is ordered by priority and its last entry has the highest.         *)
LaterIsHigherPriority ==
  \A c, d \in active : <<c, d>> \in before => Type(c) >= Type(d)

(* Nobody is registered twice, and only clients with a handle are: failed   *)
(* switches and the two runs of Release() leave nothing behind.             *)
RegisteredAreSubscribed ==
  /\ \A c \in active : <<c, c>> \notin before
  /\ \A c \in active : at[c] \in {"notifying", "switching", "tuning", "holding", "releasing"}

(* As long as calls did not overlap and no subscriber switched the device   *)
(* over the head of another of its own type, when no call is in progress    *)
(* the device is tuned to the transponder of every registered handle, and   *)
(* the receivers attached through it are still attached: SwitchChannel()    *)
(* and Release() of others do not disturb it.                               *)
HoldersAreServed ==
  ~overlapped /\ ~sidelined /\ (\A c \in Clients : ~InCall(c)) =>
    \A c \in active : tuned = transponder[c] /\ (c \in wanted => c \in receivers)

(* Likewise, when no call is in progress and nobody is registered the       *)
(* device is not tuned: the last Release() or the failed switch cleared the *)
(* channel.                                                                 *)
UnusedIsUntuned ==
  ~overlapped /\ ~sidelined /\ (\A c \in Clients : ~InCall(c)) /\ active = {} => tuned = None
=============================================================================
