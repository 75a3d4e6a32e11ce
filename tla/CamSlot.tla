------------------------------ MODULE CamSlot ------------------------------
(***************************************************************************)
(* The adapter's thread, its CAM slot and the slot's transport connections  *)
(* (CI.cpp), against a CAM that may be pulled, restart by itself, stop      *)
(* answering or send what nobody asked for.  Everything runs in the         *)
(* adapter's thread under the slot's mutex: one action is one turn of       *)
(* cCiAdapter::Process().  Nothing in the program assigns a slot to a       *)
(* device, so the list of programs is always empty.                         *)
(***************************************************************************)
EXTENDS CiSession

CONSTANTS
  MaxConnections,   \* MAX_CONNECTIONS_PER_CAM_SLOT
  MaxSessions,      \* MAX_SESSIONS_PER_TC
  Resources,        \* the resources the host provides
  CamOpens,         \* the resources the CAM asks for, by connection
  AliveTicks,       \* TC_ALIVE_TIMEOUT, in poll timeouts
  ResetTicks,       \* MODULE_RESET_TIMEOUT, in poll timeouts
  MaxFaults,        \* bound on what goes wrong with the CAM
  None

Connections == 1..MaxConnections

SessionIds == 1..MaxSessions

ModuleStatuses == {"none", "reset", "present", "ready"}

ASSUME LimitAssumption ==
  /\ MaxConnections \in Nat \ {0}
  /\ MaxSessions \in Nat \ {0}
  /\ AliveTicks \in Nat \ {0, 1}
  /\ ResetTicks \in Nat \ {0}
  /\ MaxFaults \in Nat

VARIABLES
  slot,      \* the slot and its connections
  cam,       \* the CAM: inserted, its status, whether the driver cannot show it, its connections
  ran,       \* whether the thread took a turn since time last passed
  faults,    \* history: how many things went wrong with the CAM
  resetFailed \* history: the driver refused to reset the slot

vars == <<slot, cam, ran, faults, resetFailed>>

-----------------------------------------------------------------------------
(* The sessions and connections; NULL is neither.                          *)

Waits == 0..QueryWaitTicks \cup 0..QueryReplyTicks

SessionType ==
  [resource : Resources, state : 0..6, wait : Waits]

TcType ==
  [state : {"IDLE", "CREATION", "ACTIVE"}, requested : BOOLEAN, due : BOOLEAN, alive : 0..AliveTicks,
   asked : {"nothing", "create", "data"}, sessions : [SessionIds -> SessionType \cup {None}]]

ASSUME NoneAssumption == None \notin SessionType \cup TcType

(* A connection.  due: its timer has run out; alive: what is left of its    *)
(* alive timer; asked: what the CAM has not answered yet.                   *)

NewTc ==
  [state |-> "IDLE", requested |-> TRUE, due |-> FALSE, alive |-> AliveTicks,
   asked |-> "nothing", sessions |-> [i \in SessionIds |-> None]]

SendTPDU(c, what) == [c EXCEPT !.due = FALSE, !.asked = what]

Opened(c, resource) == \E i \in SessionIds : c.sessions[i] # None /\ c.sessions[i].resource = resource

(* Mutant: an unknown resource gets a session. *)
OpenSessionUnknown(c, resource) ==
  LET free == {i \in SessionIds : c.sessions[i] = None}
      first == CHOOSE i \in free : \A j \in free : i <= j
  IN  IF Opened(c, resource) \/ free = {}
        THEN c
        ELSE SendTPDU([c EXCEPT !.sessions[first] = Session(resource)], "data")

(* OpenSession(): an unknown resource gets no session and no answer.        *)
OpenSession(c, resource) ==
  LET free == {i \in SessionIds : c.sessions[i] = None}
      first == CHOOSE i \in free : \A j \in free : i <= j
  IN  IF Opened(c, resource) \/ free = {} \/ resource \notin Resources
        THEN c
        ELSE SendTPDU([c EXCEPT !.sessions[first] = Session(resource)], "data")

CloseSession(c, id) ==
  SendTPDU(IF id \in SessionIds THEN [c EXCEPT !.sessions[id] = None] ELSE c, "data")

ReceiveObject(c, id, object) ==
  IF id \notin SessionIds \/ c.sessions[id] = None
    THEN c
    ELSE LET s == c.sessions[id]
             r == [c EXCEPT !.sessions[id] = Receive(s, object)]
         IN  IF Answers(s, object) THEN SendTPDU(r, "data") ELSE r

HandleSessions(c, data) ==
  CASE data.op = "open"   -> OpenSession(c, data.resource)
    [] data.op = "close"  -> CloseSession(c, data.id)
    [] data.op = "object" -> ReceiveObject(c, data.id, data.object)
    [] OTHER              -> c

(* The loop over the sessions at the end of the ACTIVE case.                *)
ProcessSessions(c) ==
  LET open == {i \in SessionIds : c.sessions[i] # None}
      r == [c EXCEPT !.sessions = [i \in SessionIds |->
              IF i \in open THEN Process(c.sessions[i]) ELSE None]]
  IN  IF \E i \in open : Sends(c.sessions[i]) THEN SendTPDU(r, "data") ELSE r

Create(c) ==
  IF c.requested THEN [SendTPDU(c, "create") EXCEPT !.requested = FALSE, !.state = "CREATION"] ELSE c

(* The CAM has more data, and is told to send it.                           *)
More(c, tpdu) == IF tpdu.more THEN SendTPDU(c, "data") ELSE c

(* Mutant: a connection the CAM deletes is created again. *)
ActiveAgain(c, tpdu) ==
  CASE tpdu.tag = "DATA"      -> ProcessSessions(More(HandleSessions(c, tpdu.data), tpdu))
    [] tpdu.tag = "SB"        -> ProcessSessions(More(c, tpdu))
    [] tpdu.tag = "DELETE_TC" -> [SendTPDU(c, "nothing") EXCEPT !.state = "IDLE", !.requested = TRUE]
    [] OTHER                  -> ProcessSessions(c)

(* Process() of an ACTIVE connection with a TPDU: data, a status byte, the  *)
(* CAM's request to delete the connection, or a tag that is ignored.        *)
Active(c, tpdu) ==
  CASE tpdu.tag = "DATA"      -> ProcessSessions(More(HandleSessions(c, tpdu.data), tpdu))
    [] tpdu.tag = "SB"        -> ProcessSessions(More(c, tpdu))
    [] tpdu.tag = "DELETE_TC" -> [SendTPDU(c, "nothing") EXCEPT !.state = "IDLE"]
    [] OTHER                  -> ProcessSessions(c)

(* Mutant: a TPDU does not restart the alive timer. *)
ProcessTPDUUnheard(c, tpdu) ==
  CASE c.state = "IDLE"   -> Create(c)
    [] c.state = "ACTIVE" -> Active(c, tpdu)
    [] c.state = "CREATION" /\ tpdu.tag = "CTC_REPLY" ->
         [SendTPDU(c, "data") EXCEPT !.state = "ACTIVE"]
    [] c.state = "CREATION" /\ tpdu.tag # "CTC_REPLY" ->
         IF c.due THEN [c EXCEPT !.state = "IDLE", !.due = FALSE] ELSE c

ProcessTPDU(tc, tpdu) ==
  LET c == [tc EXCEPT !.alive = AliveTicks]
  IN  CASE c.state = "IDLE"   -> Create(c)
        [] c.state = "ACTIVE" -> Active(c, tpdu)
        [] c.state = "CREATION" /\ tpdu.tag = "CTC_REPLY" ->
             [SendTPDU(c, "data") EXCEPT !.state = "ACTIVE"]
        [] c.state = "CREATION" /\ tpdu.tag # "CTC_REPLY" ->
             IF c.due THEN [c EXCEPT !.state = "IDLE", !.due = FALSE] ELSE c

(* Process() without a TPDU, of a connection that is still alive.           *)
ProcessTc(c) ==
  CASE c.state = "IDLE"     -> Create(c)
    [] c.state = "CREATION" -> IF c.due THEN [c EXCEPT !.state = "IDLE", !.due = FALSE] ELSE c
    [] c.state = "ACTIVE"   -> ProcessSessions(IF c.due THEN SendTPDU(c, "data") ELSE c)

-----------------------------------------------------------------------------
(* The slot.  A turn of the thread works on the slot and the CAM together:  *)
(* a reset changes what the next look at the module's status shows.         *)

NoTc == [n \in Connections |-> None]

Now == [slot |-> slot, cam |-> cam, failed |-> resetFailed]

NewConnection(tc) ==
  LET free == {n \in Connections : tc[n] = None}
      first == CHOOSE n \in free : \A m \in free : n <= m
  IN  IF free = {} THEN tc ELSE [tc EXCEPT ![first] = NewTc]

(* Reset(): the connections go even if the driver refuses.                  *)
Reset(st, ok) ==
  IF ok
    THEN [slot |-> [st.slot EXCEPT !.tc = NoTc, !.lastModuleStatus = "reset", !.resetTime = ResetTicks],
          cam |-> [st.cam EXCEPT !.status = "none", !.open = {}],
          failed |-> st.failed]
    ELSE [st EXCEPT !.slot.tc = NoTc, !.failed = TRUE]

(* A driver that cannot tell shows no module.                               *)
Shown(c) == IF c.hidden THEN "none" ELSE c.status

ModuleStatus(st) ==
  IF st.slot.resetTime > 0 /\ Shown(st.cam) = "none" THEN "reset" ELSE Shown(st.cam)

ResetTime(st) == IF ModuleStatus(st) = "reset" THEN st.slot.resetTime ELSE 0

CheckModule(st) ==
  LET ms == ModuleStatus(st)
      tc == CASE ms = st.slot.lastModuleStatus -> st.slot.tc
              [] ms # st.slot.lastModuleStatus /\ ms \in {"none", "reset"} -> NoTc
              [] ms # st.slot.lastModuleStatus /\ ms = "present" -> st.slot.tc
              [] ms # st.slot.lastModuleStatus /\ ms = "ready" -> NewConnection(st.slot.tc)
  IN  [st EXCEPT !.slot = [tc |-> tc, lastModuleStatus |-> ms, resetTime |-> ResetTime(st), checkDue |-> FALSE]]

(* Mutant: the alive timer is only looked at while the connection is active. *)
DeadIfActive(st) ==
  \E n \in Connections : st.slot.tc[n] # None /\ st.slot.tc[n].alive = 0 /\ st.slot.tc[n].state = "ACTIVE"

Dead(st) == \E n \in Connections : st.slot.tc[n] # None /\ st.slot.tc[n].alive = 0

ProcessAll(st) ==
  [st EXCEPT !.slot.tc = [n \in Connections |-> IF @[n] = None THEN None ELSE ProcessTc(@[n])]]

(* Mutant: a dead connection ends the turn, and nothing is reset. *)
ProcessSlotReturns(st) ==
  IF Dead(st)
    THEN {st}
    ELSE {IF p.slot.checkDue THEN CheckModule(p) ELSE p : p \in {ProcessAll(st)}}

(* cCamSlot::Process(): one dead connection resets the whole slot.  The     *)
(* result is a set: the driver may refuse.                                  *)
ProcessSlot(st) ==
  IF Dead(st)
    THEN {Reset(st, ok) : ok \in BOOLEAN}
    ELSE {IF p.slot.checkDue THEN CheckModule(p) ELSE p : p \in {ProcessAll(st)}}

Deliver(st, n, tpdu) ==
  IF st.slot.tc[n] = None THEN st ELSE [st EXCEPT !.slot.tc[n] = ProcessTPDU(@, tpdu)]

Become(st) ==
  /\ slot' = st.slot
  /\ cam' = st.cam
  /\ resetFailed' = st.failed
  /\ ran' = TRUE

(* cCiAdapter::Process(): Read() returned a TPDU for connection n, or       *)
(* nothing.                                                                 *)
TurnWith(st, n, tpdu) ==
  \E read \in {Deliver(st, n, tpdu)} :
    \E once \in ProcessSlot(read) : \E twice \in ProcessSlot(once) : Become(twice)

Turn == (\E once \in ProcessSlot(Now) : Become(once)) /\ UNCHANGED faults

(* Ready(), called by a thread that initialises the device: looking at the  *)
(* module's status may end the time it is given after a reset.              *)
AskReady == slot' = [slot EXCEPT !.resetTime = ResetTime(Now)] /\ UNCHANGED <<cam, ran, faults, resetFailed>>

-----------------------------------------------------------------------------
(* The CAM, its driver and time.                                            *)

Data(n, c) ==
  [op : {"open"}, resource : CamOpens[n]]
    \cup [op : {"close"}, id : 0..MaxSessions]
    \cup UNION {[op : {"object"}, id : {i}, object : Objects(c.sessions[i].resource)] :
                 i \in {j \in SessionIds : c.sessions[j] # None}}
    \cup {[op |-> "object", id |-> 0, object |-> "PROFILE"]}

Status == [tag : {"SB"}, more : BOOLEAN]

DataLast(n, c) == [tag : {"DATA"}, more : BOOLEAN, data : Data(n, c)]

(* The CAM owes an answer: it knows the connection, or is asked for it.     *)
Owes(n) ==
  /\ slot.tc[n] # None
  /\ cam.status = "ready"
  /\ slot.tc[n].asked = "create" \/ (slot.tc[n].asked = "data" /\ n \in cam.open)

Answer(n) ==
  /\ Owes(n)
  /\ LET st == [Now EXCEPT !.slot.tc[n].asked = "nothing", !.cam.open = @ \cup {n}]
     IN  IF slot.tc[n].asked = "create"
           THEN TurnWith(st, n, [tag |-> "CTC_REPLY"])
           ELSE \E tpdu \in Status \cup DataLast(n, slot.tc[n]) : TurnWith(st, n, tpdu)
  /\ UNCHANGED faults

Fault == faults < MaxFaults /\ faults' = faults + 1

(* A TPDU nobody asked for: late, repeated, or the end of the connection.   *)
Stray(n) ==
  /\ Fault
  /\ cam.status = "ready"
  /\ \/ \E tpdu \in Status \cup [tag : {"CTC_REPLY", "DTC_REPLY"}] : TurnWith(Now, n, tpdu)
     \/ TurnWith([Now EXCEPT !.cam.open = @ \ {n}], n, [tag |-> "DELETE_TC"])

(* The timers somebody reads run out.                                       *)
Elapse(c) ==
  IF c = None THEN None
  ELSE [c EXCEPT !.due = c.state # "IDLE", !.alive = IF @ > 0 THEN @ - 1 ELSE 0,
                 !.sessions = [i \in SessionIds |-> IF @[i] = None THEN None ELSE Expire(@[i])]]

(* The CAM has left a request unanswered for too long.                      *)
Late(n) == Owes(n) /\ (slot.tc[n].asked = "create" \/ slot.tc[n].alive < AliveTicks)

(* A poll timeout passes.  The thread took a turn since the last one, and   *)
(* the CAM is not late, unless it is at fault.                              *)
Tick ==
  /\ ran
  /\ ran' = FALSE
  /\ slot' = [slot EXCEPT !.checkDue = TRUE, !.resetTime = IF @ > 0 THEN @ - 1 ELSE 0,
                          !.tc = [n \in Connections |-> Elapse(@[n])]]
  /\ IF \E n \in Connections : Late(n) THEN Fault ELSE UNCHANGED faults
  /\ UNCHANGED <<cam, resetFailed>>

Pull ==
  /\ cam.inserted /\ Fault
  /\ cam' = [inserted |-> FALSE, status |-> "none", hidden |-> FALSE, open |-> {}]
  /\ UNCHANGED <<slot, ran, resetFailed>>

Insert ==
  /\ ~cam.inserted
  /\ cam' = [cam EXCEPT !.inserted = TRUE]
  /\ UNCHANGED <<slot, ran, faults, resetFailed>>

StartUp ==
  /\ cam.inserted /\ cam.status # "ready"
  /\ cam' = [cam EXCEPT !.status = IF @ = "none" THEN "present" ELSE "ready"]
  /\ UNCHANGED <<slot, ran, faults, resetFailed>>

(* The CAM is not ready for a moment, and may have forgotten everything.    *)
Restart ==
  /\ cam.status = "ready" /\ Fault
  /\ \E open \in {cam.open, {}} : cam' = [cam EXCEPT !.status = "present", !.open = open]
  /\ UNCHANGED <<slot, ran, resetFailed>>

(* CA_GET_SLOT_INFO fails for a while; the CAM itself keeps its             *)
(* connections.                                                             *)
Hide ==
  /\ cam.status # "none" /\ ~cam.hidden /\ Fault
  /\ cam' = [cam EXCEPT !.hidden = TRUE]
  /\ UNCHANGED <<slot, ran, resetFailed>>

Show ==
  /\ cam.hidden
  /\ cam' = [cam EXCEPT !.hidden = FALSE]
  /\ UNCHANGED <<slot, ran, faults, resetFailed>>

Init ==
  /\ \E t \in {0, ResetTicks} :
       slot = [tc |-> NoTc, lastModuleStatus |-> "reset", resetTime |-> t, checkDue |-> TRUE]
  /\ \E b \in BOOLEAN : cam = [inserted |-> b, status |-> "none", hidden |-> FALSE, open |-> {}]
  /\ ran = FALSE
  /\ faults = 0
  /\ resetFailed = FALSE

Next ==
  \/ Turn
  \/ AskReady
  \/ \E n \in Connections : Answer(n) \/ Stray(n)
  \/ Tick
  \/ Pull \/ Insert \/ StartUp \/ Restart \/ Hide \/ Show

Spec == Init /\ [][Next]_vars

(* The thread polls every CAM_READ_TIMEOUT and time passes; a CAM starts up *)
(* and answers unless it is at fault, which is bounded, and its driver does *)
(* not fail for ever.                                                       *)
FairSpec ==
  /\ Spec
  /\ WF_vars(Turn) /\ WF_vars(Tick) /\ WF_vars(StartUp) /\ WF_vars(Show)
  /\ \A n \in Connections : WF_vars(Answer(n))

-----------------------------------------------------------------------------
(* Properties.                                                              *)

SlotType ==
  [tc : [Connections -> TcType \cup {None}], lastModuleStatus : ModuleStatuses,
   resetTime : 0..ResetTicks, checkDue : BOOLEAN]

CamType ==
  [inserted : BOOLEAN, status : ModuleStatuses \ {"reset"}, hidden : BOOLEAN, open : SUBSET Connections]

(* The variables have their types: connections and sessions within the      *)
(* arrays cCamSlot and cCiTransportConnection declare, states within the    *)
(* values Process() knows.                                                  *)
TypeOK ==
  /\ slot \in SlotType
  /\ cam \in CamType
  /\ ran \in BOOLEAN
  /\ faults \in 0..MaxFaults
  /\ resetFailed \in BOOLEAN

Tc(n) == slot.tc[n]

(* A connection that is being created has no session: one the CAM deleted   *)
(* keeps its sessions (Process() only sets stIDLE), so it is never used     *)
(* again.                                                                   *)
CreatedWithoutSessions ==
  \A n \in Connections :
    Tc(n) # None /\ (Tc(n).state = "CREATION" \/ Tc(n).requested)
      => \A i \in SessionIds : Tc(n).sessions[i] = None

(* Once cCiConditionalAccessSupport::Ready() it stays so for as long as the *)
(* session lasts, whatever the CAM sends and in whatever order.             *)
ReadyIsKept ==
  [][\A n \in Connections, i \in SessionIds :
       /\ Tc(n) # None /\ Tc(n)' # None
       /\ Tc(n).sessions[i] # None /\ Tc(n).sessions[i]' # None
       /\ Ready(Tc(n).sessions[i])
       => Ready(Tc(n).sessions[i]')]_vars

(* A CAM that stays in the slot gets its first connection and keeps it,     *)
(* after any lost answer, stray TPDU, restart or removal, if the driver     *)
(* never refuses to reset the slot.                                         *)
Connected ==
  <>[](cam.inserted) /\ []~resetFailed => <>[](Tc(1) # None /\ Tc(1).state = "ACTIVE")

(* The connections of a CAM that is pulled are deleted, unless it is put    *)
(* back.                                                                    *)
PulledIsDisconnected == ~cam.inserted ~> slot.tc = NoTc \/ cam.inserted

(* A connection that could not be created, or that the CAM deleted, is      *)
(* given up, its sessions with it: the alive timer ends it, nothing else    *)
(* would.                                                                   *)
IdleIsGivenUp ==
  \A n \in Connections : (Tc(n) # None /\ Tc(n).state = "IDLE") ~> (Tc(n) = None \/ Tc(n).state # "IDLE")

Waiting(n, i) ==
  /\ Tc(n) # None /\ Tc(n).sessions[i] # None
  /\ Tc(n).sessions[i].resource = "CONDITIONAL_ACCESS_SUPPORT"
  /\ Tc(n).sessions[i].state \in {2, 3}

(* Conditional access support does not wait for ever for a CAM that does    *)
(* not reply to QUERY.                                                      *)
QueryEnds == \A n \in Connections, i \in SessionIds : Waiting(n, i) ~> ~Waiting(n, i)

=============================================================================
