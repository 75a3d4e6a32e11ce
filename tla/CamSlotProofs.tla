--------------------------- MODULE CamSlotProofs ---------------------------
(***************************************************************************)
(* What holds of a CAM slot for any number of connections and sessions and *)
(* whatever the CAM asks for or sends.  The lemmas follow the calls: what  *)
(* Process() does to a session, to a connection and to the slot; a turn of *)
(* the thread composes a TPDU and two runs of Process().                   *)
(***************************************************************************)
EXTENDS CamSlot, WellFoundedInduction, TLAPS

(* A connection is asked to be created once, while it has no session yet.   *)
TcInv(c) ==
  /\ c \in TcType
  /\ c.state # "IDLE" => ~c.requested
  /\ c.state = "CREATION" \/ c.requested => \A i \in SessionIds : c.sessions[i] = None

(* The inductive invariant of the slot.                                     *)
IndInv ==
  /\ TypeOK
  /\ \A n \in Connections : slot.tc[n] # None => TcInv(slot.tc[n])

(* What a step does to the sessions of a connection: whichever is ready and *)
(* remains is ready afterwards; and no session is opened.                   *)
HasSession(c, i) == c # None /\ c.sessions[i] # None

Keeps(c, d) ==
  \A i \in SessionIds : HasSession(c, i) /\ HasSession(d, i) /\ Ready(c.sessions[i]) => Ready(d.sessions[i])

OpensNone(c, d) ==
  \A i \in SessionIds : HasSession(d, i) => HasSession(c, i)

(* Steps compose if the later one opens no session: otherwise a session     *)
(* that was closed could be mistaken for its successor.                     *)
LEMMA KeepsOn ==
  ASSUME NEW c, NEW d, NEW e, Keeps(c, d), Keeps(d, e), OpensNone(d, e)
  PROVE  Keeps(c, e)
BY DEF Keeps, OpensNone

-----------------------------------------------------------------------------
(* The sessions.                                                            *)

(* A set of numbers has a least one: the first free place of an array.      *)
LEMMA LeastNat ==
  ASSUME NEW T \in SUBSET Nat, T # {}
  PROVE  \E x \in T : \A y \in T : x <= y
<1> DEFINE R == OpToRel(<, Nat)
<1>1. IsWellFoundedOn(R, Nat)
  BY NatLessThanWellFounded
<1>2. \A x, y \in T : y < x => <<y, x>> \in R
  BY DEF OpToRel
<1> HIDE DEF R
<1>3. PICK x \in T : \A y \in T : ~(<<y, x>> \in R)
  BY <1>1, WFMin
<1>4. \A y \in T : ~(y < x)
  BY <1>2, <1>3, Zenon
<1> QED
  BY <1>4

(* The session in another state.                                            *)
LEMMA SessionUpdate ==
  ASSUME NEW s \in SessionType, NEW k \in 0..6, NEW t \in Waits
  PROVE  /\ [s EXCEPT !.state = k] \in SessionType
         /\ [s EXCEPT !.state = k, !.wait = t] \in SessionType
         /\ s.resource = "CONDITIONAL_ACCESS_SUPPORT" /\ k \in {4, 5, 6} =>
              Ready([s EXCEPT !.state = k, !.wait = t])
<1>1. [s EXCEPT !.state = k] \in SessionType
  BY DEF SessionType
<1>2. [s EXCEPT !.state = k, !.wait = t] \in SessionType
  BY DEF SessionType
<1>3. k \in {4, 5, 6} => k >= 4
  OBVIOUS
<1>4. s.resource = "CONDITIONAL_ACCESS_SUPPORT" /\ k >= 4 => Ready([s EXCEPT !.state = k, !.wait = t])
  BY DEF SessionType, Ready
<1> QED
  BY <1>1, <1>2, <1>3, <1>4

(* The times a session's timer is set to.                                   *)
LEMMA WaitsHold ==
  0 \in Waits /\ QueryWaitTicks \in Waits /\ QueryReplyTicks \in Waits
BY QueryAssumption DEF Waits

LEMMA ReceiveKeeps ==
  ASSUME NEW s \in SessionType, NEW object
  PROVE  Receive(s, object) \in SessionType /\ (Ready(s) => Ready(Receive(s, object)))
<1> DEFINE d == Receive(s, object)
<1>1. \/ d = s
      \/ s.resource # "CONDITIONAL_ACCESS_SUPPORT" /\ d = [s EXCEPT !.state = 3]
      \/ s.resource # "CONDITIONAL_ACCESS_SUPPORT" /\ d = [s EXCEPT !.state = 2]
      \/ s.state = 1 /\ d = [s EXCEPT !.state = 2, !.wait = QueryWaitTicks]
      \/ s.resource = "CONDITIONAL_ACCESS_SUPPORT" /\ d = [s EXCEPT !.state = 5, !.wait = 0]
      \/ s.resource = "CONDITIONAL_ACCESS_SUPPORT" /\ d = [s EXCEPT !.state = 6, !.wait = 0]
  BY Zenon DEF Receive
<1>2. Ready(s) => s.resource = "CONDITIONAL_ACCESS_SUPPORT" /\ s.state # 1
  BY DEF Ready, SessionType
<1>3. 2 \in 0..6 /\ 3 \in 0..6 /\ 5 \in 0..6 /\ 6 \in 0..6
  OBVIOUS
<1> HIDE DEF d
<1>4. d \in SessionType /\ (Ready(s) => Ready(d))
  <2>1. CASE d = s
    BY <2>1
  <2>2. CASE s.resource # "CONDITIONAL_ACCESS_SUPPORT" /\ (d = [s EXCEPT !.state = 3] \/ d = [s EXCEPT !.state = 2])
    BY <1>2, <1>3, <2>2, SessionUpdate, WaitsHold, Zenon
  <2>3. CASE s.state = 1 /\ d = [s EXCEPT !.state = 2, !.wait = QueryWaitTicks]
    BY <1>2, <1>3, <2>3, SessionUpdate, WaitsHold, Zenon
  <2>4. CASE s.resource = "CONDITIONAL_ACCESS_SUPPORT" /\ d = [s EXCEPT !.state = 5, !.wait = 0]
    BY <1>3, <2>4, SessionUpdate, WaitsHold, Zenon
  <2>5. CASE s.resource = "CONDITIONAL_ACCESS_SUPPORT" /\ d = [s EXCEPT !.state = 6, !.wait = 0]
    BY <1>3, <2>5, SessionUpdate, WaitsHold, Zenon
  <2> QED
    BY <1>1, <2>1, <2>2, <2>3, <2>4, <2>5
<1> QED
  BY <1>4 DEF d

LEMMA ProcessKeeps ==
  ASSUME NEW s \in SessionType
  PROVE  Process(s) \in SessionType /\ (Ready(s) => Ready(Process(s)))
<1>1. /\ Enquires(s) => ~QueryDue(s) /\ ~NoReply(s) /\ ~Ready(s)
      /\ QueryDue(s) => ~NoReply(s) /\ ~Ready(s)
      /\ NoReply(s) => ~Ready(s)
  BY DEF SessionType, Ready, Enquires, QueryDue, NoReply
<1>2. 1 \in 0..6 /\ 3 \in 0..6 /\ 4 \in 0..6
  OBVIOUS
<1>3. CASE Enquires(s)
  BY <1>1, <1>2, <1>3, SessionUpdate, WaitsHold, Zenon DEF Process
<1>4. CASE QueryDue(s)
  BY <1>1, <1>2, <1>4, SessionUpdate, WaitsHold, Zenon DEF Process
<1>5. CASE NoReply(s)
  BY <1>1, <1>2, <1>5, SessionUpdate, WaitsHold, Zenon DEF Process
<1>6. CASE ~Enquires(s) /\ ~QueryDue(s) /\ ~NoReply(s)
  BY <1>6, Zenon DEF Process
<1> QED
  BY <1>3, <1>4, <1>5, <1>6

LEMMA ExpireKeeps ==
  ASSUME NEW s \in SessionType
  PROVE  Expire(s) \in SessionType /\ (Ready(s) => Ready(Expire(s)))
<1> DEFINE t == IF s.wait > 0 THEN s.wait - 1 ELSE 0
<1>1. t \in Waits
  BY QueryAssumption DEF SessionType, Waits
<1>2. Expire(s) = [s EXCEPT !.wait = t]
  BY DEF Expire
<1> HIDE DEF t
<1> QED
  BY <1>1, <1>2 DEF SessionType, Ready

-----------------------------------------------------------------------------
(* The connection.                                                          *)

(* Sending changes nothing but the connection's timer and what is asked.    *)
LEMMA SendTPDUSends ==
  ASSUME NEW c \in TcType, NEW what \in {"nothing", "create", "data"}
  PROVE  /\ SendTPDU(c, what) \in TcType
         /\ SendTPDU(c, what).state = c.state
         /\ SendTPDU(c, what).requested = c.requested
         /\ SendTPDU(c, what).sessions = c.sessions
BY DEF SendTPDU, TcType

(* Replacing a connection's sessions.                                       *)
LEMMA WithSessions ==
  ASSUME NEW c \in TcType, NEW s \in [SessionIds -> SessionType \cup {None}]
  PROVE  /\ [c EXCEPT !.sessions = s] \in TcType
         /\ [c EXCEPT !.sessions = s].state = c.state
         /\ [c EXCEPT !.sessions = s].requested = c.requested
         /\ [c EXCEPT !.sessions = s].sessions = s
BY DEF TcType

(* A step on the sessions of a connection that stays in its state.          *)
Continues(c, d) ==
  /\ d \in TcType
  /\ d.state = c.state
  /\ d.requested = c.requested
  /\ Keeps(c, d)

(* Sending after such a step.                                               *)
LEMMA SendTPDUContinues ==
  ASSUME NEW c \in TcType, NEW d, Continues(c, d), NEW what \in {"nothing", "create", "data"}
  PROVE  Continues(c, SendTPDU(d, what))
<1> DEFINE e == SendTPDU(d, what)
<1>1. e \in TcType /\ e.state = c.state /\ e.requested = c.requested /\ e.sessions = d.sessions
  BY SendTPDUSends DEF Continues
<1> HIDE DEF e
<1>2. Continues(c, e)
  BY <1>1, NoneAssumption DEF Continues, Keeps, HasSession
<1> QED
  BY <1>2 DEF e

(* Replacing one session by another that is ready if it was, or by none.    *)
LEMMA OneSession ==
  ASSUME NEW c \in TcType, NEW id \in SessionIds, NEW v \in SessionType \cup {None},
         c.sessions[id] # None /\ v # None /\ Ready(c.sessions[id]) => Ready(v)
  PROVE  Continues(c, [c EXCEPT !.sessions[id] = v])
<1> DEFINE s == [c.sessions EXCEPT ![id] = v]
           d == [c EXCEPT !.sessions = s]
<1>1. s \in [SessionIds -> SessionType \cup {None}]
  BY DEF TcType
<1>2. d \in TcType /\ d.state = c.state /\ d.requested = c.requested /\ d.sessions = s
  BY <1>1, WithSessions
<1>3. s[id] = v /\ \A i \in SessionIds \ {id} : s[i] = c.sessions[i]
  BY DEF TcType
<1>4. [c EXCEPT !.sessions[id] = v] = d
  BY DEF TcType
<1> HIDE DEF d, s
<1>5. Continues(c, d)
  BY <1>2, <1>3, NoneAssumption DEF Continues, Keeps, HasSession
<1> QED
  BY <1>4, <1>5

LEMMA OpenSessionContinues ==
  ASSUME NEW c \in TcType, NEW resource
  PROVE  Continues(c, OpenSession(c, resource))
<1> DEFINE free == {i \in SessionIds : c.sessions[i] = None}
           first == CHOOSE i \in free : \A j \in free : i <= j
<1>1. CASE Opened(c, resource) \/ free = {} \/ resource \notin Resources
  <2>1. OpenSession(c, resource) = c
    BY <1>1 DEF OpenSession
  <2> QED
    BY <2>1 DEF Continues, Keeps
<1>2. CASE ~(Opened(c, resource) \/ free = {} \/ resource \notin Resources)
  <2>1. \E i \in free : \A j \in free : i <= j
    <3>1. free \in SUBSET Nat /\ free # {}
      BY <1>2, LimitAssumption DEF SessionIds
    <3> HIDE DEF free
    <3> QED
      BY <3>1, LeastNat
  <2>2. first \in SessionIds /\ c.sessions[first] = None
    BY <2>1, Zenon
  <2>3. OpenSession(c, resource) = SendTPDU([c EXCEPT !.sessions[first] = Session(resource)], "data")
    BY <1>2, Zenon DEF OpenSession
  <2>4. Session(resource) \in SessionType
    BY <1>2, WaitsHold DEF Session, SessionType
  <2> HIDE DEF first
  <2>5. Continues(c, [c EXCEPT !.sessions[first] = Session(resource)])
    BY <2>2, <2>4, OneSession
  <2> QED
    BY <2>3, <2>5, SendTPDUContinues
<1> QED
  BY <1>1, <1>2

LEMMA CloseSessionContinues ==
  ASSUME NEW c \in TcType, NEW id
  PROVE  Continues(c, CloseSession(c, id))
<1>1. Continues(c, c)
  BY DEF Continues, Keeps
<1>2. id \in SessionIds => Continues(c, [c EXCEPT !.sessions[id] = None])
  BY OneSession
<1> QED
  BY <1>1, <1>2, SendTPDUContinues DEF CloseSession

LEMMA ReceiveObjectContinues ==
  ASSUME NEW c \in TcType, NEW id, NEW object
  PROVE  Continues(c, ReceiveObject(c, id, object))
<1> DEFINE v == Receive(c.sessions[id], object)
           d == [c EXCEPT !.sessions[id] = v]
<1>1. Continues(c, c)
  BY DEF Continues, Keeps
<1>2. CASE id \in SessionIds /\ c.sessions[id] # None
  <2>1. c.sessions[id] \in SessionType
    BY <1>2 DEF TcType
  <2>2. v \in SessionType /\ (Ready(c.sessions[id]) => Ready(v))
    BY <2>1, ReceiveKeeps
  <2>3. ReceiveObject(c, id, object) = IF Answers(c.sessions[id], object) THEN SendTPDU(d, "data") ELSE d
    BY <1>2 DEF ReceiveObject
  <2> HIDE DEF v
  <2>4. Continues(c, d)
    BY <1>2, <2>2, OneSession
  <2> HIDE DEF d
  <2>5. Continues(c, SendTPDU(d, "data"))
    BY <2>4, SendTPDUContinues
  <2> QED
    BY <2>3, <2>4, <2>5
<1>3. CASE ~(id \in SessionIds /\ c.sessions[id] # None)
  BY <1>1, <1>3 DEF ReceiveObject
<1> QED
  BY <1>2, <1>3

LEMMA HandleSessionsContinues ==
  ASSUME NEW c \in TcType, NEW data
  PROVE  Continues(c, HandleSessions(c, data))
<1>1. Continues(c, c)
  BY DEF Continues, Keeps
<1> QED
  BY <1>1, OpenSessionContinues, CloseSessionContinues, ReceiveObjectContinues, Zenon DEF HandleSessions

(* The loop over the sessions opens none.                                   *)
LEMMA ProcessSessionsContinues ==
  ASSUME NEW c \in TcType
  PROVE  Continues(c, ProcessSessions(c)) /\ OpensNone(c, ProcessSessions(c))
<1> DEFINE open == {i \in SessionIds : c.sessions[i] # None}
           s == [i \in SessionIds |-> IF i \in open THEN Process(c.sessions[i]) ELSE None]
           d == [c EXCEPT !.sessions = s]
<1>1. \A i \in open : Process(c.sessions[i]) \in SessionType
                      /\ (Ready(c.sessions[i]) => Ready(Process(c.sessions[i])))
  BY ProcessKeeps DEF TcType
<1>2. s \in [SessionIds -> SessionType \cup {None}]
  BY <1>1
<1>3. d \in TcType /\ d.state = c.state /\ d.requested = c.requested /\ d.sessions = s
  BY <1>2, WithSessions
<1>4. \A i \in SessionIds : IF i \in open THEN s[i] = Process(c.sessions[i]) ELSE s[i] = None
  OBVIOUS
<1>5. ProcessSessions(c) = IF \E i \in open : Sends(c.sessions[i]) THEN SendTPDU(d, "data") ELSE d
  BY Zenon DEF ProcessSessions
<1> HIDE DEF d, s
<1>6. Continues(c, d) /\ OpensNone(c, d)
  BY <1>1, <1>3, <1>4, NoneAssumption DEF Continues, Keeps, OpensNone, HasSession
<1>7. Continues(c, SendTPDU(d, "data")) /\ OpensNone(c, SendTPDU(d, "data"))
  BY <1>3, <1>6, SendTPDUContinues, SendTPDUSends, NoneAssumption DEF OpensNone, HasSession
<1> QED
  BY <1>5, <1>6, <1>7, Zenon

(* A step of a connection in its life: it keeps the invariant.              *)
LEMMA ContinuesInv ==
  ASSUME NEW c, NEW d, TcInv(c), Continues(c, d), c.state = "ACTIVE" \/ d.sessions = c.sessions
  PROVE  TcInv(d)
BY DEF TcInv, Continues

LEMMA CreateInv ==
  ASSUME NEW c, TcInv(c), c.state = "IDLE"
  PROVE  TcInv(Create(c)) /\ Create(c).sessions = c.sessions
<1> DEFINE s == SendTPDU(c, "create")
           d == [s EXCEPT !.requested = FALSE, !.state = "CREATION"]
<1>1. s \in TcType /\ s.state = c.state /\ s.requested = c.requested /\ s.sessions = c.sessions
  BY SendTPDUSends DEF TcInv
<1> HIDE DEF s
<1>2. c.requested => TcInv(d) /\ d.sessions = c.sessions
  BY <1>1 DEF TcInv, TcType
<1>3. Create(c) = IF c.requested THEN d ELSE c
  BY DEF Create, s
<1> HIDE DEF d
<1> QED
  BY <1>2, <1>3

LEMMA MoreContinues ==
  ASSUME NEW c \in TcType, NEW d, Continues(c, d), NEW tpdu
  PROVE  Continues(c, More(d, tpdu))
BY SendTPDUContinues DEF More

LEMMA ActiveInv ==
  ASSUME NEW c, TcInv(c), c.state = "ACTIVE", NEW tpdu
  PROVE  TcInv(Active(c, tpdu)) /\ Keeps(c, Active(c, tpdu))
<1>1. c \in TcType /\ Continues(c, c)
  BY DEF TcInv, Continues, Keeps
<1>2. ASSUME NEW d, Continues(c, d)
      PROVE  TcInv(ProcessSessions(d)) /\ Keeps(c, ProcessSessions(d))
  <2> DEFINE e == ProcessSessions(d)
  <2>1. Continues(d, e) /\ OpensNone(d, e)
    BY <1>2, ProcessSessionsContinues DEF Continues
  <2> HIDE DEF e
  <2>2. Continues(c, e)
    BY <1>2, <2>1, KeepsOn DEF Continues
  <2>3. TcInv(e)
    BY <2>2, ContinuesInv
  <2> QED
    BY <2>2, <2>3 DEF e, Continues
<1>3. Continues(c, More(HandleSessions(c, tpdu.data), tpdu)) /\ Continues(c, More(c, tpdu))
  BY <1>1, HandleSessionsContinues, MoreContinues
<1>4. /\ TcInv([SendTPDU(c, "nothing") EXCEPT !.state = "IDLE"])
      /\ Keeps(c, [SendTPDU(c, "nothing") EXCEPT !.state = "IDLE"])
  <2> DEFINE d == SendTPDU(c, "nothing")
             e == [d EXCEPT !.state = "IDLE"]
  <2>1. d \in TcType /\ d.state = c.state /\ d.requested = c.requested /\ d.sessions = c.sessions
    BY <1>1, SendTPDUSends
  <2> HIDE DEF d
  <2>2. e \in TcType /\ e.state = "IDLE" /\ e.requested = d.requested /\ e.sessions = d.sessions
    BY <2>1 DEF TcType
  <2> HIDE DEF e
  <2>3. TcInv(e) /\ Keeps(c, e)
    BY <2>1, <2>2, NoneAssumption DEF TcInv, Keeps, HasSession
  <2> QED
    BY <2>3 DEF e, d
<1> QED
  BY <1>1, <1>2, <1>3, <1>4, Zenon DEF Active

(* A creation that timed out is given up.                                   *)
LEMMA TimedOutInv ==
  ASSUME NEW c, TcInv(c), c.state = "CREATION"
  PROVE  /\ TcInv(IF c.due THEN [c EXCEPT !.state = "IDLE", !.due = FALSE] ELSE c)
         /\ (IF c.due THEN [c EXCEPT !.state = "IDLE", !.due = FALSE] ELSE c).sessions = c.sessions
<1>1. /\ TcInv([c EXCEPT !.state = "IDLE", !.due = FALSE])
      /\ [c EXCEPT !.state = "IDLE", !.due = FALSE].sessions = c.sessions
  BY DEF TcInv, TcType
<1> QED
  BY <1>1

(* A step that leaves the sessions as they were.                            *)
LEMMA SameSessions ==
  ASSUME NEW c \in TcType, NEW d \in TcType, d.sessions = c.sessions
  PROVE  Keeps(c, d) /\ OpensNone(c, d)
BY NoneAssumption DEF Keeps, OpensNone, HasSession

LEMMA ProcessTPDUInv ==
  ASSUME NEW tc, TcInv(tc), NEW tpdu
  PROVE  TcInv(ProcessTPDU(tc, tpdu)) /\ Keeps(tc, ProcessTPDU(tc, tpdu))
<1> DEFINE c == [tc EXCEPT !.alive = AliveTicks]
           d == ProcessTPDU(tc, tpdu)
<1>1. TcInv(c) /\ c.sessions = tc.sessions /\ c.state \in {"IDLE", "ACTIVE", "CREATION"}
  BY LimitAssumption DEF TcInv, TcType
<1>2. ProcessTPDU(tc, tpdu) =
        CASE c.state = "IDLE"   -> Create(c)
          [] c.state = "ACTIVE" -> Active(c, tpdu)
          [] c.state = "CREATION" /\ tpdu.tag = "CTC_REPLY" ->
               [SendTPDU(c, "data") EXCEPT !.state = "ACTIVE"]
          [] c.state = "CREATION" /\ tpdu.tag # "CTC_REPLY" ->
               IF c.due THEN [c EXCEPT !.state = "IDLE", !.due = FALSE] ELSE c
  BY Zenon DEF ProcessTPDU
<1> HIDE DEF c, d
<1>3. TcInv(d) /\ Keeps(c, d)
  <2>1. CASE c.state = "IDLE"
    <3>1. d = Create(c)
      BY <1>2, <2>1, Zenon DEF d
    <3> QED
      BY <1>1, <2>1, <3>1, CreateInv, SameSessions DEF TcInv
  <2>2. CASE c.state = "ACTIVE"
    <3>1. d = Active(c, tpdu)
      BY <1>2, <2>2, Zenon DEF d
    <3> QED
      BY <1>1, <2>2, <3>1, ActiveInv
  <2>3. CASE c.state = "CREATION" /\ tpdu.tag = "CTC_REPLY"
    <3> DEFINE e == SendTPDU(c, "data")
    <3>1. d = [e EXCEPT !.state = "ACTIVE"]
      BY <1>2, <2>3, Zenon DEF d
    <3>2. e \in TcType /\ e.requested = c.requested /\ e.sessions = c.sessions
      BY <1>1, SendTPDUSends DEF TcInv
    <3> HIDE DEF e
    <3>3. d \in TcType /\ d.state = "ACTIVE" /\ d.requested = e.requested /\ d.sessions = e.sessions
      BY <3>1, <3>2 DEF TcType
    <3> QED
      BY <1>1, <2>3, <3>2, <3>3, SameSessions DEF TcInv
  <2>4. CASE c.state = "CREATION" /\ tpdu.tag # "CTC_REPLY"
    <3>1. d = IF c.due THEN [c EXCEPT !.state = "IDLE", !.due = FALSE] ELSE c
      BY <1>2, <2>4, Zenon DEF d
    <3>2. TcInv(d) /\ d.sessions = c.sessions
      BY <1>1, <2>4, <3>1, TimedOutInv, Zenon
    <3> QED
      BY <1>1, <3>2, SameSessions DEF TcInv
  <2> QED
    BY <1>1, <2>1, <2>2, <2>3, <2>4
<1>4. Keeps(tc, d)
  BY <1>1, <1>3, NoneAssumption DEF Keeps, HasSession, TcInv
<1> QED
  BY <1>3, <1>4 DEF d

LEMMA ProcessTcInv ==
  ASSUME NEW c, TcInv(c)
  PROVE  TcInv(ProcessTc(c)) /\ Keeps(c, ProcessTc(c)) /\ OpensNone(c, ProcessTc(c))
<1> DEFINE d == ProcessTc(c)
<1>1. c \in TcType /\ c.state \in {"IDLE", "ACTIVE", "CREATION"}
  BY DEF TcInv, TcType
<1>2. CASE c.state = "IDLE"
  <2>1. d = Create(c)
    BY <1>2, Zenon DEF ProcessTc
  <2> HIDE DEF d
  <2>2. TcInv(d) /\ Keeps(c, d) /\ OpensNone(c, d)
    BY <1>1, <1>2, <2>1, CreateInv, SameSessions DEF TcInv
  <2> QED
    BY <2>2 DEF d
<1>3. CASE c.state = "CREATION"
  <2>1. d = IF c.due THEN [c EXCEPT !.state = "IDLE", !.due = FALSE] ELSE c
    BY <1>3, Zenon DEF ProcessTc
  <2> HIDE DEF d
  <2>2. TcInv(d) /\ d.sessions = c.sessions
    BY <1>3, <2>1, TimedOutInv, Zenon
  <2>3. Keeps(c, d) /\ OpensNone(c, d)
    BY <1>1, <2>2, SameSessions DEF TcInv
  <2> QED
    BY <2>2, <2>3 DEF d
<1>4. CASE c.state = "ACTIVE"
  <2> DEFINE e == IF c.due THEN SendTPDU(c, "data") ELSE c
  <2>1. d = ProcessSessions(e)
    BY <1>4, Zenon DEF ProcessTc
  <2>2. e \in TcType /\ e.state = c.state /\ e.requested = c.requested /\ e.sessions = c.sessions
    BY <1>1, SendTPDUSends
  <2> HIDE DEF d, e
  <2>3. Continues(e, d) /\ OpensNone(e, d)
    BY <2>1, <2>2, ProcessSessionsContinues
  <2>4. Continues(c, d) /\ OpensNone(c, d)
    BY <1>1, <2>2, <2>3, NoneAssumption DEF Continues, Keeps, OpensNone, HasSession
  <2>5. TcInv(d) /\ Keeps(c, d)
    BY <1>4, <2>4, ContinuesInv DEF Continues
  <2> QED
    BY <2>4, <2>5 DEF d
<1> QED
  BY <1>1, <1>2, <1>3, <1>4

LEMMA ElapseInv ==
  ASSUME NEW c, TcInv(c), c # None
  PROVE  TcInv(Elapse(c)) /\ Keeps(c, Elapse(c)) /\ OpensNone(c, Elapse(c))
<1> DEFINE b == c.state # "IDLE"
           a == IF c.alive > 0 THEN c.alive - 1 ELSE 0
           s == [i \in SessionIds |-> IF c.sessions[i] = None THEN None ELSE Expire(c.sessions[i])]
           d == [c EXCEPT !.due = b, !.alive = a, !.sessions = s]
<1>1. Elapse(c) = d
  BY DEF Elapse, TcInv, TcType
<1>2. b \in BOOLEAN /\ a \in 0..AliveTicks
  BY LimitAssumption DEF TcInv, TcType
<1>3. \A i \in SessionIds : c.sessions[i] # None =>
        Expire(c.sessions[i]) \in SessionType /\ (Ready(c.sessions[i]) => Ready(Expire(c.sessions[i])))
  BY ExpireKeeps DEF TcInv, TcType
<1>4. s \in [SessionIds -> SessionType \cup {None}]
  BY <1>3
<1>5. \A i \in SessionIds : s[i] = IF c.sessions[i] = None THEN None ELSE Expire(c.sessions[i])
  OBVIOUS
<1> HIDE DEF b, a, s
<1>6. d \in TcType /\ d.state = c.state /\ d.requested = c.requested /\ d.sessions = s
  BY <1>2, <1>4 DEF TcInv, TcType
<1> HIDE DEF d
<1>7. TcInv(d)
  BY <1>5, <1>6 DEF TcInv
<1>8. Keeps(c, d) /\ OpensNone(c, d)
  BY <1>3, <1>5, <1>6, NoneAssumption DEF Keeps, OpensNone, HasSession
<1> QED
  BY <1>1, <1>7, <1>8

-----------------------------------------------------------------------------
(* The slot.                                                                *)

StType == [slot : SlotType, cam : CamType, failed : BOOLEAN]

StInv(st) ==
  st \in StType /\ \A n \in Connections : st.slot.tc[n] # None => TcInv(st.slot.tc[n])

KeepsAll(st, su) == \A n \in Connections : Keeps(st.slot.tc[n], su.slot.tc[n])

OpensNoneAtAll(st, su) == \A n \in Connections : OpensNone(st.slot.tc[n], su.slot.tc[n])

LEMMA KeepsAllOn ==
  ASSUME NEW st, NEW su, NEW sv, KeepsAll(st, su), KeepsAll(su, sv), OpensNoneAtAll(su, sv)
  PROVE  KeepsAll(st, sv)
BY KeepsOn DEF KeepsAll, OpensNoneAtAll

LEMMA NoTcIsNone ==
  NoTc \in [Connections -> TcType \cup {None}] /\ \A n \in Connections : NoTc[n] = None
BY DEF NoTc

LEMMA ResetInv ==
  ASSUME NEW st, StInv(st), NEW ok \in BOOLEAN
  PROVE  StInv(Reset(st, ok)) /\ KeepsAll(st, Reset(st, ok)) /\ OpensNoneAtAll(st, Reset(st, ok))
<1> DEFINE su == Reset(st, ok)
<1>1. CASE ok
  <2> DEFINE s == [st.slot EXCEPT !.tc = NoTc, !.lastModuleStatus = "reset", !.resetTime = ResetTicks]
             m == [st.cam EXCEPT !.status = "none", !.open = {}]
  <2>1. s \in SlotType /\ s.tc = NoTc
    <3>1. ResetTicks \in 0..ResetTicks
      BY LimitAssumption
    <3> QED
      BY <3>1, NoTcIsNone DEF StInv, StType, SlotType, ModuleStatuses
  <2>2. m \in CamType
    BY DEF StInv, StType, CamType, ModuleStatuses
  <2>3. su = [slot |-> s, cam |-> m, failed |-> st.failed]
    BY <1>1 DEF Reset
  <2> HIDE DEF s, m, su
  <2>4. su \in StType /\ su.slot.tc = NoTc
    BY <2>1, <2>2, <2>3 DEF StInv, StType
  <2> QED
    BY <2>4, NoTcIsNone DEF su, StInv, KeepsAll, OpensNoneAtAll, Keeps, OpensNone, HasSession
<1>2. CASE ~ok
  <2> DEFINE s == [st.slot EXCEPT !.tc = NoTc]
  <2>1. s \in SlotType /\ s.tc = NoTc
    BY NoTcIsNone DEF StInv, StType, SlotType
  <2>2. su = [slot |-> s, cam |-> st.cam, failed |-> TRUE]
    BY <1>2 DEF Reset, StInv, StType
  <2> HIDE DEF s, su
  <2>3. su \in StType /\ su.slot.tc = NoTc
    BY <2>1, <2>2 DEF StInv, StType
  <2> QED
    BY <2>3, NoTcIsNone DEF su, StInv, KeepsAll, OpensNoneAtAll, Keeps, OpensNone, HasSession
<1> QED
  BY <1>1, <1>2

LEMMA NewTcInv ==
  TcInv(NewTc) /\ \A i \in SessionIds : NewTc.sessions[i] = None
BY LimitAssumption DEF NewTc, TcInv, TcType

(* A new connection takes a free place and has no session.                  *)
LEMMA NewConnectionInv ==
  ASSUME NEW tc \in [Connections -> TcType \cup {None}]
  PROVE  /\ NewConnection(tc) \in [Connections -> TcType \cup {None}]
         /\ \A n \in Connections : NewConnection(tc)[n] = tc[n] \/ (tc[n] = None /\ NewConnection(tc)[n] = NewTc)
<1> DEFINE free == {n \in Connections : tc[n] = None}
           first == CHOOSE n \in free : \A m \in free : n <= m
<1>1. CASE free = {}
  BY <1>1 DEF NewConnection
<1>2. CASE free # {}
  <2>1. \E n \in free : \A m \in free : n <= m
    <3>1. free \in SUBSET Nat
      BY LimitAssumption DEF Connections
    <3> HIDE DEF free
    <3> QED
      BY <1>2, <3>1, LeastNat
  <2>2. first \in Connections /\ tc[first] = None
    BY <2>1, Zenon
  <2>3. NewConnection(tc) = [tc EXCEPT ![first] = NewTc]
    BY <1>2, Zenon DEF NewConnection
  <2> HIDE DEF first
  <2> QED
    BY <2>2, <2>3, NewTcInv DEF TcInv
<1> QED
  BY <1>1, <1>2

LEMMA CheckModuleInv ==
  ASSUME NEW st, StInv(st)
  PROVE  StInv(CheckModule(st)) /\ KeepsAll(st, CheckModule(st)) /\ OpensNoneAtAll(st, CheckModule(st))
<1> DEFINE ms == ModuleStatus(st)
           old == st.slot.tc
           tc == CASE ms = st.slot.lastModuleStatus -> old
                   [] ms # st.slot.lastModuleStatus /\ ms \in {"none", "reset"} -> NoTc
                   [] ms # st.slot.lastModuleStatus /\ ms = "present" -> old
                   [] ms # st.slot.lastModuleStatus /\ ms = "ready" -> NewConnection(old)
           s == [tc |-> tc, lastModuleStatus |-> ms, resetTime |-> ResetTime(st), checkDue |-> FALSE]
           su == CheckModule(st)
<1>1. ms \in ModuleStatuses /\ ResetTime(st) \in 0..ResetTicks
  BY LimitAssumption DEF Shown, ModuleStatus, ResetTime, StInv, StType, SlotType, CamType, ModuleStatuses
<1>2. old \in [Connections -> TcType \cup {None}]
  BY DEF StInv, StType, SlotType
<1>3. CheckModule(st) = [st EXCEPT !.slot = s]
  BY DEF CheckModule
<1> HIDE DEF ms, old
<1>4. tc = old \/ tc = NoTc \/ tc = NewConnection(old)
  BY <1>1, Zenon DEF ModuleStatuses
<1> HIDE DEF tc
<1>5. /\ tc \in [Connections -> TcType \cup {None}]
      /\ \A n \in Connections : tc[n] = old[n] \/ tc[n] = None \/ tc[n] = NewTc
  BY <1>2, <1>4, NoTcIsNone, NewConnectionInv
<1>6. s \in SlotType /\ s.tc = tc
  BY <1>1, <1>5 DEF SlotType
<1> HIDE DEF s, su
<1>7. su \in StType /\ su.slot.tc = tc
  BY <1>3, <1>6 DEF su, StInv, StType
<1>8. StInv(su)
  BY <1>5, <1>7, NewTcInv DEF StInv, old
<1>9. \A n \in Connections : Keeps(old[n], tc[n]) /\ OpensNone(old[n], tc[n])
  BY <1>5, NewTcInv, NoneAssumption DEF Keeps, OpensNone, HasSession
<1> QED
  BY <1>7, <1>8, <1>9 DEF su, KeepsAll, OpensNoneAtAll, old

LEMMA ProcessAllInv ==
  ASSUME NEW st, StInv(st)
  PROVE  StInv(ProcessAll(st)) /\ KeepsAll(st, ProcessAll(st)) /\ OpensNoneAtAll(st, ProcessAll(st))
<1> DEFINE old == st.slot.tc
           tc == [n \in Connections |-> IF old[n] = None THEN None ELSE ProcessTc(old[n])]
           s == [st.slot EXCEPT !.tc = tc]
           su == [st EXCEPT !.slot = s]
<1>1. ProcessAll(st) = su
  BY DEF ProcessAll, StInv, StType, SlotType
<1>2. \A n \in Connections : old[n] # None =>
        TcInv(ProcessTc(old[n])) /\ Keeps(old[n], ProcessTc(old[n])) /\ OpensNone(old[n], ProcessTc(old[n]))
  BY ProcessTcInv DEF StInv
<1>3. tc \in [Connections -> TcType \cup {None}]
  BY <1>2 DEF TcInv
<1>4. \A n \in Connections : tc[n] = IF old[n] = None THEN None ELSE ProcessTc(old[n])
  OBVIOUS
<1> HIDE DEF tc
<1>5. s \in SlotType /\ s.tc = tc
  BY <1>3 DEF StInv, StType, SlotType
<1> HIDE DEF s
<1>6. su \in StType /\ su.slot.tc = tc
  BY <1>5 DEF StInv, StType
<1> HIDE DEF su
<1>7. StInv(su)
  BY <1>2, <1>4, <1>6 DEF StInv
<1>8. \A n \in Connections : Keeps(old[n], tc[n]) /\ OpensNone(old[n], tc[n])
  BY <1>2, <1>4 DEF Keeps, OpensNone, HasSession
<1> QED
  BY <1>1, <1>6, <1>7, <1>8 DEF KeepsAll, OpensNoneAtAll

LEMMA ProcessSlotInv ==
  ASSUME NEW st, StInv(st), NEW su \in ProcessSlot(st)
  PROVE  StInv(su) /\ KeepsAll(st, su) /\ OpensNoneAtAll(st, su)
<1>1. CASE Dead(st)
  BY <1>1, ResetInv DEF ProcessSlot
<1>2. CASE ~Dead(st)
  <2> DEFINE p == ProcessAll(st)
  <2>1. StInv(p) /\ KeepsAll(st, p) /\ OpensNoneAtAll(st, p)
    BY ProcessAllInv
  <2>2. su = IF p.slot.checkDue THEN CheckModule(p) ELSE p
    BY <1>2 DEF ProcessSlot
  <2> HIDE DEF p
  <2>3. StInv(CheckModule(p)) /\ KeepsAll(p, CheckModule(p)) /\ OpensNoneAtAll(p, CheckModule(p))
    BY <2>1, CheckModuleInv
  <2>4. KeepsAll(st, CheckModule(p)) /\ OpensNoneAtAll(st, CheckModule(p))
    BY <2>1, <2>3, KeepsAllOn DEF OpensNoneAtAll, OpensNone
  <2> QED
    BY <2>1, <2>2, <2>3, <2>4
<1> QED
  BY <1>1, <1>2

LEMMA DeliverInv ==
  ASSUME NEW st, StInv(st), NEW n \in Connections, NEW tpdu
  PROVE  StInv(Deliver(st, n, tpdu)) /\ KeepsAll(st, Deliver(st, n, tpdu))
<1> DEFINE old == st.slot.tc
           d == ProcessTPDU(old[n], tpdu)
           tc == [old EXCEPT ![n] = d]
           s == [st.slot EXCEPT !.tc = tc]
           su == [st EXCEPT !.slot = s]
<1>1. CASE old[n] = None
  BY <1>1 DEF Deliver, KeepsAll, Keeps
<1>2. CASE old[n] # None
  <2>1. Deliver(st, n, tpdu) = su
    BY <1>2 DEF Deliver, StInv, StType, SlotType
  <2>2. TcInv(d) /\ Keeps(old[n], d)
    BY <1>2, ProcessTPDUInv DEF StInv
  <2>3. old \in [Connections -> TcType \cup {None}] /\ \A m \in Connections : old[m] # None => TcInv(old[m])
    BY DEF StInv, StType, SlotType
  <2> HIDE DEF d
  <2>4. /\ tc \in [Connections -> TcType \cup {None}]
        /\ \A m \in Connections : tc[m] = IF m = n THEN d ELSE old[m]
    BY <2>2, <2>3 DEF TcInv
  <2> HIDE DEF tc
  <2>5. s \in SlotType /\ s.tc = tc
    BY <2>4 DEF StInv, StType, SlotType
  <2> HIDE DEF s
  <2>6. su \in StType /\ su.slot.tc = tc
    BY <2>5 DEF StInv, StType
  <2> HIDE DEF su
  <2>7. StInv(su)
    BY <2>2, <2>3, <2>4, <2>6 DEF StInv
  <2>8. \A m \in Connections : Keeps(old[m], tc[m])
    BY <2>2, <2>4 DEF Keeps
  <2> QED
    BY <2>1, <2>6, <2>7, <2>8 DEF KeepsAll
<1> QED
  BY <1>1, <1>2

-----------------------------------------------------------------------------
(* The thread, the CAM and time.                                            *)

(* The invariant, in terms of what a turn of the thread works on.           *)
LEMMA NowInv ==
  IndInv <=> StInv(Now) /\ ran \in BOOLEAN /\ faults \in 0..MaxFaults
BY DEF IndInv, StInv, StType, Now, TypeOK

LEMMA NowInvNext ==
  StInv(Now') /\ ran' \in BOOLEAN /\ faults' \in 0..MaxFaults => IndInv'
BY DEF IndInv, StInv, StType, Now, TypeOK

LEMMA InitInd ==
  Init => IndInv
<1> SUFFICES ASSUME Init
             PROVE  IndInv
  OBVIOUS
<1>1. slot \in SlotType /\ slot.tc = NoTc
  BY NoTcIsNone, LimitAssumption DEF Init, SlotType, ModuleStatuses
<1>2. cam \in CamType
  BY DEF Init, CamType, ModuleStatuses
<1>3. ran \in BOOLEAN /\ resetFailed \in BOOLEAN
  BY Zenon DEF Init
<1>4. faults \in 0..MaxFaults
  BY LimitAssumption DEF Init
<1> QED
  BY <1>1, <1>2, <1>3, <1>4, NoTcIsNone DEF IndInv, TypeOK

LEMMA BecomeNow ==
  ASSUME NEW st \in StType, Become(st)
  PROVE  Now' = st /\ ran' = TRUE
BY DEF Become, Now, StType

(* What the CAM does before the thread reads its TPDU leaves the sessions   *)
(* alone.                                                                   *)
LeavesSessions(st, su) ==
  \A n \in Connections, i \in SessionIds :
    HasSession(st.slot.tc[n], i) =>
      HasSession(su.slot.tc[n], i) /\ su.slot.tc[n].sessions[i] = st.slot.tc[n].sessions[i]

LEMMA TurnWithInd ==
  ASSUME NEW st, StInv(st), LeavesSessions(Now, st), NEW n \in Connections, NEW tpdu, TurnWith(st, n, tpdu)
  PROVE  StInv(Now') /\ KeepsAll(Now, Now') /\ ran' = TRUE
<1> DEFINE read == Deliver(st, n, tpdu)
<1>1. StInv(read) /\ KeepsAll(st, read)
  BY DeliverInv
<1>2. PICK once \in ProcessSlot(read) : \E twice \in ProcessSlot(once) : Become(twice)
  BY DEF TurnWith
<1>3. PICK twice \in ProcessSlot(once) : Become(twice)
  BY <1>2
<1> HIDE DEF read
<1>4. StInv(once) /\ KeepsAll(read, once) /\ OpensNoneAtAll(read, once)
  BY <1>1, ProcessSlotInv
<1>5. StInv(twice) /\ KeepsAll(once, twice) /\ OpensNoneAtAll(once, twice)
  BY <1>4, ProcessSlotInv
<1>6. Now' = twice /\ ran' = TRUE
  BY <1>3, <1>5, BecomeNow DEF StInv
<1>7. KeepsAll(Now, read)
  BY <1>1 DEF LeavesSessions, KeepsAll, Keeps
<1>8. KeepsAll(Now, twice)
  BY <1>4, <1>5, <1>7, KeepsAllOn
<1> QED
  BY <1>5, <1>6, <1>8

LEMMA TurnInd ==
  ASSUME IndInv, Turn
  PROVE  IndInv' /\ KeepsAll(Now, Now')
<1>1. StInv(Now)
  BY NowInv
<1>2. PICK once \in ProcessSlot(Now) : Become(once)
  BY DEF Turn
<1>3. StInv(once) /\ KeepsAll(Now, once)
  BY <1>1, ProcessSlotInv
<1>4. Now' = once /\ ran' = TRUE
  BY <1>2, <1>3, BecomeNow DEF StInv
<1>5. faults' \in 0..MaxFaults
  BY NowInv DEF Turn
<1> QED
  BY <1>3, <1>4, <1>5, NowInvNext

LEMMA AnswerInd ==
  ASSUME IndInv, NEW n \in Connections, Answer(n)
  PROVE  IndInv' /\ KeepsAll(Now, Now')
<1> DEFINE c == [slot.tc[n] EXCEPT !.asked = "nothing"]
           tc == [slot.tc EXCEPT ![n] = c]
           s == [slot EXCEPT !.tc = tc]
           m == [cam EXCEPT !.open = @ \cup {n}]
           st == [Now EXCEPT !.slot = s, !.cam = m]
<1>1. [Now EXCEPT !.slot.tc[n].asked = "nothing", !.cam.open = @ \cup {n}] = st
  <2>1. Now = [slot |-> slot, cam |-> cam, failed |-> resetFailed]
    BY DEF Now
  <2>2. [slot EXCEPT !.tc[n].asked = "nothing"] = s
    BY DEF IndInv, TypeOK, SlotType
  <2>3. [Now EXCEPT !.slot.tc[n].asked = "nothing", !.cam.open = @ \cup {n}] =
          [Now EXCEPT !.slot = [slot EXCEPT !.tc[n].asked = "nothing"], !.cam = m]
    BY <2>1
  <2> QED
    BY <2>2, <2>3, Zenon
<1>2. \E tpdu : TurnWith(st, n, tpdu)
  BY <1>1, Zenon DEF Answer
<1>3. TcInv(slot.tc[n]) /\ slot.tc \in [Connections -> TcType \cup {None}]
  BY DEF Answer, Owes, IndInv, TypeOK, SlotType
<1>4. TcInv(c) /\ c.sessions = slot.tc[n].sessions
  BY <1>3 DEF TcInv, TcType
<1> HIDE DEF c
<1>5. /\ tc \in [Connections -> TcType \cup {None}]
      /\ \A k \in Connections : tc[k] = IF k = n THEN c ELSE slot.tc[k]
  BY <1>3, <1>4 DEF TcInv
<1> HIDE DEF tc
<1>6. s \in SlotType /\ s.tc = tc
  BY <1>5 DEF IndInv, TypeOK, SlotType
<1>7. m \in CamType
  BY DEF IndInv, TypeOK, CamType
<1> HIDE DEF s, m
<1>8. st \in StType /\ st.slot.tc = tc
  BY <1>6, <1>7 DEF StType, Now, IndInv, TypeOK
<1> HIDE DEF st
<1>9. StInv(st)
  BY <1>4, <1>5, <1>8 DEF StInv, IndInv
<1>10. LeavesSessions(Now, st)
  <2>1. \A k \in Connections, i \in SessionIds : HasSession(slot.tc[k], i) =>
          HasSession(tc[k], i) /\ tc[k].sessions[i] = slot.tc[k].sessions[i]
    BY <1>4, <1>5, NoneAssumption DEF HasSession, TcInv
  <2> QED
    BY <1>8, <2>1 DEF LeavesSessions, Now
<1>11. faults' \in 0..MaxFaults
  BY DEF Answer, IndInv, TypeOK
<1> QED
  BY <1>2, <1>9, <1>10, <1>11, TurnWithInd, NowInvNext

LEMMA StrayInd ==
  ASSUME IndInv, NEW n \in Connections, Stray(n)
  PROVE  IndInv' /\ KeepsAll(Now, Now')
<1> DEFINE m == [cam EXCEPT !.open = @ \ {n}]
           st == [slot |-> slot, cam |-> m, failed |-> resetFailed]
<1>1. [Now EXCEPT !.cam.open = @ \ {n}] = st
  <2>1. Now = [slot |-> slot, cam |-> cam, failed |-> resetFailed]
    BY DEF Now
  <2> QED
    BY <2>1
<1>2. \E tpdu : TurnWith(Now, n, tpdu) \/ TurnWith(st, n, tpdu)
  BY <1>1, Zenon DEF Stray
<1>3. m \in CamType
  BY DEF IndInv, TypeOK, CamType
<1> HIDE DEF m
<1>4. StInv(st) /\ StInv(Now) /\ st.slot = slot /\ Now.slot = slot
  BY <1>3 DEF StInv, StType, Now, IndInv, TypeOK
<1> HIDE DEF st
<1>5. LeavesSessions(Now, Now) /\ LeavesSessions(Now, st)
  BY <1>4 DEF LeavesSessions
<1>6. faults' \in 0..MaxFaults
  BY LimitAssumption DEF Stray, Fault, IndInv, TypeOK
<1> QED
  BY <1>2, <1>4, <1>5, <1>6, TurnWithInd, NowInvNext

LEMMA TickInd ==
  ASSUME IndInv, Tick
  PROVE  IndInv' /\ KeepsAll(Now, Now')
<1> DEFINE tc == [n \in Connections |-> Elapse(slot.tc[n])]
           r == IF slot.resetTime > 0 THEN slot.resetTime - 1 ELSE 0
<1>1. slot' = [slot EXCEPT !.checkDue = TRUE, !.resetTime = r, !.tc = tc]
  BY DEF Tick, IndInv, TypeOK, SlotType
<1>2. \A n \in Connections : slot.tc[n] # None =>
        TcInv(Elapse(slot.tc[n])) /\ Keeps(slot.tc[n], Elapse(slot.tc[n]))
  BY ElapseInv DEF IndInv
<1>3. \A n \in Connections : slot.tc[n] = None => Elapse(slot.tc[n]) = None
  BY DEF Elapse
<1>4. /\ tc \in [Connections -> TcType \cup {None}]
      /\ \A n \in Connections : tc[n] = Elapse(slot.tc[n])
  BY <1>2, <1>3 DEF TcInv
<1>5. r \in 0..ResetTicks
  BY LimitAssumption DEF IndInv, TypeOK, SlotType
<1> HIDE DEF tc, r
<1>6. slot' \in SlotType /\ slot'.tc = tc
  BY <1>1, <1>4, <1>5 DEF IndInv, TypeOK, SlotType
<1>7. faults' \in 0..MaxFaults
  BY LimitAssumption DEF Tick, Fault, IndInv, TypeOK
<1>8. IndInv'
  BY <1>2, <1>3, <1>4, <1>6, <1>7 DEF IndInv, TypeOK, Tick
<1>9. \A n \in Connections : Keeps(slot.tc[n], tc[n])
  BY <1>2, <1>3, <1>4 DEF Keeps, HasSession
<1> QED
  BY <1>6, <1>8, <1>9 DEF KeepsAll, Now

LEMMA AskReadyInd ==
  ASSUME IndInv, AskReady
  PROVE  IndInv' /\ KeepsAll(Now, Now')
<1>1. ResetTime(Now) \in 0..ResetTicks
  BY LimitAssumption DEF ResetTime, Now, IndInv, TypeOK, SlotType
<1>2. slot' \in SlotType /\ slot'.tc = slot.tc
  BY <1>1 DEF AskReady, IndInv, TypeOK, SlotType
<1>3. IndInv'
  BY <1>2 DEF AskReady, IndInv, TypeOK
<1> QED
  BY <1>2, <1>3 DEF KeepsAll, Keeps, Now

LEMMA CamInd ==
  ASSUME IndInv, Pull \/ Insert \/ StartUp \/ Restart \/ Hide \/ Show
  PROVE  IndInv' /\ KeepsAll(Now, Now')
<1>1. cam' \in CamType
  <2>1. CASE Pull
    BY <2>1 DEF Pull, CamType, ModuleStatuses
  <2>2. CASE Insert
    <3>1. PICK b \in BOOLEAN : cam' = [cam EXCEPT !.inserted = b]
      BY <2>2, Zenon DEF Insert
    <3> QED
      BY <3>1 DEF IndInv, TypeOK, CamType
  <2>3. CASE StartUp
    BY <2>3 DEF StartUp, IndInv, TypeOK, CamType, ModuleStatuses
  <2>4. CASE Restart
    <3>1. PICK open \in SUBSET Connections : cam' = [cam EXCEPT !.status = "present", !.open = open]
      BY <2>4 DEF Restart, IndInv, TypeOK, CamType
    <3> QED
      BY <3>1 DEF IndInv, TypeOK, CamType, ModuleStatuses
  <2>5. CASE Hide \/ Show
    <3>1. PICK b \in BOOLEAN : cam' = [cam EXCEPT !.hidden = b]
      BY <2>5, Zenon DEF Hide, Show
    <3> QED
      BY <3>1 DEF IndInv, TypeOK, CamType
  <2> QED
    BY <2>1, <2>2, <2>3, <2>4, <2>5
<1>2. faults' \in 0..MaxFaults
  BY LimitAssumption DEF Pull, Insert, StartUp, Restart, Hide, Show, Fault, IndInv, TypeOK
<1>3. UNCHANGED <<slot, ran, resetFailed>>
  BY DEF Pull, Insert, StartUp, Restart, Hide, Show
<1>4. IndInv'
  BY <1>1, <1>2, <1>3 DEF IndInv, TypeOK
<1> QED
  BY <1>3, <1>4 DEF KeepsAll, Keeps, Now

LEMMA StepInd ==
  IndInv /\ [Next]_vars => IndInv' /\ KeepsAll(Now, Now')
<1> SUFFICES ASSUME IndInv, [Next]_vars
             PROVE  IndInv' /\ KeepsAll(Now, Now')
  OBVIOUS
<1>1. CASE Next
  BY <1>1, TurnInd, AskReadyInd, AnswerInd, StrayInd, TickInd, CamInd DEF Next
<1>2. CASE UNCHANGED vars
  BY <1>2 DEF vars, IndInv, TypeOK, KeepsAll, Keeps, Now
<1> QED
  BY <1>1, <1>2

-----------------------------------------------------------------------------
(* The theorems.                                                            *)

(* The inductive invariant holds of every behaviour of the slot.            *)
THEOREM Inductive ==
  Spec => []IndInv
<1>1. IndInv /\ [Next]_vars => IndInv'
  BY StepInd
<1> QED
  BY <1>1, InitInd, PTL DEF Spec

(* Connections and sessions stay within the arrays of cCamSlot and          *)
(* cCiTransportConnection, and their states within those Process() knows,   *)
(* whatever the CAM sends: sessions for resources the host lacks, close     *)
(* requests and objects for sessions that do not exist included.            *)
THEOREM SlotTypesCorrect ==
  Spec => []TypeOK
<1>1. IndInv => TypeOK
  BY DEF IndInv
<1> QED
  BY <1>1, Inductive, PTL

(* A connection that is being created, or is yet to be, has no session: one *)
(* that the CAM deleted is never created again, so its sessions, which      *)
(* Process() leaves in place, are not taken for the new connection's.       *)
THEOREM NoSessionBeforeCreation ==
  Spec => []CreatedWithoutSessions
<1>1. IndInv => CreatedWithoutSessions
  BY DEF IndInv, TcInv, CreatedWithoutSessions, Tc
<1> QED
  BY <1>1, Inductive, PTL

(* cCiConditionalAccessSupport::Ready() stays true for as long as the       *)
(* session lasts, whatever the CAM sends and in whatever order, even though *)
(* a turn of the thread handles a TPDU and runs Process() twice.            *)
THEOREM ReadyStays ==
  Spec => ReadyIsKept
<1>1. IndInv /\ [Next]_vars =>
        [\A n \in Connections, i \in SessionIds :
           /\ Tc(n) # None /\ Tc(n)' # None
           /\ Tc(n).sessions[i] # None /\ Tc(n).sessions[i]' # None
           /\ Ready(Tc(n).sessions[i])
           => Ready(Tc(n).sessions[i]')]_vars
  BY StepInd DEF KeepsAll, Keeps, HasSession, Now, Tc
<1> QED
  BY <1>1, Inductive, PTL DEF Spec, ReadyIsKept

=============================================================================
