----------------------------- MODULE CiSession -----------------------------
(***************************************************************************)
(* The sessions a CAM opens on a transport connection, and the objects it   *)
(* sends to them (CI.cpp): the resource manager, application information,   *)
(* and conditional access support, which alone has a timer.  Date/time and  *)
(* MMI sessions have no state the slot depends on.                          *)
(***************************************************************************)
EXTENDS Integers

CONSTANTS
  QueryWaitTicks,    \* QUERY_WAIT_TIME, in poll timeouts
  QueryReplyTicks    \* QUERY_REPLY_TIMEOUT, in poll timeouts

ASSUME QueryAssumption == QueryWaitTicks \in Nat \ {0} /\ QueryReplyTicks \in Nat \ {0}

Objects(resource) ==
  CASE resource = "RESOURCE_MANAGER"           -> {"PROFILE_ENQ", "PROFILE"}
    [] resource = "APPLICATION_INFORMATION"    -> {"APPLICATION_INFO"}
    [] resource = "CONDITIONAL_ACCESS_SUPPORT" -> {"CA_INFO", "CA_PMT_REPLY", "CA_PMT_POSSIBLE"}
    [] OTHER                                   -> {"DISPLAY_CONTROL"}

(* wait: what is left of the session's timer, in the two states that look   *)
(* at it.                                                                   *)
Session(resource) == [resource |-> resource, state |-> 0, wait |-> 0]

Enquiring == {"RESOURCE_MANAGER", "APPLICATION_INFORMATION", "CONDITIONAL_ACCESS_SUPPORT"}

(* cCiConditionalAccessSupport::Ready().                                    *)
Ready(s) == s.resource = "CONDITIONAL_ACCESS_SUPPORT" /\ s.state >= 4

(* Mutant: CA info is taken in every state. *)
ReceiveCaInfo(s, object) ==
  CASE s.resource = "RESOURCE_MANAGER" /\ object = "PROFILE_ENQ" -> [s EXCEPT !.state = 3]
    [] s.resource = "RESOURCE_MANAGER" /\ object = "PROFILE" /\ s.state = 1 -> [s EXCEPT !.state = 2]
    [] s.resource = "APPLICATION_INFORMATION" /\ object = "APPLICATION_INFO" -> [s EXCEPT !.state = 2]
    [] s.resource = "CONDITIONAL_ACCESS_SUPPORT" /\ object = "CA_INFO" ->
         [s EXCEPT !.state = 2, !.wait = QueryWaitTicks]
    [] s.resource = "CONDITIONAL_ACCESS_SUPPORT" /\ object = "CA_PMT_REPLY" ->
         [s EXCEPT !.state = 5, !.wait = 0]
    [] s.resource = "CONDITIONAL_ACCESS_SUPPORT" /\ object = "CA_PMT_POSSIBLE" ->
         [s EXCEPT !.state = 6, !.wait = 0]
    [] OTHER -> s

Receive(s, object) ==
  CASE s.resource = "RESOURCE_MANAGER" /\ object = "PROFILE_ENQ" -> [s EXCEPT !.state = 3]
    [] s.resource = "RESOURCE_MANAGER" /\ object = "PROFILE" /\ s.state = 1 -> [s EXCEPT !.state = 2]
    [] s.resource = "APPLICATION_INFORMATION" /\ object = "APPLICATION_INFO" -> [s EXCEPT !.state = 2]
    [] s.resource = "CONDITIONAL_ACCESS_SUPPORT" /\ object = "CA_INFO" /\ s.state = 1 ->
         [s EXCEPT !.state = 2, !.wait = QueryWaitTicks]
    [] s.resource = "CONDITIONAL_ACCESS_SUPPORT" /\ object = "CA_PMT_REPLY" ->
         [s EXCEPT !.state = 5, !.wait = 0]
    [] s.resource = "CONDITIONAL_ACCESS_SUPPORT" /\ object = "CA_PMT_POSSIBLE" ->
         [s EXCEPT !.state = 6, !.wait = 0]
    [] OTHER -> s

(* Whether the session answers the object at once.                          *)
Answers(s, object) ==
  /\ s.resource = "RESOURCE_MANAGER"
  /\ object = "PROFILE_ENQ" \/ (object = "PROFILE" /\ s.state = 1)

(* Mutant: the wait for the reply has no end. *)
ProcessForever(s) ==
  IF s.resource \in Enquiring /\ s.state = 0 THEN [s EXCEPT !.state = 1]
  ELSE IF s.resource = "CONDITIONAL_ACCESS_SUPPORT" /\ s.wait = 0 /\ s.state = 2
    THEN [s EXCEPT !.state = 3, !.wait = QueryReplyTicks]
    ELSE s

(* Process() without data: the first enquiry, and the QUERY of conditional  *)
(* access support: sent when its first wait is over, and given up, for      *)
(* normal operation, after the second.                                      *)
Enquires(s) == s.resource \in Enquiring /\ s.state = 0

QueryDue(s) == s.resource = "CONDITIONAL_ACCESS_SUPPORT" /\ s.wait = 0 /\ s.state = 2

NoReply(s) == s.resource = "CONDITIONAL_ACCESS_SUPPORT" /\ s.wait = 0 /\ s.state = 3

Process(s) ==
  CASE Enquires(s) -> [s EXCEPT !.state = 1]
    [] QueryDue(s) -> [s EXCEPT !.state = 3, !.wait = QueryReplyTicks]
    [] NoReply(s)  -> [s EXCEPT !.state = 4, !.wait = 0]
    [] OTHER       -> s

(* A poll timeout less to wait.                                             *)
Expire(s) == [s EXCEPT !.wait = IF @ > 0 THEN @ - 1 ELSE 0]

Sends(s) == Enquires(s) \/ QueryDue(s)

=============================================================================
