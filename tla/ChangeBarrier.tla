---------------------------- MODULE ChangeBarrier ----------------------------
(***************************************************************************)
(* What the receiver subsystem promises its clients, without its flags and *)
(* its thread: changes take effect one at a time, each once and in the     *)
(* order they were submitted, and a call that waits returns only after the *)
(* change it submitted has taken effect.  Changes are numbered in the      *)
(* order of submission.                                                    *)
(***************************************************************************)
EXTENDS Naturals, Sequences

CONSTANTS
  Clients,    \* threads calling the subsystem
  MaxChanges  \* bound on the number of changes submitted

VARIABLES
  submitted,  \* number of changes submitted so far
  pending,    \* those that have not taken effect, the next one first
  waitingFor  \* per client, the change it waits for (0: not waiting)

vars == <<submitted, pending, waitingFor>>

Init ==
  /\ submitted = 0
  /\ pending = <<>>
  /\ waitingFor = [c \in Clients |-> 0]

Submit(c, wait) ==
  /\ waitingFor[c] = 0
  /\ submitted < MaxChanges
  /\ submitted' = submitted + 1
  /\ pending' = Append(pending, submitted + 1)
  /\ waitingFor' = IF wait THEN [waitingFor EXCEPT ![c] = submitted + 1] ELSE waitingFor

(* The oldest change takes effect.                                         *)
Apply ==
  /\ pending # <<>>
  /\ pending' = Tail(pending)
  /\ UNCHANGED <<submitted, waitingFor>>

Return(c) ==
  /\ waitingFor[c] # 0
  /\ \A i \in DOMAIN pending : pending[i] # waitingFor[c]
  /\ waitingFor' = [waitingFor EXCEPT ![c] = 0]
  /\ UNCHANGED <<submitted, pending>>

Next ==
  \/ \E c \in Clients, wait \in BOOLEAN : Submit(c, wait)
  \/ Apply
  \/ \E c \in Clients : Return(c)

Spec == Init /\ [][Next]_vars
==============================================================================
