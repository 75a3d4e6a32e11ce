------------------------------ MODULE MCTimers ------------------------------
(* Instances of TimerManager for TLC. *)
EXTENDS TimerManager

Single(start, duration, channel) ==
  [start |-> start, duration |-> duration, mask |-> {}, lifetime |-> 0, channel |-> channel,
   active |-> TRUE, named |-> TRUE]

Weekly(start, duration, mask, lifetime, channel) ==
  [start |-> start, duration |-> duration, mask |-> mask, lifetime |-> lifetime, channel |-> channel,
   active |-> TRUE, named |-> TRUE]

MCSettings == {Single(3, 2, 1), Weekly(0, 2, {0, 1}, 3, 1), [Single(0, 2, 2) EXCEPT !.named = FALSE]}

RepeatSettings == {Weekly(0, 2, {0, 1}, 1, 1)}
=============================================================================
