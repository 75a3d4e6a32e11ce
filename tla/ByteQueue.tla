----------------------------- MODULE ByteQueue -----------------------------
(***************************************************************************)
(* What a ring buffer promises a writer and a reader.  The bytes stored    *)
(* are numbered in the order in which they were accepted; the queue holds  *)
(* the bytes first + 1 .. last.  The reader is lent a block from its       *)
(* front, which keeps its contents until the reader gives it back, and     *)
(* may remove as much of it as it has used.                                *)
(***************************************************************************)
EXTENDS Naturals

CONSTANT Capacity

VARIABLES first, last, block

queueVars == <<first, last, block>>

NoBlock == [i \in {} |-> 0]
Front(n) == [i \in 0..(n - 1) |-> first + 1 + i]

Init ==
  /\ first = 0
  /\ last = 0
  /\ block = NoBlock

Store(n) ==
  /\ last + n <= first + Capacity
  /\ last' = last + n
  /\ UNCHANGED <<first, block>>

Lend(n) ==
  /\ first + n <= last
  /\ block' = Front(n)
  /\ UNCHANGED <<first, last>>

Remove(n) ==
  /\ n - 1 \in DOMAIN block
  /\ first' = first + n
  /\ block' = NoBlock
  /\ UNCHANGED last

Discard ==
  /\ first' = last
  /\ block' = NoBlock
  /\ UNCHANGED last

Next ==
  \/ \E n \in 1..Capacity : Store(n) \/ Lend(n) \/ Remove(n)
  \/ Discard

Spec == Init /\ [][Next]_queueVars
=============================================================================
