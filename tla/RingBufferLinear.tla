-------------------------- MODULE RingBufferLinear --------------------------
(***************************************************************************)
(* The linear ring buffer (cRingBufferLinear) between one writer, which    *)
(* calls Put() or Read(), and one reader, which calls Get() and Del(), on   *)
(* two threads without a lock.  The writer owns head and the reader tail;   *)
(* each reads the other's once per call and goes on with that copy.  The    *)
(* first Margin bytes of the buffer are kept free for Get() to move a short *)
(* end of the data in front of its beginning, so that it can hand out a     *)
(* block in one piece.                                                      *)
(*                                                                          *)
(* Bytes are numbered in the order in which they are accepted.  A memcpy()  *)
(* is a step of its own, apart from the store to head or tail after it.     *)
(***************************************************************************)
EXTENDS Integers

CONSTANTS
  Size,       \* size
  Margin,     \* margin
  Chunks,     \* the counts Put() and Read() are called with
  MaxBytes    \* bound on the number of bytes that are ever stored

ASSUME SizeAssumption == Size \in Nat /\ Size > 1
ASSUME MarginAssumption == Margin \in Nat /\ 2 * Margin <= Size
ASSUME ChunkAssumption == Chunks \subseteq Nat \ {0} /\ MaxBytes \in Nat

VARIABLES
  buffer,
  head,
  tail,
  gotten,
  w,          \* the writer: its place and the number of bytes it is storing
  r,          \* the reader: its place and its copy of head
  stored,     \* history: number of bytes stored
  deleted     \* history: number of bytes removed

vars == <<buffer, head, tail, gotten, w, r, stored, deleted>>

WriterIdle == [at |-> "idle", n |-> 0]

Reader(at) == [at |-> at, head |-> Margin]

(* The type invariant: head never enters the margin, which only Get() uses. *)
TypeOK ==
  /\ buffer \in [0..(Size - 1) -> 0..MaxBytes]
  /\ head \in Margin..(Size - 1)
  /\ tail \in 0..(Size - 1)
  /\ gotten \in 0..Size
  /\ w \in [at : {"idle", "copy", "publish"}, n : 0..Size]
  /\ r \in [at : {"idle", "holding", "move", "moved"}, head : Margin..(Size - 1)]
  /\ {stored, deleted} \subseteq 0..MaxBytes

Min2(a, b) == IF a < b THEN a ELSE b

(* The place of the i-th byte after position p, both counted from 0.        *)
Pos(p, i) == IF p + i < Size THEN p + i ELSE p + i - Size + Margin

Init ==
  /\ buffer = [i \in 0..(Size - 1) |-> 0]
  /\ head = Margin
  /\ tail = Margin
  /\ gotten = 0
  /\ w = WriterIdle
  /\ r = Reader("idle")
  /\ stored = 0
  /\ deleted = 0

AvailableAt(h, t) == IF h >= t THEN h - t ELSE Size + h - t - Margin

Available == AvailableAt(head, tail)

-----------------------------------------------------------------------------
(* The writer.                                                              *)

PutFree ==
  (IF tail < Margin THEN Size - head
   ELSE IF tail > head THEN tail - head ELSE Size + tail - head - Margin) - 1

(* Mutant: a tail at the beginning is not looked at. *)
ReadFreeToEnd ==
  (IF tail > head THEN tail - head - 1 ELSE Size - head)

ReadFree ==
  (IF tail > head THEN tail - head - 1 ELSE Size - head)
    - (IF tail <= Margin THEN 1 ELSE 0)

Begin(n) ==
  /\ stored + n <= MaxBytes
  /\ w' = [at |-> "copy", n |-> n]
  /\ UNCHANGED <<buffer, head, tail, gotten, r, stored, deleted>>

(* Put(): as much of the data as there is room for.  Without room it stores *)
(* nothing and changes nothing.                                             *)
Put(count) ==
  /\ w.at = "idle"
  /\ PutFree > 0
  /\ Begin(Min2(PutFree, count))

(* Read(): one read() of at most the room up to the end of the buffer,      *)
(* which may return less.                                                   *)
Read(max) ==
  /\ w.at = "idle"
  /\ ReadFree > 0
  /\ \E n \in 1..Min2(ReadFree, max) : Begin(n)

Copy ==
  /\ w.at = "copy"
  /\ buffer' = [p \in 0..(Size - 1) |->
       IF p >= head /\ p < head + w.n THEN stored + 1 + p - head
       ELSE IF p >= Margin /\ p < Margin + head + w.n - Size
         THEN stored + 1 + p - Margin + Size - head
       ELSE buffer[p]]
  /\ w' = [w EXCEPT !.at = "publish"]
  /\ UNCHANGED <<head, tail, gotten, r, stored, deleted>>

Publish ==
  /\ w.at = "publish"
  /\ head' = Pos(head, w.n)
  /\ stored' = stored + w.n
  /\ w' = WriterIdle
  /\ UNCHANGED <<buffer, tail, gotten, r, deleted>>

-----------------------------------------------------------------------------
(* The reader.                                                              *)

DataReady(count) == count >= Margin /\ count > 0

(* The end of Get(): a block of count bytes, or NULL, which leaves gotten   *)
(* as it was.                                                               *)
Deliver(count) ==
  IF DataReady(count)
    THEN gotten' = count /\ r' = Reader("holding")
    ELSE UNCHANGED gotten /\ r' = Reader("idle")

(* The bytes from tail on that do not wrap, and where tail is after a move. *)
Contiguous == Min2(Available, Size - tail)

MovedTail == Margin - (Size - tail)

(* Mutant: off by one in the length of the end. *)
MustMoveLate == Size - tail < Margin - 1 /\ head < tail

MustMove == Size - tail < Margin /\ head < tail

(* Mutant: data that wraps is not handed out. *)
GetWaitsForWrap ==
  /\ r.at \in {"idle", "holding"}
  /\ IF MustMove
       THEN r' = [at |-> "move", head |-> head] /\ UNCHANGED gotten
       ELSE Deliver(IF head < tail THEN 0 ELSE Available)
  /\ UNCHANGED <<buffer, head, tail, w, stored, deleted>>

Get ==
  /\ r.at \in {"idle", "holding"}
  /\ IF MustMove
       THEN r' = [at |-> "move", head |-> head] /\ UNCHANGED gotten
       ELSE Deliver(Contiguous)
  /\ UNCHANGED <<buffer, head, tail, w, stored, deleted>>

(* memcpy(buffer + t, buffer + tail, rest)                                  *)
Move ==
  /\ r.at = "move"
  /\ buffer' = [p \in 0..(Size - 1) |->
       IF p >= MovedTail /\ p < Margin
         THEN buffer[p - Margin + Size]
         ELSE buffer[p]]
  /\ r' = [r EXCEPT !.at = "moved"]
  /\ UNCHANGED <<head, tail, gotten, w, stored, deleted>>

Moved ==
  /\ r.at = "moved"
  /\ tail' = MovedTail
  /\ Deliver(r.head - MovedTail)
  /\ UNCHANGED <<buffer, head, w, stored, deleted>>

Del(count) ==
  /\ r.at = "holding"
  /\ count \in 1..gotten
  /\ tail' = IF tail + count >= Size THEN Margin ELSE tail + count
  /\ gotten' = gotten - count
  /\ deleted' = deleted + count
  /\ r' = Reader("idle")
  /\ UNCHANGED <<buffer, head, w, stored>>

(* Clear(), which its callers call while neither of the others is running.  *)
Clear ==
  /\ w.at = "idle"
  /\ r.at \in {"idle", "holding"}
  /\ head' = Margin
  /\ tail' = Margin
  /\ deleted' = stored
  /\ r' = Reader("idle")
  /\ UNCHANGED <<buffer, gotten, w, stored>>

-----------------------------------------------------------------------------
WriterNext ==
  \/ \E count \in Chunks : Put(count) \/ Read(count)
  \/ Copy \/ Publish

ReaderNext ==
  \/ Get \/ Move \/ Moved
  \/ \E count \in 1..Size : Del(count)

Next == WriterNext \/ ReaderNext \/ Clear

Spec == Init /\ [][Next]_vars

(* The reader polls: every Get() is followed by another.                    *)
FairSpec == Spec /\ WF_vars(Get \/ Move \/ Moved)

-----------------------------------------------------------------------------
(* Properties.                                                              *)

(* The bytes between tail and head are the ones stored and not yet removed, *)
(* in their order and without a gap, while either side is in the middle of  *)
(* a call and across the wrap and the move of Get().                        *)
ContentsInOrder ==
  /\ stored - deleted = Available
  /\ \A i \in 0..(Available - 1) : buffer[Pos(tail, i)] = deleted + 1 + i

(* A block that Get() handed out lies in one piece and keeps the next bytes *)
(* of the stream until Del(), whatever the writer, with its old copy of     *)
(* tail, is storing meanwhile.                                              *)
HeldIntact ==
  r.at = "holding" =>
    /\ tail + gotten <= Size
    /\ \A i \in 0..(gotten - 1) : buffer[tail + i] = deleted + 1 + i

(* "guaranteed to return at least Margin bytes in one consecutive block":   *)
(* wherever they lie, a Get() that finds Margin bytes never returns NULL,    *)
(* neither at once nor after the move it decided on.                        *)
MarginServed ==
  /\ r.at \in {"idle", "holding"} /\ DataReady(Available) => MustMove \/ DataReady(Contiguous)
  /\ r.at = "moved" /\ DataReady(AvailableAt(r.head, tail)) => DataReady(r.head - MovedTail)

(* The buffer is a first-in first-out queue that lends its front.           *)
Queue == INSTANCE ByteQueue WITH
  Capacity <- Size - 1,
  first <- deleted,
  last <- stored,
  block <- IF r.at = "holding" THEN [i \in 0..(gotten - 1) |-> buffer[tail + i]]
           ELSE [i \in {} |-> 0]

ImplementsByteQueue == Queue!Spec

(* Data that is there is handed out: a full margin of bytes leads to a      *)
(* block for the reader, unless the buffer is cleared.                      *)
ReadyIsDelivered == DataReady(Available) ~> (r.at = "holding" \/ head = tail)
=============================================================================
