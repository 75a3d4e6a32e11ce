-------------------------- MODULE RingBufferProofs --------------------------
(***************************************************************************)
(* Proofs about the linear ring buffer, for every size and margin that the *)
(* constructor accepts: its contents stay in order, a block that was handed *)
(* out is not overwritten, a full margin is always served, and the buffer  *)
(* implements ByteQueue.                                                   *)
(***************************************************************************)
EXTENDS RingBufferLinear, TLAPS

(* What the writer is storing fits by the tail of now, although it was      *)
(* measured by an older one, and is in place before head moves.             *)
WriterInv ==
  /\ w.at # "idle" => w.n >= 1 /\ w.n <= PutFree /\ stored + w.n <= MaxBytes
  /\ w.at = "publish" => \A i \in 0..(w.n - 1) : buffer[Pos(head, i)] = stored + 1 + i

(* The block in hand lies in one piece within the contents; a move is under *)
(* way only while the data wraps, and its copy is complete before tail      *)
(* moves.                                                                   *)
ReaderInv ==
  /\ r.at = "holding" => DataReady(gotten) /\ gotten <= Available /\ tail + gotten <= Size
  /\ r.at \in {"move", "moved"} => Size - tail < Margin /\ r.head <= head /\ head < tail
  /\ r.at = "moved" =>
       \A p \in 0..(Size - 1) : MovedTail <= p /\ p < Margin => buffer[p] = buffer[p - Margin + Size]

IndInv == TypeOK /\ ContentsInOrder /\ WriterInv /\ ReaderInv

USE DEF Min2

LEMMA InitInd == Init => IndInv
BY SizeAssumption, MarginAssumption, ChunkAssumption
   DEF Init, IndInv, TypeOK, ContentsInOrder, WriterInv, ReaderInv, Available, AvailableAt,
       WriterIdle, Reader

(* Measuring the room: the writer may store what Put() or Read() found.     *)
LEMMA BeginInd ==
  ASSUME IndInv, NEW n \in Nat, n >= 1, n <= PutFree, w.at = "idle", Begin(n)
  PROVE  IndInv'
<1> USE SizeAssumption, MarginAssumption, ChunkAssumption
<1>1. n <= Size
  BY DEF IndInv, TypeOK, PutFree
<1>2. TypeOK'
  BY <1>1 DEF IndInv, TypeOK, Begin
<1>3. ContentsInOrder' /\ ReaderInv'
  BY DEF IndInv, ContentsInOrder, ReaderInv, DataReady, Begin, Available, AvailableAt, Pos, MovedTail
<1>4. WriterInv'
  BY DEF IndInv, TypeOK, WriterInv, Begin, PutFree
<1> QED BY <1>2, <1>3, <1>4 DEF IndInv

LEMMA PutInd ==
  ASSUME IndInv, NEW count \in Chunks, Put(count)
  PROVE  IndInv'
<1> USE SizeAssumption, MarginAssumption, ChunkAssumption
<1>1. PutFree \in Int
  BY DEF IndInv, TypeOK, PutFree
<1>2. Min2(PutFree, count) \in Nat /\ Min2(PutFree, count) >= 1 /\ Min2(PutFree, count) <= PutFree
  BY <1>1 DEF Put
<1> QED BY <1>2, BeginInd DEF Put

LEMMA ReadInd ==
  ASSUME IndInv, NEW max \in Chunks, Read(max)
  PROVE  IndInv'
<1> USE SizeAssumption, MarginAssumption, ChunkAssumption
<1>1. ReadFree \in Int /\ ReadFree <= PutFree /\ PutFree \in Int
  BY DEF IndInv, TypeOK, PutFree, ReadFree
<1>2. PICK n \in 1..Min2(ReadFree, max) : Begin(n)
  BY DEF Read
<1>3. n \in Nat /\ n >= 1 /\ n <= PutFree
  BY <1>1
<1> QED BY <1>2, <1>3, BeginInd DEF Read

(* What the writer's range of places has to do with the contents: the       *)
(* arithmetic of head, tail and the room between them.                      *)
LEMMA WriterPlaces ==
  ASSUME NEW h \in Margin..(Size - 1), NEW t \in 0..(Size - 1), NEW n \in 1..Size,
         n <= (IF t < Margin THEN Size - h
               ELSE IF t > h THEN t - h ELSE Size + t - h - Margin) - 1
  PROVE  /\ \A i \in 0..(AvailableAt(h, t) - 1) :
              /\ Pos(t, i) \in 0..(Size - 1)
              /\ ~(Pos(t, i) >= h /\ Pos(t, i) < h + n)
              /\ ~(Pos(t, i) >= Margin /\ Pos(t, i) < Margin + h + n - Size)
         /\ \A i \in 0..(n - 1) :
              /\ Pos(h, i) \in 0..(Size - 1)
              /\ h + i >= Size => Pos(h, i) < h
         /\ h < t => h + n < t
BY SizeAssumption, MarginAssumption DEF Pos, AvailableAt

LEMMA WriterFacts ==
  ASSUME IndInv, w.at # "idle"
  PROVE  /\ head \in Margin..(Size - 1) /\ tail \in 0..(Size - 1) /\ w.n \in 1..Size
         /\ w.n <= (IF tail < Margin THEN Size - head
                    ELSE IF tail > head THEN tail - head ELSE Size + tail - head - Margin) - 1
         /\ stored \in Nat /\ stored + w.n <= MaxBytes /\ MaxBytes \in Nat
BY ChunkAssumption DEF IndInv, TypeOK, WriterInv, PutFree

(* The writer copies to places that hold no contents.                       *)
LEMMA CopyInd ==
  ASSUME IndInv, Copy
  PROVE  IndInv'
<1> USE SizeAssumption, MarginAssumption, ChunkAssumption
<1>0. w.at # "idle" /\ w.at = "copy"
  BY DEF Copy
<1>1. TypeOK'
  <2>1. ASSUME NEW p \in 0..(Size - 1)
        PROVE  buffer'[p] \in 0..MaxBytes
    <3>1. CASE p >= head /\ p < head + w.n
      <4>1. stored + 1 + p - head \in 0..MaxBytes
        BY <1>0, <3>1, WriterFacts
      <4> QED BY <3>1, <4>1 DEF Copy
    <3>2. CASE ~(p >= head /\ p < head + w.n) /\ p >= Margin /\ p < Margin + head + w.n - Size
      <4>1. stored + 1 + p - Margin + Size - head \in 0..MaxBytes
        BY <1>0, <3>2, WriterFacts
      <4> QED BY <3>2, <4>1 DEF Copy
    <3>3. CASE ~(p >= head /\ p < head + w.n) /\ ~(p >= Margin /\ p < Margin + head + w.n - Size)
      BY <3>3 DEF IndInv, TypeOK, Copy
    <3> QED BY <3>1, <3>2, <3>3
  <2>2. buffer' \in [0..(Size - 1) -> 0..MaxBytes]
    BY <2>1 DEF Copy
  <2> QED BY <2>2 DEF IndInv, TypeOK, Copy
<1>2. ContentsInOrder'
  <2> SUFFICES ASSUME NEW i \in 0..(Available - 1)
               PROVE  buffer'[Pos(tail, i)] = deleted + 1 + i
    BY DEF IndInv, ContentsInOrder, Copy, Available, AvailableAt, Pos
  <2>1. /\ Pos(tail, i) \in 0..(Size - 1)
        /\ ~(Pos(tail, i) >= head /\ Pos(tail, i) < head + w.n)
        /\ ~(Pos(tail, i) >= Margin /\ Pos(tail, i) < Margin + head + w.n - Size)
    BY <1>0, WriterFacts, WriterPlaces DEF Available
  <2>2. buffer'[Pos(tail, i)] = buffer[Pos(tail, i)]
    BY <2>1 DEF Copy
  <2> QED BY <2>2 DEF IndInv, ContentsInOrder
<1>3. WriterInv'
  <2>1. w'.n = w.n /\ w'.at = "publish"
    BY DEF IndInv, TypeOK, Copy
  <2>2. ASSUME NEW i \in 0..(w.n - 1)
        PROVE  buffer'[Pos(head, i)] = stored + 1 + i
    <3>0. Pos(head, i) \in 0..(Size - 1) /\ (head + i >= Size => Pos(head, i) < head)
      BY <1>0, WriterFacts, WriterPlaces
    <3>1. CASE head + i < Size
      <4>1. Pos(head, i) = head + i /\ head + i >= head /\ head + i < head + w.n
        BY <1>0, <3>1, WriterFacts DEF Pos
      <4>2. buffer'[head + i] = stored + 1 + (head + i) - head
        BY <3>0, <4>1 DEF Copy
      <4> QED BY <1>0, <4>1, <4>2, WriterFacts
    <3>2. CASE head + i >= Size
      <4>1. /\ ~(Pos(head, i) >= head)
            /\ Pos(head, i) >= Margin
            /\ Pos(head, i) < Margin + head + w.n - Size
            /\ stored + 1 + Pos(head, i) - Margin + Size - head = stored + 1 + i
        BY <1>0, <3>0, <3>2, WriterFacts DEF Pos
      <4> QED BY <3>0, <4>1 DEF Copy
    <3> QED BY <1>0, <3>1, <3>2, WriterFacts
  <2> QED BY <1>0, <2>1, <2>2 DEF IndInv, WriterInv, Copy, PutFree, Pos
<1>4. ReaderInv'
  <2>1. ASSUME r.at = "moved", NEW p \in 0..(Size - 1), MovedTail <= p, p < Margin
        PROVE  buffer'[p] = buffer'[p - Margin + Size]
    <3>1. head < tail
      BY <2>1 DEF IndInv, ReaderInv
    <3>2. head + w.n < tail
      BY <1>0, <3>1, WriterFacts, WriterPlaces
    <3>3. /\ p - Margin + Size \in 0..(Size - 1)
          /\ ~(p - Margin + Size < head + w.n)
          /\ ~(p - Margin + Size < Margin + head + w.n - Size)
          /\ ~(p >= head)
      BY <1>0, <2>1, <3>2, WriterFacts DEF MovedTail
    <3>4. buffer'[p] = buffer[p]
      BY <2>1, <3>3 DEF Copy
    <3>5. buffer'[p - Margin + Size] = buffer[p - Margin + Size]
      BY <3>3 DEF Copy
    <3> QED BY <2>1, <3>4, <3>5 DEF IndInv, ReaderInv
  <2> QED BY <2>1 DEF IndInv, ReaderInv, DataReady, Copy, Available, AvailableAt, MovedTail
<1> QED BY <1>1, <1>2, <1>3, <1>4 DEF IndInv

(* Where the places go when head moves over what was copied.                *)
LEMMA PublishPlaces ==
  ASSUME NEW h \in Margin..(Size - 1), NEW t \in 0..(Size - 1), NEW n \in 1..Size,
         n <= (IF t < Margin THEN Size - h
               ELSE IF t > h THEN t - h ELSE Size + t - h - Margin) - 1
  PROVE  /\ Pos(h, n) \in Margin..(Size - 1)
         /\ AvailableAt(h, t) \in Nat
         /\ AvailableAt(Pos(h, n), t) = AvailableAt(h, t) + n
         /\ h < t => h <= Pos(h, n) /\ Pos(h, n) < t
         /\ \A i \in 0..(n - 1) : Pos(t, AvailableAt(h, t) + i) = Pos(h, i)
BY SizeAssumption, MarginAssumption DEF Pos, AvailableAt

LEMMA PublishInd ==
  ASSUME IndInv, Publish
  PROVE  IndInv'
<1> USE SizeAssumption, MarginAssumption, ChunkAssumption
<1>0. w.at # "idle" /\ w.at = "publish"
  BY DEF Publish
<1>1. /\ head' \in Margin..(Size - 1)
      /\ Available \in Nat /\ Available' = Available + w.n
      /\ head < tail => head <= head' /\ head' < tail
      /\ \A i \in 0..(w.n - 1) : Pos(tail, Available + i) = Pos(head, i)
  <2>1. head' = Pos(head, w.n) /\ tail' = tail
    BY DEF Publish
  <2>2. Available' = AvailableAt(Pos(head, w.n), tail)
    BY <2>1 DEF Available, AvailableAt
  <2>3. /\ head \in Margin..(Size - 1) /\ tail \in 0..(Size - 1) /\ w.n \in 1..Size
        /\ w.n <= (IF tail < Margin THEN Size - head
                   ELSE IF tail > head THEN tail - head ELSE Size + tail - head - Margin) - 1
    BY <1>0, WriterFacts
  <2>4. /\ Pos(head, w.n) \in Margin..(Size - 1)
        /\ AvailableAt(head, tail) \in Nat
        /\ AvailableAt(Pos(head, w.n), tail) = AvailableAt(head, tail) + w.n
        /\ head < tail => head <= Pos(head, w.n) /\ Pos(head, w.n) < tail
        /\ \A i \in 0..(w.n - 1) : Pos(tail, AvailableAt(head, tail) + i) = Pos(head, i)
    BY <2>3, PublishPlaces
  <2>5. Available = AvailableAt(head, tail)
    BY DEF Available
  <2> QED BY <2>1, <2>2, <2>4, <2>5
<1>2. TypeOK'
  <2>1. stored' \in 0..MaxBytes
    BY <1>0, WriterFacts DEF Publish
  <2>2. w' \in [at : {"idle", "copy", "publish"}, n : 0..Size]
    BY DEF Publish, WriterIdle
  <2> QED BY <1>1, <2>1, <2>2 DEF IndInv, TypeOK, Publish
<1>3. ContentsInOrder'
  <2>1. stored' - deleted' = Available'
    <3>1. stored \in 0..MaxBytes /\ deleted \in 0..MaxBytes /\ stored - deleted = Available
      BY DEF IndInv, TypeOK, ContentsInOrder
    <3>2. stored' = stored + w.n /\ deleted' = deleted
      BY DEF Publish
    <3>3. Available' = Available + w.n /\ Available \in Nat /\ w.n \in Nat
      BY <1>0, <1>1, WriterFacts
    <3> QED BY <3>1, <3>2, <3>3
  <2>2. ASSUME NEW i \in 0..(Available + w.n - 1)
        PROVE  buffer[Pos(tail, i)] = deleted + 1 + i
    <3>1. CASE i \in 0..(Available - 1)
      BY <3>1 DEF IndInv, ContentsInOrder
    <3>2. CASE i - Available \in 0..(w.n - 1)
      <4>1. Pos(tail, i) = Pos(head, i - Available)
        BY <1>0, <1>1, <3>2, WriterFacts
      <4>2. buffer[Pos(head, i - Available)] = stored + 1 + (i - Available)
        BY <1>0, <3>2 DEF IndInv, WriterInv
      <4>3. stored = deleted + Available /\ deleted \in Nat
        BY <1>1 DEF IndInv, TypeOK, ContentsInOrder
      <4> QED BY <1>1, <4>1, <4>2, <4>3
    <3> QED BY <1>0, <1>1, <3>1, <3>2, WriterFacts
  <2>3. ASSUME NEW i \in 0..(Available' - 1)
        PROVE  (buffer[Pos(tail, i)] = deleted + 1 + i)'
    <3>1. i \in 0..(Available + w.n - 1)
      BY <1>0, <1>1, WriterFacts
    <3> QED BY <2>2, <3>1 DEF Publish, Pos
  <2> QED BY <2>1, <2>3 DEF ContentsInOrder
<1>4. WriterInv'
  BY DEF WriterInv, Publish, WriterIdle
<1>5. ReaderInv'
  <2>1. r' = r /\ tail' = tail /\ gotten' = gotten /\ buffer' = buffer
    BY DEF Publish
  <2>2. r.at = "holding" => DataReady(gotten) /\ gotten <= Available' /\ tail + gotten <= Size
    BY <1>0, <1>1, WriterFacts DEF IndInv, TypeOK, ReaderInv
  <2>3. r.at \in {"move", "moved"} => Size - tail < Margin /\ r.head <= head' /\ head' < tail
    BY <1>0, <1>1, WriterFacts DEF IndInv, TypeOK, ReaderInv
  <2> QED BY <2>1, <2>2, <2>3 DEF IndInv, ReaderInv, MovedTail, DataReady
<1> QED BY <1>2, <1>3, <1>4, <1>5 DEF IndInv

-----------------------------------------------------------------------------
(* The reader.                                                              *)

LEMMA AvailableType ==
  ASSUME NEW h \in Margin..(Size - 1), NEW t \in 0..(Size - 1)
  PROVE  AvailableAt(h, t) \in 0..(Size - 1)
BY SizeAssumption, MarginAssumption DEF AvailableAt

LEMMA GetInd ==
  ASSUME IndInv, Get
  PROVE  IndInv'
<1> USE SizeAssumption, MarginAssumption, ChunkAssumption
<1>0. head \in Margin..(Size - 1) /\ tail \in 0..(Size - 1) /\ Available \in 0..(Size - 1)
  BY AvailableType DEF IndInv, TypeOK, Available
<1>1. TypeOK'
  <2>1. r' \in [at : {"idle", "holding", "move", "moved"}, head : Margin..(Size - 1)]
    BY <1>0 DEF Get, Deliver, Reader
  <2>2. gotten' \in 0..Size
    <3>1. gotten \in 0..Size
      BY DEF IndInv, TypeOK
    <3>2. Contiguous \in 0..Size
      BY <1>0 DEF Contiguous
    <3> QED BY <3>1, <3>2 DEF Get, Deliver
  <2> QED BY <2>1, <2>2 DEF IndInv, TypeOK, Get
<1>2. ContentsInOrder' /\ WriterInv'
  BY DEF IndInv, ContentsInOrder, WriterInv, Get, Available, AvailableAt, Pos, PutFree
<1>3. ReaderInv'
  <2>1. CASE MustMove
    BY <1>0, <2>1 DEF ReaderInv, Get, MustMove, MovedTail
  <2>2. CASE ~MustMove
    <3>1. Available' = Available /\ tail' = tail
      BY DEF Get, Available, AvailableAt
    <3>2. r'.at \in {"idle", "holding"}
      BY <2>2 DEF Get, Deliver, Reader
    <3>3. r'.at = "holding" => DataReady(Contiguous) /\ gotten' = Contiguous
      BY <2>2 DEF Get, Deliver, Reader
    <3>4. Contiguous <= Available /\ tail + Contiguous <= Size
      BY <1>0 DEF Contiguous, Min2
    <3> QED BY <3>1, <3>2, <3>3, <3>4 DEF ReaderInv, DataReady
  <2> QED BY <2>1, <2>2
<1> QED BY <1>1, <1>2, <1>3 DEF IndInv

LEMMA DelInd ==
  ASSUME IndInv, NEW count \in 1..Size, Del(count)
  PROVE  IndInv'
<1> USE SizeAssumption, MarginAssumption, ChunkAssumption
<1>0. /\ head \in Margin..(Size - 1) /\ tail \in 0..(Size - 1) /\ gotten \in 0..Size
      /\ count <= gotten /\ gotten <= Available /\ tail + gotten <= Size
      /\ stored \in 0..MaxBytes /\ deleted \in 0..MaxBytes /\ stored - deleted = Available
      /\ r.at = "holding"
  BY DEF IndInv, TypeOK, ReaderInv, ContentsInOrder, Del
<1>1. /\ tail' \in 0..(Size - 1) /\ Available' = Available - count
      /\ Available \in Nat
      /\ \A i \in 0..(Available - count - 1) : Pos(tail', i) = Pos(tail, i + count)
  BY <1>0 DEF Del, Available, AvailableAt, Pos
<1>2. TypeOK'
  BY <1>0, <1>1 DEF IndInv, TypeOK, Del, Reader
<1>3. ContentsInOrder'
  <2>1. stored' - deleted' = Available'
    BY <1>0, <1>1 DEF Del
  <2>2. ASSUME NEW i \in 0..(Available - count - 1)
        PROVE  buffer[Pos(tail', i)] = deleted' + 1 + i
    <3>1. i + count \in 0..(Available - 1)
      BY <1>1
    <3>2. buffer[Pos(tail, i + count)] = deleted + 1 + (i + count)
      BY <3>1 DEF IndInv, ContentsInOrder
    <3> QED BY <1>0, <1>1, <3>2 DEF Del
  <2>3. \A i : Pos(tail, i)' = Pos(tail', i)
    BY DEF Pos
  <2> QED BY <1>1, <2>1, <2>2, <2>3 DEF ContentsInOrder, Del
<1>4. WriterInv'
  <2>1. w.at # "idle" => w.n <= PutFree'
    BY <1>0, WriterFacts DEF Del, PutFree, Available, AvailableAt
  <2> QED BY <2>1 DEF IndInv, WriterInv, Del, Pos
<1>5. ReaderInv'
  BY DEF ReaderInv, Del, Reader
<1> QED BY <1>2, <1>3, <1>4, <1>5 DEF IndInv

LEMMA MoveInd ==
  ASSUME IndInv, Move
  PROVE  IndInv'
<1> USE SizeAssumption, MarginAssumption, ChunkAssumption
<1>0. /\ head \in Margin..(Size - 1) /\ tail \in 0..(Size - 1)
      /\ Size - tail < Margin /\ head < tail /\ r.head <= head /\ r.at = "move"
      /\ MovedTail \in 0..(Size - 1)
  BY DEF IndInv, TypeOK, ReaderInv, Move, MovedTail
<1>1. \A p \in 0..(Size - 1) : p >= Margin => buffer'[p] = buffer[p]
  BY DEF Move
<1>2. \A p \in 0..(Size - 1) : MovedTail <= p /\ p < Margin => buffer'[p] = buffer[p - Margin + Size]
  BY DEF Move
<1>3. TypeOK'
  <2>1. ASSUME NEW p \in 0..(Size - 1)
        PROVE  buffer'[p] \in 0..MaxBytes
    <3>1. CASE p >= MovedTail /\ p < Margin
      <4>1. p - Margin + Size \in 0..(Size - 1)
        BY <1>0, <3>1 DEF MovedTail
      <4> QED BY <3>1, <4>1 DEF IndInv, TypeOK, Move
    <3>2. CASE ~(p >= MovedTail /\ p < Margin)
      BY <3>2 DEF IndInv, TypeOK, Move
    <3> QED BY <3>1, <3>2
  <2>2. buffer' \in [0..(Size - 1) -> 0..MaxBytes]
    BY <2>1 DEF Move
  <2> QED BY <2>2 DEF IndInv, TypeOK, Move
<1>4. ContentsInOrder'
  <2>1. \A i \in 0..(Available - 1) : Pos(tail, i) \in 0..(Size - 1) /\ Pos(tail, i) >= Margin
    BY <1>0 DEF Available, AvailableAt, Pos
  <2> QED BY <1>1, <2>1 DEF IndInv, ContentsInOrder, Move, Available, AvailableAt, Pos
<1>5. WriterInv'
  <2>1. ASSUME w.at # "idle", NEW i \in 0..(w.n - 1)
        PROVE  Pos(head, i) \in 0..(Size - 1) /\ Pos(head, i) >= Margin
    BY <2>1, WriterFacts DEF Pos
  <2> QED BY <1>1, <2>1 DEF IndInv, WriterInv, Move, Pos, PutFree
<1>6. ReaderInv'
  <2>1. ASSUME NEW p \in 0..(Size - 1), MovedTail <= p, p < Margin
        PROVE  buffer'[p] = buffer'[p - Margin + Size]
    <3>1. p - Margin + Size \in 0..(Size - 1) /\ p - Margin + Size >= Margin
      BY <1>0, <2>1 DEF MovedTail
    <3> QED BY <1>1, <1>2, <2>1, <3>1
  <2>2. r'.at = "moved" /\ r'.head = r.head
    BY DEF IndInv, TypeOK, Move
  <2> QED BY <1>0, <2>1, <2>2 DEF ReaderInv, Move, MovedTail
<1> QED BY <1>3, <1>4, <1>5, <1>6 DEF IndInv

LEMMA MovedInd ==
  ASSUME IndInv, Moved
  PROVE  IndInv'
<1> USE SizeAssumption, MarginAssumption, ChunkAssumption
<1>0. /\ head \in Margin..(Size - 1) /\ tail \in 0..(Size - 1) /\ r.head \in Margin..(Size - 1)
      /\ Size - tail < Margin /\ head < tail /\ r.head <= head /\ r.at = "moved"
  BY DEF IndInv, TypeOK, ReaderInv, Moved
<1>1. /\ tail' = MovedTail /\ MovedTail \in 0..(Margin - 1)
      /\ Available' = Available /\ Available = head - MovedTail
  <2>1. tail' = MovedTail /\ head' = head
    BY DEF Moved
  <2>2. MovedTail \in 0..(Margin - 1) /\ MovedTail = Margin + tail - Size
    BY <1>0 DEF MovedTail
  <2>3. AvailableAt(head, tail) = head - MovedTail
    BY <1>0, <2>2 DEF AvailableAt
  <2>4. AvailableAt(head, MovedTail) = head - MovedTail
    BY <1>0, <2>2 DEF AvailableAt
  <2>5. Available' = AvailableAt(head, MovedTail)
    BY <2>1 DEF Available, AvailableAt
  <2> QED BY <2>1, <2>2, <2>3, <2>4, <2>5 DEF Available
<1>2. TypeOK'
  <2>1. gotten' \in 0..Size
    <3>1. gotten \in 0..Size
      BY DEF IndInv, TypeOK
    <3>2. r.head - MovedTail \in 0..Size
      BY <1>0, <1>1
    <3> QED BY <3>1, <3>2 DEF Moved, Deliver
  <2>2. r' \in [at : {"idle", "holding", "move", "moved"}, head : Margin..(Size - 1)]
    BY DEF Moved, Deliver, Reader
  <2> QED BY <1>1, <2>1, <2>2 DEF IndInv, TypeOK, Moved
<1>3. ContentsInOrder'
  <2>1. stored' - deleted' = Available'
    BY <1>1 DEF IndInv, ContentsInOrder, Moved
  <2>2. ASSUME NEW i \in 0..(Available - 1)
        PROVE  buffer[MovedTail + i] = buffer[Pos(tail, i)]
    <3>1. CASE MovedTail + i >= Margin
      BY <1>0, <1>1, <3>1 DEF Pos, MovedTail
    <3>2. CASE MovedTail + i < Margin
      <4>1. /\ MovedTail + i \in 0..(Size - 1) /\ MovedTail <= MovedTail + i
            /\ Pos(tail, i) = MovedTail + i - Margin + Size
        BY <1>0, <1>1, <3>2 DEF Pos, MovedTail
      <4>2. \A p \in 0..(Size - 1) : MovedTail <= p /\ p < Margin => buffer[p] = buffer[p - Margin + Size]
        BY <1>0 DEF IndInv, ReaderInv
      <4>3. PICK p \in 0..(Size - 1) : p = MovedTail + i
        BY <4>1
      <4>4. Pos(tail, i) = p - Margin + Size /\ MovedTail <= p /\ p < Margin
        BY <1>0, <1>1, <3>2, <4>1, <4>3
      <4>5. buffer[p] = buffer[p - Margin + Size]
        BY <4>2, <4>4
      <4> QED BY <4>3, <4>4, <4>5
    <3> QED BY <1>0, <1>1, <3>1, <3>2
  <2>3. ASSUME NEW i \in 0..(Available' - 1)
        PROVE  (buffer[Pos(tail, i)] = deleted + 1 + i)'
    <3>1. i \in 0..(Available - 1)
      BY <1>1
    <3>2. Pos(tail, i)' = MovedTail + i
      BY <1>0, <1>1, <3>1 DEF Pos
    <3>3. buffer[Pos(tail, i)] = deleted + 1 + i
      BY <3>1 DEF IndInv, ContentsInOrder
    <3> QED BY <2>2, <3>1, <3>2, <3>3 DEF Moved
  <2> QED BY <2>1, <2>3 DEF ContentsInOrder
<1>4. WriterInv'
  <2>1. w.at # "idle" => w.n <= PutFree'
    BY <1>0, <1>1, WriterFacts DEF Moved, PutFree
  <2> QED BY <2>1 DEF IndInv, WriterInv, Moved, Pos
<1>5. ReaderInv'
  <2>1. r'.at = "holding" => gotten' = r.head - MovedTail /\ DataReady(gotten)'
    BY <1>0, <1>1 DEF Moved, Deliver, DataReady, Reader
  <2>2. r'.at \in {"idle", "holding"}
    BY DEF Moved, Deliver, Reader
  <2>3. r'.at = "holding" => gotten' <= Available' /\ tail' + gotten' <= Size
    BY <1>0, <1>1, <2>1
  <2> QED BY <2>1, <2>2, <2>3 DEF ReaderInv
<1> QED BY <1>2, <1>3, <1>4, <1>5 DEF IndInv

LEMMA ClearInd ==
  ASSUME IndInv, Clear
  PROVE  IndInv'
<1> USE SizeAssumption, MarginAssumption, ChunkAssumption
<1>1. TypeOK'
  BY DEF IndInv, TypeOK, Clear, Reader
<1>2. Available' = 0
  BY DEF Clear, Available, AvailableAt
<1>3. ContentsInOrder'
  BY <1>2 DEF IndInv, TypeOK, ContentsInOrder, Clear
<1>4. WriterInv' /\ ReaderInv'
  BY DEF WriterInv, ReaderInv, Clear, Reader
<1> QED BY <1>1, <1>3, <1>4 DEF IndInv

-----------------------------------------------------------------------------
LEMMA Induction == IndInv /\ [Next]_vars => IndInv'
<1> SUFFICES ASSUME IndInv, [Next]_vars PROVE IndInv'
  OBVIOUS
<1>1. ASSUME NEW count \in Chunks, Put(count) \/ Read(count) PROVE IndInv'
  BY <1>1, PutInd, ReadInd
<1>2. CASE Copy \/ Publish
  BY <1>2, CopyInd, PublishInd
<1>3. CASE Get \/ Move \/ Moved
  BY <1>3, GetInd, MoveInd, MovedInd
<1>4. ASSUME NEW count \in 1..Size, Del(count) PROVE IndInv'
  BY <1>4, DelInd
<1>5. CASE Clear
  BY <1>5, ClearInd
<1>6. CASE UNCHANGED vars
  BY <1>6 DEF IndInv, TypeOK, ContentsInOrder, WriterInv, ReaderInv, DataReady, vars, Available, AvailableAt,
              Pos, PutFree, MovedTail
<1> QED BY <1>1, <1>2, <1>3, <1>4, <1>5, <1>6 DEF Next, WriterNext, ReaderNext

(* The inductive invariant holds throughout: the arithmetic of Put(),       *)
(* Read(), Get() and Del() keeps writer and reader apart.                   *)
THEOREM Inductive == Spec => []IndInv
BY InitInd, Induction, PTL DEF Spec

(* Type correctness: head never enters the margin, no index leaves the      *)
(* buffer.                                                                  *)
THEOREM TypeCorrect == Spec => []TypeOK
<1>1. IndInv => TypeOK
  BY DEF IndInv
<1> QED BY <1>1, Inductive, PTL

(* The bytes between tail and head are those stored and not removed, in     *)
(* order, for every size and margin.                                        *)
THEOREM InOrder == Spec => []ContentsInOrder
<1>1. IndInv => ContentsInOrder
  BY DEF IndInv
<1> QED BY <1>1, Inductive, PTL

LEMMA HeldFromInd == IndInv => HeldIntact
<1> SUFFICES ASSUME IndInv, r.at = "holding"
             PROVE  /\ tail + gotten <= Size
                    /\ \A i \in 0..(gotten - 1) : buffer[tail + i] = deleted + 1 + i
  BY DEF HeldIntact
<1>1. /\ tail \in 0..(Size - 1) /\ gotten \in 0..Size /\ Available \in Nat
      /\ gotten <= Available /\ tail + gotten <= Size
  BY AvailableType, SizeAssumption DEF IndInv, TypeOK, ReaderInv, Available
<1>2. ASSUME NEW i \in 0..(gotten - 1)
      PROVE  buffer[tail + i] = deleted + 1 + i
  <2>1. Pos(tail, i) = tail + i /\ i \in 0..(Available - 1)
    BY <1>1, SizeAssumption DEF Pos
  <2> QED BY <2>1 DEF IndInv, ContentsInOrder
<1> QED BY <1>1, <1>2

(* A block handed out by Get() is intact until Del(), whatever the writer   *)
(* does.                                                                    *)
THEOREM BlocksIntact == Spec => []HeldIntact
BY HeldFromInd, Inductive, PTL

(* Get() returns NULL only when there is less than a margin of data.        *)
THEOREM MarginGuaranteed == Spec => []MarginServed
<1>1. IndInv => MarginServed
  <2> SUFFICES ASSUME IndInv PROVE MarginServed
    OBVIOUS
  <2> USE SizeAssumption, MarginAssumption
  <2>0. head \in Margin..(Size - 1) /\ tail \in 0..(Size - 1) /\ r.head \in Margin..(Size - 1)
    BY DEF IndInv, TypeOK
  <2>1. DataReady(Available) => MustMove \/ DataReady(Contiguous)
    BY <2>0 DEF DataReady, MustMove, Contiguous, Available, AvailableAt
  <2>2. r.at = "moved" /\ DataReady(AvailableAt(r.head, tail)) => DataReady(r.head - MovedTail)
    <3>1. r.at = "moved" => Size - tail < Margin /\ r.head < tail
      BY <2>0 DEF IndInv, TypeOK, ReaderInv
    <3> QED BY <2>0, <3>1 DEF DataReady, AvailableAt, MovedTail
  <2> QED BY <2>1, <2>2 DEF MarginServed
<1> QED BY <1>1, Inductive, PTL

-----------------------------------------------------------------------------
(* The refinement of ByteQueue.                                             *)

Block == IF r.at = "holding" THEN [i \in 0..(gotten - 1) |-> buffer[tail + i]]
         ELSE [i \in {} |-> 0]

Lent(at, n, first) ==
  IF at = "holding" THEN [i \in 0..(n - 1) |-> first + 1 + i] ELSE [i \in {} |-> 0]

LEMMA BlockIsFront ==
  ASSUME IndInv
  PROVE  Block = Lent(r.at, gotten, deleted)
BY HeldFromInd DEF Block, HeldIntact, Lent

LEMMA BlockIsFrontNext ==
  ASSUME IndInv'
  PROVE  Block' = Lent(r'.at, gotten', deleted')
<1>1. HeldIntact'
  BY HeldFromInd, PTL
<1> QED BY <1>1 DEF Block, HeldIntact, Lent

LEMMA StepRefinement == IndInv /\ IndInv' /\ [Next]_vars => [Queue!Next]_(Queue!queueVars)
<1> SUFFICES ASSUME IndInv, IndInv', [Next]_vars
             PROVE  Queue!Next \/ (deleted' = deleted /\ stored' = stored /\ Block' = Block)
  BY DEF Queue!queueVars, Block
<1> USE SizeAssumption, MarginAssumption, ChunkAssumption
<1>0. /\ stored \in Nat /\ deleted \in Nat /\ stored' \in Nat /\ deleted' \in Nat
      /\ gotten \in 0..Size /\ gotten' \in 0..Size
  BY DEF IndInv, TypeOK
<1>1. ASSUME UNCHANGED <<r, gotten, stored, deleted>>
      PROVE  deleted' = deleted /\ stored' = stored /\ Block' = Block
  BY <1>1, BlockIsFront, BlockIsFrontNext
<1>2. ASSUME NEW count \in Chunks, Put(count) \/ Read(count)
      PROVE  UNCHANGED <<r, gotten, stored, deleted>>
  BY <1>2 DEF Put, Read, Begin
<1>3. CASE Copy
  BY <1>1, <1>3 DEF Copy
<1>4. CASE Publish
  <2>1. Block' = Block
    BY <1>4, BlockIsFront, BlockIsFrontNext DEF Publish
  <2>2. w.n \in 1..(Size - 1) /\ stored' = stored + w.n /\ deleted' = deleted /\ stored' <= deleted + (Size - 1)
    <3>1. w.n \in 1..Size /\ stored' = stored + w.n /\ deleted' = deleted
      BY <1>4, WriterFacts DEF Publish
    <3>2. stored' - deleted' = Available' /\ Available' \in 0..(Size - 1)
      BY AvailableType DEF IndInv, TypeOK, ContentsInOrder, Available
    <3>3. stored - deleted = Available /\ Available \in 0..(Size - 1)
      BY AvailableType DEF IndInv, TypeOK, ContentsInOrder, Available
    <3> QED BY <1>0, <3>1, <3>2, <3>3
  <2>3. Queue!Store(w.n)
    BY <2>1, <2>2 DEF Queue!Store, Block
  <2> QED BY <2>2, <2>3 DEF Queue!Next
<1>5. CASE Get \/ Moved
  <2>1. stored' = stored /\ deleted' = deleted
    BY <1>5 DEF Get, Moved
  <2>2. CASE r'.at = "holding"
    <3>1. gotten' \in 1..(Size - 1) /\ deleted + gotten' <= stored
      <4>1. gotten' >= 1 /\ gotten' <= Available'
        BY <1>0, <2>2 DEF IndInv, ReaderInv, DataReady
      <4>2. stored' - deleted' = Available' /\ Available' \in 0..(Size - 1)
        BY AvailableType DEF IndInv, TypeOK, ContentsInOrder, Available
      <4>3. PICK a \in 0..(Size - 1) : a = Available'
        BY <4>2
      <4>4. gotten' >= 1 /\ gotten' <= a /\ stored' - deleted' = a
        BY <4>1, <4>2, <4>3
      <4>5. gotten' \in Nat /\ stored \in Nat /\ deleted \in Nat /\ stored - deleted = a
        BY <1>0, <2>1, <4>4
      <4>6. gotten' \in 1..(Size - 1)
        BY <4>4, <4>5
      <4>7. ASSUME NEW g \in Nat, NEW s \in Nat, NEW d \in Nat, g <= a, s - d = a
            PROVE  d + g <= s
        BY <4>7
      <4>8. deleted + gotten' <= stored
        BY <4>4, <4>5, <4>7
      <4> QED BY <4>6, <4>8
    <3>2. Block' = [i \in 0..(gotten' - 1) |-> deleted + 1 + i]
      BY <2>1, <2>2, BlockIsFrontNext DEF Lent
    <3>3. PICK n \in 1..(Size - 1) : n = gotten'
      BY <3>1
    <3>4. Queue!Lend(n)
      BY <2>1, <3>1, <3>2, <3>3 DEF Queue!Lend, Queue!Front, Block
    <3> QED BY <3>4 DEF Queue!Next
  <2>3. CASE r'.at # "holding"
    <3>1. r.at # "holding"
      <4>1. CASE Moved
        BY <4>1 DEF Moved
      <4>2. CASE Get /\ r.at = "holding"
        <5>1. /\ gotten >= 1 /\ gotten >= Margin /\ gotten <= Available /\ tail + gotten <= Size
              /\ tail \in 0..(Size - 1) /\ head \in Margin..(Size - 1) /\ Available \in 0..(Size - 1)
          BY <4>2, AvailableType DEF IndInv, TypeOK, ReaderInv, DataReady, Available
        <5>2. ~MustMove /\ DataReady(Contiguous)
          BY <1>0, <5>1 DEF MustMove, DataReady, Contiguous
        <5> QED BY <2>3, <4>2, <5>2 DEF Get, Deliver, Reader
      <4> QED BY <1>5, <4>1, <4>2
    <3> QED BY <2>1, <2>3, <3>1 DEF Block
  <2> QED BY <2>2, <2>3
<1>6. CASE Move
  <2>1. r.at # "holding" /\ r'.at # "holding"
    BY <1>6 DEF IndInv, TypeOK, Move
  <2> QED BY <1>6, <2>1 DEF Move, Block
<1>7. ASSUME NEW count \in 1..Size, Del(count)
      PROVE  Queue!Next
  <2>1. r.at = "holding" /\ r'.at # "holding" /\ count \in 1..gotten
    BY <1>7 DEF Del, Reader
  <2>2. count - 1 \in DOMAIN Block
    BY <1>0, <2>1 DEF Block
  <2>3. count \in 1..(Size - 1)
    <3>1. gotten <= Available /\ Available \in 0..(Size - 1)
      BY <2>1, AvailableType DEF IndInv, TypeOK, ReaderInv, Available
    <3> QED BY <1>0, <2>1, <3>1
  <2>4. Block' = [i \in {} |-> 0]
    BY <2>1 DEF Block
  <2>5. Queue!Remove(count)
    BY <1>7, <2>2, <2>4 DEF Queue!Remove, Queue!NoBlock, Del, Block
  <2> QED BY <2>3, <2>5 DEF Queue!Next
<1>8. CASE Clear
  <2>1. Block' = [i \in {} |-> 0]
    BY <1>8 DEF Block, Clear, Reader
  <2>2. Queue!Discard
    BY <1>8, <2>1 DEF Queue!Discard, Queue!NoBlock, Clear, Block
  <2> QED BY <2>2 DEF Queue!Next
<1>9. CASE UNCHANGED vars
  BY <1>9 DEF vars, Block
<1> QED BY <1>1, <1>2, <1>3, <1>4, <1>5, <1>6, <1>7, <1>8, <1>9 DEF Next, WriterNext, ReaderNext

(* The buffer implements a first-in first-out queue that lends its front    *)
(* and leaves what is lent untouched.                                       *)
THEOREM Refinement == Spec => ImplementsByteQueue
<1>1. Init => Queue!Init
  BY DEF Init, Queue!Init, Queue!NoBlock, Reader
<1> QED BY <1>1, Inductive, StepRefinement, PTL DEF Spec, ImplementsByteQueue, Queue!Spec

=============================================================================
