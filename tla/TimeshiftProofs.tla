--------------------------- MODULE TimeshiftProofs ---------------------------
(***************************************************************************)
(* Proofs about the time-shift buffer, for every size of the buffer, the   *)
(* packets and the gap: what is unread is kept, every position that is     *)
(* offered to a seek can be read, and blocks are packets that follow one   *)
(* another.                                                                *)
(*                                                                         *)
(* They rest on one invariant, KeptInv: all of the buffer but the places   *)
(* the packet in hand is to take holds the last bytes stored.              *)
(***************************************************************************)
EXTENDS TimeshiftBuffer, TLAPS

(* How far the writer is beyond a place of the buffer.                      *)
Dist(p) == IF p < m_WritePtr THEN m_WritePtr - p ELSE m_WritePtr - p + BufferSize

(* The part of the packet in hand that is to go on from the writer's place. *)
Owed == IF w.at \in {"end", "wrap"} THEN Packet ELSE w.left

KeptInv ==
  \A p \in 0..(BufferSize - 1) :
    Dist(p) <= stored /\ Dist(p) + Owed <= BufferSize => memory[Margin + p] = stored + 1 - Dist(p)

(* What was copied behind the writer's place and is not yet published.      *)
Copied(bytes) ==
  \A p \in 0..(BufferSize - 1) :
    m_WritePtr <= p /\ p < m_WritePtr + bytes => memory[Margin + p] = stored + 1 + p - m_WritePtr

WriterInv ==
  /\ w.at = "idle" => w.left = 0
  /\ stored + Owed <= MaxBytes
  /\ w.at \in {"end", "wrap"} => BufferSize - m_WritePtr <= Packet
  /\ w.at = "wrap" => w.left = Packet - (BufferSize - m_WritePtr) /\ Copied(BufferSize - m_WritePtr)
  /\ w.at \in {"copy", "publish"} => m_WritePtr + w.left < BufferSize
  /\ w.at = "publish" => Copied(w.left)

FullInv ==
  /\ stored = m_WritePtr \/ BufferSize + m_WritePtr <= stored
  /\ ~m_BufferFull => stored = m_WritePtr /\ m_WritePtr + 2 * Gap <= BufferSize
  /\ m_BufferFull => BufferSize < stored + 2 * Gap

(* The reader's distance, with what the writer is adding to it.             *)
ReaderInv ==
  ~lost => /\ m_ReadPtr >= 0
           /\ due + Available = stored + 1
           /\ Available + Gap + Owed < BufferSize + Packet
           /\ m_BytesConsumed <= Available

(* A reader that is not before the beginning passes the end only once.      *)
ConsumedInv == m_ReadPtr >= 0 => m_BytesConsumed <= BufferSize

(* A seek that has not stepped back has its end at a position.              *)
SeekInv == seek.on => seek.step >= Step /\ (seek.step = Step => seek.max >= 0)

(* The block is the packet before the place the reader goes on from.        *)
BlockInv ==
  r.at = "holding" /\ ~lost =>
    /\ PacketStart(due) => m_BytesConsumed = Packet
    /\ Packet <= m_BytesConsumed
    /\ r.block >= Margin => /\ r.block = Margin + Wrapped(m_ReadPtr + m_BytesConsumed - Packet)
                            /\ r.block + Packet <= BufferSize + Margin

IndInv == TypeOK /\ KeptInv /\ WriterInv /\ FullInv /\ ReaderInv /\ ConsumedInv /\ SeekInv /\ BlockInv

SeekType ==
  [on : BOOLEAN, cur : 0..(2 * BufferSize - 1), min : 0..(2 * BufferSize - 1), max : (-Step)..(2 * BufferSize - 1),
   step : Nat]

USE SizeAssumption DEF Margin

(* At most a packet is owed.                                                *)
LEMMA OwedIsAPart ==
  ASSUME IndInv
  PROVE  Owed \in 0..Packet
<1>1. w \in [at : {"idle", "end", "wrap", "copy", "publish"}, left : 0..Packet]
  BY DEF IndInv, TypeOK
<1> QED BY <1>1 DEF Owed

(* A step that leaves the reader alone leaves its block where it is.        *)
LEMMA BlockStays ==
  ASSUME BlockInv, ConsumedInv, SeekInv, UNCHANGED <<r, due, lost, m_ReadPtr, m_BytesConsumed, seek>>
  PROVE  BlockInv' /\ ConsumedInv' /\ SeekInv'
BY DEF BlockInv, ConsumedInv, SeekInv, Wrapped

LEMMA InitInd == Init => IndInv
<1> SUFFICES ASSUME Init PROVE IndInv
  OBVIOUS
<1>1. TypeOK
  <2>1. memory \in [0..(BufferSize + Margin - 1) -> 0..MaxBytes]
    BY DEF Init
  <2>2. /\ w \in [at : {"idle", "end", "wrap", "copy", "publish"}, left : 0..Packet]
        /\ r \in [at : {"idle", "check", "holding"}, block : (-Step)..(2 * BufferSize + Margin)]
        /\ seek \in SeekType
    BY DEF Init, WriterIdle, Reader, NoSeek, SeekType
  <2>3. /\ m_WritePtr \in 0..(BufferSize - 1) /\ m_ReadPtr \in (-Step)..(BufferSize - 1)
        /\ m_BytesConsumed \in 0..(BufferSize + Step)
        /\ stored \in 0..MaxBytes /\ due \in 1..(MaxBytes + 1)
    BY DEF Init
  <2> QED BY <2>1, <2>2, <2>3 DEF Init, TypeOK, SeekType
<1>2. KeptInv /\ WriterInv /\ FullInv /\ ReaderInv
  BY DEF Init, KeptInv, WriterInv, FullInv, ReaderInv, Dist, Owed, Copied, Available, WriterIdle
<1>3. BlockInv /\ ConsumedInv /\ SeekInv
  BY DEF Init, BlockInv, ConsumedInv, SeekInv, Reader, NoSeek
<1> QED BY <1>1, <1>2, <1>3 DEF IndInv

LEMMA ReceiveInd ==
  ASSUME IndInv, Receive
  PROVE  IndInv'
<1>1. TypeOK'
  <2>1. w' \in [at : {"idle", "end", "wrap", "copy", "publish"}, left : 0..Packet]
    BY DEF Receive
  <2> QED BY <2>1, Zenon DEF IndInv, TypeOK, Receive, pointers
<1>2. KeptInv' /\ FullInv'
  <2>1. Owed = 0 /\ Owed' = Packet
    BY DEF IndInv, WriterInv, Owed, Receive
  <2>2. ASSUME NEW p \in 0..(BufferSize - 1), Dist(p) + Packet <= BufferSize
        PROVE  Dist(p) + 0 <= BufferSize
    BY <2>2 DEF IndInv, TypeOK, Dist
  <2>3. KeptInv'
    BY <2>1, <2>2 DEF IndInv, KeptInv, Dist, Receive, pointers
  <2> QED BY <2>3 DEF IndInv, FullInv, Receive, pointers
<1>3. WriterInv'
  BY DEF IndInv, TypeOK, WriterInv, Owed, Copied, Receive, pointers
<1>4. ReaderInv'
  BY DEF IndInv, TypeOK, ReaderInv, Available, Owed, Receive, pointers
<1>5. BlockInv' /\ ConsumedInv' /\ SeekInv'
  BY BlockStays DEF IndInv, Receive, pointers
<1> QED BY <1>1, <1>2, <1>3, <1>4, <1>5 DEF IndInv

(* Copying a part of the packet in hand disturbs nothing that is kept.      *)
LEMMA StoreKeeps ==
  ASSUME IndInv, NEW bytes \in 0..Packet, m_WritePtr + bytes <= BufferSize, stored + bytes <= MaxBytes,
         bytes <= Owed, Store(bytes), UNCHANGED <<m_WritePtr, stored>>, Owed' = Owed
  PROVE  /\ memory' \in [0..(BufferSize + Margin - 1) -> 0..MaxBytes]
         /\ KeptInv'
         /\ Copied(bytes)'
<1>1. /\ m_WritePtr \in 0..(BufferSize - 1) /\ stored \in 0..MaxBytes
      /\ memory \in [0..(BufferSize + Margin - 1) -> 0..MaxBytes]
  BY DEF IndInv, TypeOK
<1>2. \A i \in 0..(BufferSize + Margin - 1) :
        memory'[i] = IF i - Margin - m_WritePtr \in 0..(bytes - 1) THEN stored + 1 + i - Margin - m_WritePtr ELSE memory[i]
  BY <1>1 DEF Store
<1>3. \A i \in 0..(BufferSize + Margin - 1) : memory'[i] \in 0..MaxBytes
  BY <1>1, <1>2
<1>4. memory' \in [0..(BufferSize + Margin - 1) -> 0..MaxBytes]
  BY <1>1, <1>3 DEF Store
<1>5. KeptInv'
  <2> SUFFICES ASSUME NEW p \in 0..(BufferSize - 1), Dist(p) <= stored, Dist(p) + Owed <= BufferSize
               PROVE  memory'[Margin + p] = stored + 1 - Dist(p)
    BY DEF KeptInv, Dist
  <2>1. Owed \in 0..Packet
    BY OwedIsAPart DEF IndInv, TypeOK
  <2>2. Margin + p \in 0..(BufferSize + Margin - 1) /\ (Margin + p) - Margin - m_WritePtr = p - m_WritePtr
    BY <1>1
  <2>3. ~((Margin + p) - Margin - m_WritePtr \in 0..(bytes - 1))
    BY <1>1, <2>1, <2>2 DEF Dist
  <2>4. memory'[Margin + p] = memory[Margin + p]
    BY <1>2, <2>2, <2>3
  <2> QED BY <2>4 DEF IndInv, KeptInv
<1>6. Copied(bytes)'
  BY <1>1, <1>2 DEF Copied
<1> QED BY <1>4, <1>5, <1>6

LEMMA CopyEndInd ==
  ASSUME IndInv, CopyEnd
  PROVE  IndInv'
<1>1. /\ BufferSize - m_WritePtr \in 0..Packet
      /\ m_WritePtr + (BufferSize - m_WritePtr) <= BufferSize
      /\ stored + (BufferSize - m_WritePtr) <= MaxBytes
      /\ BufferSize - m_WritePtr <= Owed /\ Owed' = Owed
  BY DEF IndInv, TypeOK, WriterInv, Owed, CopyEnd
<1>2. /\ memory' \in [0..(BufferSize + Margin - 1) -> 0..MaxBytes]
      /\ KeptInv' /\ Copied(BufferSize - m_WritePtr)'
  BY <1>1, StoreKeeps DEF CopyEnd, pointers
<1>3. TypeOK'
  <2>1. w' \in [at : {"idle", "end", "wrap", "copy", "publish"}, left : 0..Packet]
    BY <1>1 DEF IndInv, TypeOK, CopyEnd
  <2> QED BY <1>2, <2>1 DEF IndInv, TypeOK, CopyEnd, pointers
<1>4. WriterInv' /\ FullInv'
  BY <1>1, <1>2 DEF IndInv, TypeOK, WriterInv, FullInv, Owed, CopyEnd, pointers
<1>5. ReaderInv'
  BY DEF IndInv, ReaderInv, Available, Owed, CopyEnd, pointers
<1>6. BlockInv' /\ ConsumedInv' /\ SeekInv'
  BY BlockStays DEF IndInv, CopyEnd, pointers
<1> QED BY <1>2, <1>3, <1>4, <1>5, <1>6 DEF IndInv

LEMMA CopyInd ==
  ASSUME IndInv, Copy
  PROVE  IndInv'
<1>1. w.left \in 0..Packet /\ m_WritePtr + w.left <= BufferSize /\ stored + w.left <= MaxBytes
  <2>1. w.left \in 0..Packet /\ m_WritePtr \in 0..(BufferSize - 1)
    BY DEF IndInv, TypeOK
  <2>2. m_WritePtr + w.left < BufferSize /\ stored + w.left <= MaxBytes
    BY DEF IndInv, WriterInv, Owed, Copy
  <2> QED BY <2>1, <2>2
<1>2. w.left <= Owed /\ Owed' = Owed
  BY <1>1 DEF IndInv, TypeOK, Owed, Copy
<1>3. /\ memory' \in [0..(BufferSize + Margin - 1) -> 0..MaxBytes]
      /\ KeptInv' /\ Copied(w.left)'
  BY <1>1, <1>2, StoreKeeps DEF Copy, pointers
<1>4. TypeOK' /\ w'.left = w.left /\ w'.at = "publish"
  BY <1>1, <1>3 DEF IndInv, TypeOK, Copy, pointers
<1>5. WriterInv' /\ FullInv'
  BY <1>1, <1>3, <1>4 DEF IndInv, WriterInv, FullInv, Owed, Copy, pointers
<1>6. ReaderInv'
  BY <1>2 DEF IndInv, ReaderInv, Available, Copy, pointers
<1>7. BlockInv' /\ ConsumedInv' /\ SeekInv'
  BY BlockStays DEF IndInv, Copy, pointers
<1> QED BY <1>3, <1>4, <1>5, <1>6, <1>7 DEF IndInv

LEMMA WrapInd ==
  ASSUME IndInv, Wrap
  PROVE  IndInv'
<1>1. /\ m_WritePtr \in 0..(BufferSize - 1) /\ m_ReadPtr \in (-Step)..(BufferSize - 1)
      /\ stored \in 0..MaxBytes /\ w.left \in 0..Packet /\ m_BytesConsumed \in 0..(BufferSize + Step)
      /\ due \in 1..(MaxBytes + 1)
  BY DEF IndInv, TypeOK
<1>2. /\ BufferSize - m_WritePtr <= Packet /\ w.left = Packet - (BufferSize - m_WritePtr)
      /\ Copied(BufferSize - m_WritePtr) /\ stored + Packet <= MaxBytes
  BY DEF IndInv, WriterInv, Owed, Wrap
<1>3. m_WritePtr' = 0 /\ stored' = stored + BufferSize - m_WritePtr /\ w'.left = w.left /\ w'.at = "copy"
  BY DEF IndInv, TypeOK, Wrap
<1>4. TypeOK'
  <2>1. w' \in [at : {"idle", "end", "wrap", "copy", "publish"}, left : 0..Packet]
    BY DEF IndInv, TypeOK, Wrap
  <2>2. m_WritePtr' \in 0..(BufferSize - 1) /\ stored' \in 0..MaxBytes
    BY <1>1, <1>2, <1>3
  <2> QED BY <2>1, <2>2 DEF IndInv, TypeOK, Wrap
<1>5. KeptInv'
  <2> SUFFICES ASSUME NEW p \in 0..(BufferSize - 1), BufferSize - p <= stored', BufferSize - p + w.left <= BufferSize
               PROVE  memory[Margin + p] = stored' + 1 - (BufferSize - p)
    BY <1>3 DEF KeptInv, Dist, Owed, Wrap
  <2>1. CASE p < m_WritePtr
    <3>1. Dist(p) = m_WritePtr - p /\ Dist(p) <= stored /\ Dist(p) + Packet <= BufferSize
      BY <1>1, <1>2, <1>3, <2>1 DEF Dist
    <3>2. memory[Margin + p] = stored + 1 - Dist(p)
      BY <3>1 DEF IndInv, KeptInv, Owed, Wrap
    <3> QED BY <1>1, <1>3, <3>1, <3>2
  <2>2. CASE m_WritePtr <= p
    <3>1. memory[Margin + p] = stored + 1 + p - m_WritePtr
      BY <1>1, <1>2, <2>2 DEF Copied
    <3> QED BY <1>1, <1>3, <3>1
  <2> QED BY <1>1, <2>1, <2>2
<1>6. WriterInv'
  BY <1>1, <1>2, <1>3 DEF WriterInv, Owed
<1>7. FullInv'
  BY <1>1, <1>2, <1>3 DEF IndInv, FullInv, Wrap
<1>8. ReaderInv'
  <2> SUFFICES ASSUME ~lost
               PROVE  /\ m_ReadPtr >= 0
                      /\ due + Available' = stored' + 1
                      /\ Available' + Gap + Owed' < BufferSize + Packet
                      /\ m_BytesConsumed <= Available'
    BY DEF ReaderInv, Wrap
  <2>1. /\ due + Available = stored + 1 /\ Available + Gap + Packet < BufferSize + Packet
        /\ m_BytesConsumed <= Available /\ m_ReadPtr >= 0
    BY DEF IndInv, ReaderInv, Owed, Wrap
  <2>2. 0 < m_ReadPtr /\ m_ReadPtr <= m_WritePtr
    BY <1>1, <1>2, <2>1 DEF Available
  <2>3. Available = m_WritePtr - m_ReadPtr /\ Available' = BufferSize - m_ReadPtr
    BY <1>1, <1>3, <2>2 DEF Available, Wrap
  <2>4. Owed' = w.left
    BY <1>3 DEF Owed
  <2> QED BY <1>1, <1>2, <1>3, <2>1, <2>3, <2>4
<1>9. BlockInv' /\ ConsumedInv' /\ SeekInv'
  BY BlockStays DEF IndInv, Wrap
<1> QED BY <1>4, <1>5, <1>6, <1>7, <1>8, <1>9 DEF IndInv

LEMMA PublishInd ==
  ASSUME IndInv, Publish
  PROVE  IndInv'
<1>1. /\ m_WritePtr \in 0..(BufferSize - 1) /\ m_ReadPtr \in (-Step)..(BufferSize - 1)
      /\ stored \in 0..MaxBytes /\ w.left \in 0..Packet /\ m_BytesConsumed \in 0..(BufferSize + Step)
      /\ due \in 1..(MaxBytes + 1) /\ m_BufferFull \in BOOLEAN
  BY DEF IndInv, TypeOK
<1>2. m_WritePtr + w.left < BufferSize /\ Copied(w.left) /\ stored + w.left <= MaxBytes
  BY DEF IndInv, WriterInv, Owed, Publish
<1>3. m_WritePtr' = m_WritePtr + w.left /\ stored' = stored + w.left /\ w' = WriterIdle
  BY DEF Publish
<1>4. TypeOK'
  <2>1. w' \in [at : {"idle", "end", "wrap", "copy", "publish"}, left : 0..Packet]
    BY <1>3 DEF WriterIdle
  <2>2. m_WritePtr' \in 0..(BufferSize - 1) /\ stored' \in 0..MaxBytes /\ m_BufferFull' \in BOOLEAN
    BY <1>1, <1>2, <1>3 DEF Publish
  <2> QED BY <2>1, <2>2 DEF IndInv, TypeOK, Publish
<1>5. KeptInv'
  <2> SUFFICES ASSUME NEW p \in 0..(BufferSize - 1), Dist(p)' <= stored', Dist(p)' <= BufferSize
               PROVE  memory[Margin + p] = stored' + 1 - Dist(p)'
    BY <1>1, <1>3 DEF KeptInv, Dist, Owed, WriterIdle, Publish
  <2>1. CASE m_WritePtr <= p /\ p < m_WritePtr + w.left
    <3>1. memory[Margin + p] = stored + 1 + p - m_WritePtr
      BY <1>1, <1>2, <2>1 DEF Copied
    <3>2. Dist(p)' = m_WritePtr + w.left - p
      BY <1>1, <1>3, <2>1 DEF Dist
    <3> QED BY <1>1, <1>3, <3>1, <3>2
  <2>2. CASE ~(m_WritePtr <= p /\ p < m_WritePtr + w.left)
    <3>1. Dist(p)' = Dist(p) + w.left /\ Dist(p) \in Int
      BY <1>1, <1>3, <2>2 DEF Dist
    <3>2. Dist(p) <= stored /\ Dist(p) + w.left <= BufferSize
      BY <1>1, <1>3, <3>1
    <3>3. memory[Margin + p] = stored + 1 - Dist(p)
      BY <3>2 DEF IndInv, KeptInv, Owed, Publish
    <3> QED BY <1>1, <1>3, <3>1, <3>3
  <2> QED BY <2>1, <2>2
<1>6. WriterInv'
  BY <1>1, <1>2, <1>3 DEF WriterInv, Owed, WriterIdle
<1>7. FullInv'
  <2>1. /\ stored = m_WritePtr \/ BufferSize + m_WritePtr <= stored
        /\ ~m_BufferFull => stored = m_WritePtr
        /\ m_BufferFull => BufferSize < stored + 2 * Gap
    BY DEF IndInv, FullInv
  <2>2. m_BufferFull' <=> m_BufferFull \/ m_WritePtr' + 2 * Gap > BufferSize
    BY DEF Publish
  <2>3. stored' = m_WritePtr' \/ BufferSize + m_WritePtr' <= stored'
    BY <1>1, <1>3, <2>1
  <2>4. ~m_BufferFull' => stored' = m_WritePtr' /\ m_WritePtr' + 2 * Gap <= BufferSize
    BY <1>1, <1>3, <2>1, <2>2
  <2>5. m_BufferFull' => BufferSize < stored' + 2 * Gap
    <3>1. CASE m_BufferFull
      BY <1>1, <1>3, <2>1, <3>1
    <3>2. CASE m_WritePtr' + 2 * Gap > BufferSize
      BY <1>1, <1>3, <2>3, <3>2
    <3> QED BY <2>2, <3>1, <3>2
  <2> QED BY <2>3, <2>4, <2>5 DEF FullInv
<1>8. ReaderInv'
  <2> SUFFICES ASSUME ~lost
               PROVE  /\ m_ReadPtr >= 0
                      /\ due + Available' = stored' + 1
                      /\ Available' + Gap + Owed' < BufferSize + Packet
                      /\ m_BytesConsumed <= Available'
    BY DEF ReaderInv, Publish
  <2>1. /\ due + Available = stored + 1 /\ Available + Gap + w.left < BufferSize + Packet
        /\ m_BytesConsumed <= Available /\ m_ReadPtr >= 0
    BY DEF IndInv, ReaderInv, Owed, Publish
  <2>2. Available' = Available + w.left
    BY <1>1, <1>2, <1>3, <2>1 DEF Available, Publish
  <2>3. Owed' = 0 /\ Available \in Int
    BY <1>1, <1>3 DEF Owed, WriterIdle, Available
  <2>4. due + Available' = stored' + 1 /\ m_BytesConsumed <= Available'
    BY <1>1, <1>3, <2>1, <2>2, <2>3
  <2>5. Available' + Gap + Owed' < BufferSize + Packet
    BY <1>1, <2>1, <2>2, <2>3
  <2> QED BY <2>1, <2>4, <2>5
<1>9. BlockInv' /\ ConsumedInv' /\ SeekInv'
  BY BlockStays DEF IndInv, Publish
<1> QED BY <1>4, <1>5, <1>6, <1>7, <1>8, <1>9 DEF IndInv

(* A step of the reader that stores nothing leaves what is kept, and the    *)
(* writer's own state, as they are.                                         *)
LEMMA ReaderKeeps ==
  ASSUME IndInv, UNCHANGED <<m_WritePtr, m_BufferFull, stored, w>>,
         \A i \in Margin..(BufferSize + Margin - 1) : memory'[i] = memory[i]
  PROVE  KeptInv' /\ WriterInv' /\ FullInv' /\ Owed' = Owed
<1>1. m_WritePtr \in 0..(BufferSize - 1) /\ stored \in 0..MaxBytes /\ w.left \in 0..Packet
  BY DEF IndInv, TypeOK
<1>2. \A p \in 0..(BufferSize - 1) : memory'[Margin + p] = memory[Margin + p]
  OBVIOUS
<1>3. KeptInv' /\ FullInv' /\ Owed' = Owed
  BY <1>2 DEF IndInv, KeptInv, FullInv, Dist, Owed
<1>4. \A n \in Int : Copied(n)' <=> Copied(n)
  BY <1>2 DEF Copied
<1>5. WriterInv'
  BY <1>1, <1>3, <1>4 DEF IndInv, WriterInv
<1> QED BY <1>3, <1>5

LEMMA ConsumeInd ==
  ASSUME IndInv, Consume
  PROVE  IndInv'
<1>1. /\ m_WritePtr \in 0..(BufferSize - 1) /\ m_ReadPtr \in (-Step)..(BufferSize - 1)
      /\ m_BytesConsumed \in 0..(BufferSize + Step)
      /\ stored \in 0..MaxBytes /\ due \in 1..(MaxBytes + 1)
  BY DEF IndInv, TypeOK
<1>2. KeptInv' /\ WriterInv' /\ FullInv' /\ Owed' = Owed
  BY ReaderKeeps DEF Consume
<1>3. ASSUME ~lost
      PROVE  /\ Available' = Available - m_BytesConsumed /\ Available \in Nat
             /\ due + Available = stored + 1 /\ Available + Gap + Owed < BufferSize + Packet
             /\ m_BytesConsumed <= Available /\ due' = due + m_BytesConsumed /\ m_ReadPtr' >= 0
  <2>1. m_BytesConsumed <= Available /\ due + Available = stored + 1 /\ m_ReadPtr >= 0
        /\ Available + Gap + Owed < BufferSize + Packet
    BY <1>3 DEF IndInv, ReaderInv
  <2>2. Available' = Available - m_BytesConsumed /\ Available \in Nat /\ m_ReadPtr' >= 0
    BY <1>1, <2>1 DEF Available, Consume, Wrapped
  <2> QED BY <1>3, <2>1, <2>2 DEF Consume
<1>4. TypeOK'
  <2>1. m_ReadPtr' \in (-Step)..(BufferSize - 1) /\ m_BytesConsumed' \in 0..(BufferSize + Step)
    BY <1>1 DEF Consume, Wrapped, IndInv, ConsumedInv
  <2>2. due' \in 1..(MaxBytes + 1)
    <3>1. CASE lost
      BY <1>1, <3>1 DEF Consume
    <3>2. CASE ~lost
      BY <1>1, <1>3, <3>2
    <3> QED BY <3>1, <3>2
  <2>3. r' \in [at : {"idle", "check", "holding"}, block : (-Step)..(2 * BufferSize + Margin)]
    BY DEF Consume, Reader
  <2> QED BY <2>1, <2>2, <2>3 DEF IndInv, TypeOK, Consume
<1>5. ReaderInv'
  <2> SUFFICES ASSUME ~lost
               PROVE  /\ m_ReadPtr' >= 0
                      /\ due' + Available' = stored + 1
                      /\ Available' + Gap + Owed < BufferSize + Packet
                      /\ m_BytesConsumed' <= Available'
    BY <1>2 DEF ReaderInv, Consume
  <2>1. Owed \in Int
    BY OwedIsAPart DEF IndInv, TypeOK
  <2>2. m_BytesConsumed' = 0
    BY DEF Consume
  <2> QED BY <1>1, <1>3, <2>1, <2>2
<1>6. BlockInv' /\ ConsumedInv' /\ SeekInv'
  BY DEF IndInv, BlockInv, ConsumedInv, SeekInv, Consume, Reader
<1> QED BY <1>2, <1>4, <1>5, <1>6 DEF IndInv

(* Numbers a packet apart are at the same place of their packets.           *)
LEMMA SamePhase ==
  ASSUME NEW n \in Int
  PROVE  PacketStart(n + Packet) <=> PacketStart(n)
<1> DEFINE q == (n - 1) \div Packet
           m == (n - 1) % Packet
<1>1. q \in Int /\ m \in 0..(Packet - 1) /\ n - 1 = Packet * q + m
  OBVIOUS
<1>4. n + Packet - 1 = (n - 1) + Packet
  OBVIOUS
<1> HIDE DEF q, m
<1> DEFINE s == q + 1
<1>2. s \in Int /\ (n - 1) + Packet = Packet * s + m
  BY <1>1
<1> HIDE DEF s
<1>3. (Packet * s + m) % Packet = m
  BY <1>1, <1>2
<1> QED BY <1>2, <1>3, <1>4 DEF m, PacketStart

(* Of a packet's length of bytes one begins a packet.                       *)
LEMMA NextStart ==
  ASSUME NEW n \in Int
  PROVE  \E k \in 0..(Packet - 1) : PacketStart(n + k)
<1> DEFINE q == (n - 1) \div Packet
           m == (n - 1) % Packet
<1>1. q \in Int /\ m \in 0..(Packet - 1) /\ n - 1 = Packet * q + m
  OBVIOUS
<1>2. CASE m = 0
  <2>1. 0 \in 0..(Packet - 1) /\ n + 0 = n
    OBVIOUS
  <2>2. PacketStart(n + 0)
    BY <1>2, <2>1 DEF PacketStart
  <2> QED BY <2>1, <2>2
<1>3. CASE m # 0
  <2> HIDE DEF q, m
  <2> DEFINE s == q + 1
             k == Packet - m
  <2>1. s \in Int /\ k \in 0..(Packet - 1) /\ (n + k) - 1 = Packet * s
    BY <1>1, <1>3
  <2> HIDE DEF s, k
  <2>2. (Packet * s) % Packet = 0
    BY <2>1
  <2>3. PacketStart(n + k)
    BY <2>1, <2>2 DEF PacketStart
  <2> QED BY <2>1, <2>3
<1> QED BY <1>2, <1>3

(* The byte i places from the reader, behind it too if it is at the end.    *)
LEMMA ByteFrom ==
  ASSUME IndInv, ~lost, NEW i \in Int, NEW p \in 0..(BufferSize - 1),
         p = m_ReadPtr + i \/ p = m_ReadPtr + i - BufferSize,
         i < Available, Available - i + Owed <= BufferSize,
         i >= 0 \/ (CloseToEnd /\ i >= 0 - Margin)
  PROVE  memory[Margin + p] = due + i
<1>1. /\ m_WritePtr \in 0..(BufferSize - 1) /\ m_ReadPtr \in (-Step)..(BufferSize - 1)
      /\ stored \in 0..MaxBytes /\ due \in 1..(MaxBytes + 1) /\ Owed \in 0..Packet
  BY OwedIsAPart DEF IndInv, TypeOK
<1>2. /\ due + Available = stored + 1 /\ (stored = m_WritePtr \/ BufferSize + m_WritePtr <= stored)
      /\ m_ReadPtr >= 0
  BY DEF IndInv, ReaderInv, FullInv
<1>3. Available \in 0..BufferSize /\ Dist(p) = Available - i
  BY <1>1, <1>2 DEF Available, Dist
<1>4. CloseToEnd => m_ReadPtr < due
  BY <1>1, <1>2 DEF Available
<1>5. Dist(p) <= stored /\ Dist(p) + Owed <= BufferSize
  BY <1>1, <1>2, <1>3, <1>4 DEF CloseToEnd
<1>6. memory[Margin + p] = stored + 1 - Dist(p)
  BY <1>5 DEF IndInv, KeptInv
<1> QED BY <1>1, <1>2, <1>3, <1>6

(* What ReadBlock() finds j bytes on: the byte that is due, or, in the part *)
(* it copied to the front, the one two packets before.                      *)
LEMMA ByteFound ==
  ASSUME IndInv, ~lost, NEW mem, NEW base, NEW j \in 0..(Available - 1),
         mem = (IF CloseToEnd THEN CopyToFront(BufferSize - m_ReadPtr) ELSE memory),
         base = (IF CloseToEnd THEN Margin - (BufferSize - m_ReadPtr) ELSE Margin + m_ReadPtr),
         base + j \in DOMAIN mem
  PROVE  /\ base + j >= Margin => mem[base + j] = due + j
         /\ base + j < Margin /\ Available - j + Margin + Owed <= BufferSize => mem[base + j] = due + j - Margin
<1>1. /\ m_ReadPtr \in (-Step)..(BufferSize - 1) /\ Owed \in 0..Packet /\ m_WritePtr \in 0..(BufferSize - 1)
      /\ memory \in [0..(BufferSize + Margin - 1) -> 0..MaxBytes]
  BY OwedIsAPart DEF IndInv, TypeOK
<1>2. Available \in 0..BufferSize /\ Available + Gap + Owed < BufferSize + Packet /\ m_ReadPtr >= 0
  BY <1>1 DEF IndInv, ReaderInv, Available
<1>3. CASE ~CloseToEnd
  <2>1. mem = memory /\ base = Margin + m_ReadPtr /\ m_ReadPtr + j \in 0..(BufferSize - 1)
    BY <1>1, <1>2, <1>3
  <2>2. j \in Int /\ j >= 0 /\ j < Available /\ Available - j + Owed <= BufferSize
    BY <1>1, <1>2
  <2> DEFINE p == m_ReadPtr + j
  <2>3. p \in 0..(BufferSize - 1) /\ p = m_ReadPtr + j
    BY <2>1
  <2>4. Margin + p = base + j /\ ~(base + j < Margin)
    BY <1>1, <1>2, <2>1
  <2> HIDE DEF p
  <2>5. memory[Margin + p] = due + j
    BY <2>2, <2>3, ByteFrom
  <2> QED BY <2>1, <2>4, <2>5
<1>4. CASE CloseToEnd
  <2>1. base = Margin - (BufferSize - m_ReadPtr) /\ m_ReadPtr > BufferSize - Margin
        /\ mem = CopyToFront(BufferSize - m_ReadPtr)
    BY <1>4 DEF CloseToEnd
  <2>2. base + j \in 0..(BufferSize + Margin - 1)
    BY <1>1, <1>2, <2>1
  <2>3. mem[base + j] = IF base + j \in base..(Margin - 1) THEN memory[m_ReadPtr + (base + j) - base] ELSE memory[base + j]
    BY <1>1, <2>1, <2>2 DEF CopyToFront
  <2>4. CASE base + j >= Margin
    <3>1. mem[base + j] = memory[base + j] /\ m_ReadPtr + j - BufferSize \in 0..(BufferSize - 1)
      BY <1>1, <1>2, <2>1, <2>2, <2>3, <2>4
    <3>2. j \in Int /\ j >= 0 /\ j < Available /\ Available - j + Owed <= BufferSize
      BY <1>1, <1>2
    <3> DEFINE p == m_ReadPtr + j - BufferSize
    <3>3. p \in 0..(BufferSize - 1) /\ p = m_ReadPtr + j - BufferSize
      BY <3>1
    <3> HIDE DEF p
    <3>4. memory[Margin + p] = due + j
      BY <3>2, <3>3, ByteFrom
    <3>5. Margin + p = base + j
      BY <1>1, <1>2, <2>1, <3>3
    <3> QED BY <2>4, <3>1, <3>4, <3>5
  <2>5. CASE base + j < Margin /\ Available - j + Margin + Owed <= BufferSize
    <3>1. mem[base + j] = memory[m_ReadPtr + j] /\ m_ReadPtr + j - Margin \in 0..(BufferSize - 1)
      BY <1>1, <1>2, <2>1, <2>2, <2>3, <2>5
    <3> DEFINE i == j - Margin
               p == m_ReadPtr + i
    <3>2. i \in Int /\ i >= 0 - Margin /\ i < Available /\ Available - i + Owed <= BufferSize
      BY <1>1, <1>2, <2>5
    <3>3. p \in 0..(BufferSize - 1) /\ p = m_ReadPtr + i
      BY <1>1, <3>1
    <3>4. Margin + p = m_ReadPtr + j /\ due + i = due + j - Margin
      BY <1>1, <1>2 DEF IndInv, TypeOK
    <3> HIDE DEF i, p
    <3>5. memory[Margin + p] = due + i
      BY <1>4, <3>2, <3>3, ByteFrom
    <3> QED BY <2>5, <3>1, <3>4, <3>5
  <2> QED BY <1>1, <1>2, <2>1, <2>4, <2>5
<1> QED BY <1>3, <1>4

(* Away from the end a packet is found within a packet's length, so that    *)
(* the block that is taken ends within the buffer.  At the beginning of a   *)
(* packet the first byte is taken, also where the bytes copied to the front *)
(* are the wrong ones: these are a whole number of packets off.             *)
LEMMA BlockIsNext ==
  ASSUME IndInv, ReadBlock
  PROVE  BlockInv'
<1> DEFINE bytes == BufferSize - m_ReadPtr
           mem   == IF CloseToEnd THEN CopyToFront(bytes) ELSE memory
           base  == IF CloseToEnd THEN Margin - bytes ELSE Margin + m_ReadPtr
           sure  == SyncAt(mem, base, Available, SyncBytes)
<1> SUFFICES ASSUME r'.at = "holding", ~lost
             PROVE  /\ PacketStart(due) => m_BytesConsumed' = Packet
                    /\ Packet <= m_BytesConsumed'
                    /\ r'.block >= Margin => /\ r'.block = Margin + Wrapped(m_ReadPtr + m_BytesConsumed' - Packet)
                                             /\ r'.block + Packet <= BufferSize + Margin
  BY DEF BlockInv, ReadBlock, Wrapped
<1>1. /\ m_WritePtr \in 0..(BufferSize - 1) /\ m_ReadPtr \in 0..(BufferSize - 1) /\ due \in 1..(MaxBytes + 1)
      /\ memory \in [0..(BufferSize + Margin - 1) -> 0..MaxBytes] /\ Owed \in 0..Packet /\ stored \in 0..MaxBytes
  <2>1. m_ReadPtr \in (-Step)..(BufferSize - 1) /\ m_ReadPtr >= 0
    BY DEF IndInv, TypeOK, ReaderInv
  <2>2. m_ReadPtr \in 0..(BufferSize - 1)
    BY <2>1
  <2> QED BY <2>2, OwedIsAPart DEF IndInv, TypeOK
<1>2. /\ Available \in Margin..BufferSize
      /\ Available + Gap + Owed < BufferSize + Packet /\ due + Available = stored + 1
  BY <1>1 DEF IndInv, ReaderInv, Available, ReadBlock
<1>3. PICK k \in 0..(Available - Packet) :
        /\ \A j \in sure : k <= j
        /\ m_BytesConsumed' = k + Packet
        /\ r' = [at |-> "holding", block |-> base + k]
  BY DEF ReadBlock, Reader, SyncAt
<1>4. DOMAIN mem = 0..(BufferSize + Margin - 1)
  BY <1>1 DEF CopyToFront
<1>5. /\ base \in Int
      /\ CloseToEnd => base = Margin - bytes /\ bytes < Margin
      /\ ~CloseToEnd => base = Margin + m_ReadPtr /\ m_ReadPtr <= BufferSize - Margin
  BY <1>1 DEF CloseToEnd
<1>6. \A j \in 0..(Available - 1) : base + j \in DOMAIN mem =>
        /\ base + j >= Margin => mem[base + j] = due + j
        /\ base + j < Margin /\ Available - j + Margin + Owed <= BufferSize => mem[base + j] = due + j - Margin
  BY ByteFound
<1>7. \A j \in 0..(Available - Packet) :
        /\ base + j \in DOMAIN mem /\ mem[base + j] \in SyncBytes
        /\ base + j + Packet \in DOMAIN mem /\ mem[base + j + Packet] \in SyncBytes
        => j \in sure
  BY DEF SyncAt, Byte
<1>8. \A n \in Int : PacketStart(n + Packet) <=> PacketStart(n)
  BY SamePhase
<1>9. \A n \in 1..MaxBytes : PacketStart(n) => n \in SyncBytes
  BY SyncAssumption
<1> HIDE DEF mem, base, sure
<1>10. ~CloseToEnd => k < Packet
  <2> SUFFICES ASSUME ~CloseToEnd PROVE k < Packet
    OBVIOUS
  <2>1. PICK j \in 0..(Packet - 1) : PacketStart(due + j)
    <3>1. due \in Int
      BY <1>1
    <3> QED BY <3>1, NextStart
  <2>2. /\ j \in 0..(Available - 1) /\ j + Packet \in 0..(Available - 1) /\ j \in 0..(Available - Packet)
        /\ base + j >= Margin /\ base + (j + Packet) >= Margin /\ base + (j + Packet) = base + j + Packet
        /\ base + j \in DOMAIN mem /\ base + (j + Packet) \in DOMAIN mem
    BY <1>1, <1>2, <1>4, <1>5
  <2>3. mem[base + j] = due + j /\ mem[base + j + Packet] = due + (j + Packet)
    BY <1>6, <2>2
  <2>4. due + j \in 1..MaxBytes /\ due + (j + Packet) \in 1..MaxBytes /\ due + (j + Packet) = (due + j) + Packet
    BY <1>1, <1>2, <2>2
  <2>5. due + j \in Int /\ PacketStart(due + (j + Packet))
    BY <1>1, <1>8, <2>1, <2>4
  <2>6. due + j \in SyncBytes /\ due + (j + Packet) \in SyncBytes
    BY <1>9, <2>1, <2>4, <2>5
  <2>7. j \in sure
    BY <1>7, <2>2, <2>3, <2>6
  <2> QED BY <1>3, <2>7
<1>11. PacketStart(due) => k = 0
  <2> SUFFICES ASSUME PacketStart(due) PROVE 0 \in sure
    BY <1>2, <1>3
  <2>1. /\ 0 \in 0..(Available - Packet) /\ 0 \in 0..(Available - 1) /\ Packet \in 0..(Available - 1)
        /\ base + 0 \in DOMAIN mem /\ base + Packet \in DOMAIN mem /\ base + 0 + Packet = base + Packet
    BY <1>1, <1>2, <1>4, <1>5
  <2>2. Available - 0 + Margin + Owed <= BufferSize /\ Available - Packet + Margin + Owed <= BufferSize
    BY <1>1, <1>2
  <2>3. /\ mem[base + 0] = due + 0 \/ (CloseToEnd /\ mem[base + 0] = due + 0 - Margin)
        /\ mem[base + Packet] = due + Packet \/ (CloseToEnd /\ mem[base + Packet] = due + Packet - Margin)
    BY <1>1, <1>5, <1>6, <2>1, <2>2
  <2>4. CloseToEnd => Margin < due
    BY <1>1, <1>2 DEF CloseToEnd, IndInv, FullInv, Available
  <2>5. /\ due + 0 = due /\ due \in 1..MaxBytes /\ due + Packet \in 1..MaxBytes
        /\ (due - Margin) + Packet = due - Packet /\ (due - Packet) + Packet = due
        /\ due + Packet - Margin = due - Packet /\ due - Margin \in Int /\ due - Packet \in Int
        /\ CloseToEnd => due - Margin \in 1..MaxBytes /\ due - Packet \in 1..MaxBytes
    BY <1>1, <1>2, <2>4
  <2>6. PacketStart(due + Packet) /\ PacketStart(due - Packet) /\ PacketStart(due - Margin)
    <3>1. due \in Int
      BY <1>1
    <3>2. PacketStart(due + Packet)
      BY <1>8, <3>1
    <3>3. PacketStart((due - Packet) + Packet)
      BY <2>5
    <3>4. PacketStart(due - Packet)
      BY <1>8, <2>5, <3>3
    <3>5. PacketStart((due - Margin) + Packet)
      BY <2>5, <3>4
    <3>6. PacketStart(due - Margin)
      BY <1>8, <2>5, <3>5
    <3> QED BY <3>2, <3>4, <3>6
  <2>7. /\ due \in SyncBytes /\ due + Packet \in SyncBytes
        /\ CloseToEnd => due - Margin \in SyncBytes /\ due - Packet \in SyncBytes
    BY <1>9, <2>5, <2>6
  <2>8. mem[base + 0] \in SyncBytes /\ mem[base + 0 + Packet] \in SyncBytes
    BY <2>1, <2>3, <2>5, <2>7
  <2> QED BY <1>7, <2>1, <2>8
<1>12. Packet <= m_BytesConsumed' /\ m_BytesConsumed' - Packet = k /\ r'.block = base + k
  BY <1>2, <1>3
<1>13. base + k >= Margin => base + k = Margin + Wrapped(m_ReadPtr + k)
  BY <1>1, <1>2, <1>3, <1>5, <1>10 DEF Wrapped
<1>14. base + k >= Margin => base + k + Packet <= BufferSize + Margin
  BY <1>1, <1>2, <1>3, <1>5, <1>10
<1>15. m_ReadPtr + m_BytesConsumed' - Packet = m_ReadPtr + k
  BY <1>1, <1>2, <1>3
<1> QED BY <1>3, <1>11, <1>12, <1>13, <1>14, <1>15

LEMMA ReadBlockInd ==
  ASSUME IndInv, ReadBlock
  PROVE  IndInv'
<1> DEFINE bytes == BufferSize - m_ReadPtr
           mem   == IF CloseToEnd THEN CopyToFront(bytes) ELSE memory
           base  == IF CloseToEnd THEN Margin - bytes ELSE Margin + m_ReadPtr
           found == SyncAt(mem, base, Available, SyncBytes \cup {0})
<1>1. /\ m_WritePtr \in 0..(BufferSize - 1) /\ m_ReadPtr \in (-Step)..(BufferSize - 1)
      /\ memory \in [0..(BufferSize + Margin - 1) -> 0..MaxBytes]
  BY DEF IndInv, TypeOK
<1>2. /\ mem \in [0..(BufferSize + Margin - 1) -> 0..MaxBytes]
      /\ \A i \in Margin..(BufferSize + Margin - 1) : mem[i] = memory[i]
  <2>1. CASE CloseToEnd
    <3>1. bytes \in 0..Margin
      BY <1>1, <2>1 DEF CloseToEnd
    <3>2. mem = CopyToFront(bytes)
      BY <2>1
    <3> HIDE DEF mem
    <3>3. DOMAIN memory = 0..(BufferSize + Margin - 1)
      BY <1>1
    <3>4. \A i \in 0..(BufferSize + Margin - 1) :
            mem[i] = IF i \in (Margin - bytes)..(Margin - 1) THEN memory[m_ReadPtr + i - (Margin - bytes)] ELSE memory[i]
      BY <3>2, <3>3 DEF CopyToFront
    <3>5. \A i \in 0..(BufferSize + Margin - 1) : mem[i] \in 0..MaxBytes
      <4> TAKE i \in 0..(BufferSize + Margin - 1)
      <4>1. i \in (Margin - bytes)..(Margin - 1) => m_ReadPtr + i - (Margin - bytes) \in 0..(BufferSize + Margin - 1)
        BY <1>1, <3>1
      <4> QED BY <1>1, <3>4, <4>1
    <3>6. mem \in [0..(BufferSize + Margin - 1) -> 0..MaxBytes]
      BY <3>2, <3>3, <3>5 DEF CopyToFront
    <3> QED BY <3>4, <3>6
  <2>2. CASE ~CloseToEnd
    BY <1>1, <2>2
  <2> QED BY <2>1, <2>2
<1>3. memory' = mem /\ Available >= Margin
  BY DEF ReadBlock
<1>4. KeptInv' /\ WriterInv' /\ FullInv' /\ Owed' = Owed
  BY <1>2, <1>3, ReaderKeeps DEF ReadBlock
<1>5. /\ Available \in 0..(BufferSize + Step) /\ Available' = Available
      /\ m_ReadPtr >= 0 => Available <= BufferSize
      /\ m_ReadPtr + Available < 2 * BufferSize
  BY <1>1 DEF Available, ReadBlock
<1>6. /\ m_BytesConsumed' \in 0..Available
      /\ r' \in [at : {"idle", "check", "holding"}, block : (-Step)..(2 * BufferSize + Margin)]
  <2>1. CASE m_BytesConsumed' = Available - Packet /\ r' = Reader("idle")
    BY <1>3, <1>5, <2>1 DEF Reader
  <2>2. CASE \E k \in found : m_BytesConsumed' = k + Packet /\ r' = [at |-> "holding", block |-> base + k]
    <3>1. PICK k \in found : m_BytesConsumed' = k + Packet /\ r' = [at |-> "holding", block |-> base + k]
      BY <2>2
    <3>2. k \in 0..(Available - Packet)
      BY DEF SyncAt
    <3>3. base \in Int /\ base >= -Step /\ base <= Margin + m_ReadPtr
      BY <1>1 DEF CloseToEnd
    <3> HIDE DEF mem, base, found
    <3>4. base + k \in (-Step)..(2 * BufferSize + Margin)
      BY <1>1, <1>3, <1>5, <3>2, <3>3
    <3>5. k + Packet \in 0..Available
      BY <1>5, <3>2
    <3> QED BY <3>1, <3>4, <3>5
  <2> QED BY <2>1, <2>2 DEF ReadBlock
<1> HIDE DEF mem, base, found
<1>7. TypeOK'
  <2>1. UNCHANGED <<m_WritePtr, m_ReadPtr, m_BufferFull, w, seek, stored, due, lost>>
    BY DEF ReadBlock
  <2>2. m_BytesConsumed' \in 0..(BufferSize + Step)
    BY <1>5, <1>6
  <2>3. memory' \in [0..(BufferSize + Margin - 1) -> 0..MaxBytes]
    BY <1>2, <1>3
  <2> QED BY <1>6, <2>1, <2>2, <2>3 DEF IndInv, TypeOK
<1>8. ReaderInv'
  BY <1>4, <1>5, <1>6 DEF IndInv, ReaderInv, ReadBlock
<1>9. ConsumedInv' /\ SeekInv'
  BY <1>1, <1>5, <1>6 DEF IndInv, ConsumedInv, SeekInv, ReadBlock
<1> QED BY <1>4, <1>7, <1>8, <1>9, BlockIsNext DEF IndInv

LEMMA ReadNothingInd ==
  ASSUME IndInv, ReadNothing
  PROVE  IndInv'
<1>1. KeptInv' /\ WriterInv' /\ FullInv' /\ Owed' = Owed
  BY ReaderKeeps DEF ReadNothing, pointers
<1>2. r' \in [at : {"idle", "check", "holding"}, block : (-Step)..(2 * BufferSize + Margin)]
  BY DEF ReadNothing, Reader
<1>3. TypeOK'
  BY <1>2 DEF IndInv, TypeOK, ReadNothing, pointers
<1>4. ReaderInv'
  BY <1>1 DEF IndInv, ReaderInv, Available, ReadNothing, pointers
<1>5. BlockInv' /\ ConsumedInv' /\ SeekInv'
  BY DEF IndInv, BlockInv, ConsumedInv, SeekInv, ReadNothing, Reader, pointers
<1> QED BY <1>1, <1>3, <1>4, <1>5 DEF IndInv

(* What the positions reported are.                                         *)
LEMMA Positions ==
  ASSUME IndInv
  PROVE  /\ GetPosMin \in 0..(BufferSize - 1)
         /\ \A p \in 0..(BufferSize - 1) :
              /\ After(p) \in GetPosMin..(GetPosMin + BufferSize - 1)
              /\ After(p) = p \/ After(p) = p + BufferSize
         /\ GetPosMax - GetPosMin <= stored
         /\ GetPosMax - GetPosMin <= BufferSize - 2 * Gap
<1>1. m_WritePtr \in 0..(BufferSize - 1) /\ m_BufferFull \in BOOLEAN /\ stored \in 0..MaxBytes
  BY DEF IndInv, TypeOK
<1>2. /\ stored = m_WritePtr \/ BufferSize + m_WritePtr <= stored
      /\ ~m_BufferFull => m_WritePtr + 2 * Gap <= BufferSize
      /\ m_BufferFull => BufferSize < stored + 2 * Gap
  BY DEF IndInv, FullInv
<1>3. CASE m_BufferFull
  <2>1. GetPosMin = Wrapped(m_WritePtr + 2 * Gap)
    BY <1>3 DEF GetPosMin
  <2> QED BY <1>1, <1>2, <1>3, <2>1 DEF After, GetPosMax, Wrapped
<1>4. CASE ~m_BufferFull
  BY <1>1, <1>2, <1>4 DEF GetPosMin, After, GetPosMax
<1> QED BY <1>1, <1>3, <1>4

LEMMA SeekInd ==
  ASSUME IndInv, SeekBegin \/ SeekEnd
  PROVE  IndInv'
<1>1. UNCHANGED <<memory, m_WritePtr, m_ReadPtr, m_BufferFull, m_BytesConsumed, w, r, stored, due, lost>>
  BY DEF SeekBegin, SeekEnd, pointers
<1>2. KeptInv' /\ WriterInv' /\ FullInv' /\ Owed' = Owed
  BY <1>1, ReaderKeeps
<1>3. m_WritePtr \in 0..(BufferSize - 1) /\ m_ReadPtr \in (-Step)..(BufferSize - 1)
  BY DEF IndInv, TypeOK
<1>4. seek' \in SeekType
  <2>1. CASE SeekBegin
    <3> DEFINE min == IF GetPosMin > GetPosCur THEN GetPosCur ELSE GetPosMin
    <3>1. GetPosMin \in 0..(BufferSize - 1) /\ GetPosMax \in 0..(2 * BufferSize - 1)
      BY <1>3, Positions DEF GetPosMax
    <3>2. GetPosCur \in 0..(2 * BufferSize - 1)
      BY <1>3, <3>1 DEF GetPosCur, After
    <3>3. min \in 0..(2 * BufferSize - 1)
      BY <3>1, <3>2
    <3>4. seek' = [on |-> TRUE, cur |-> GetPosCur, min |-> min, max |-> GetPosMax, step |-> Step]
      BY <2>1, Zenon DEF SeekBegin
    <3> HIDE DEF min
    <3> QED BY <3>1, <3>2, <3>3, <3>4 DEF SeekType
  <2>2. CASE SeekEnd
    BY <2>2 DEF SeekEnd, NoSeek, SeekType
  <2> QED BY <2>1, <2>2
<1>5. TypeOK'
  BY <1>1, <1>4 DEF IndInv, TypeOK, SeekType
<1>6. ReaderInv'
  BY <1>1, <1>2 DEF IndInv, ReaderInv, Available
<1>7. BlockInv' /\ ConsumedInv'
  BY <1>1 DEF IndInv, BlockInv, ConsumedInv, Wrapped
<1>8. SeekInv'
  BY <1>3, Positions DEF SeekBegin, SeekEnd, SeekInv, NoSeek, GetPosMax
<1> QED BY <1>2, <1>5, <1>6, <1>7, <1>8 DEF IndInv

(* Wherever the reader is sent, it is lost or at a byte that is kept.       *)
LEMMA SetPosInd ==
  ASSUME IndInv, NEW pos \in (-Step)..(2 * BufferSize - 1), SetPos(pos), seek' \in SeekType, SeekInv'
  PROVE  IndInv'
<1> DEFINE place == Wrapped(pos)
           behind == GetPosMax - After(place)
<1>1. m_WritePtr \in 0..(BufferSize - 1) /\ stored \in 0..MaxBytes /\ w.left \in 0..Packet
  BY DEF IndInv, TypeOK
<1>2. KeptInv' /\ WriterInv' /\ FullInv' /\ Owed' = Owed
  BY ReaderKeeps DEF SetPos
<1>3. place \in (-Step)..(BufferSize - 1) /\ (pos < 0 <=> place < 0)
  BY DEF Wrapped
<1>4. /\ m_ReadPtr' = place /\ m_BytesConsumed' = 0 /\ r' = Reader("idle")
      /\ lost' = (pos < 0 \/ behind < 0) /\ due' = (IF pos < 0 \/ behind < 0 THEN 1 ELSE stored + 1 - behind)
      /\ UNCHANGED <<memory, m_WritePtr, m_BufferFull, w, stored>>
  BY DEF SetPos
<1>5. place >= 0 =>
        /\ GetPosMin \in 0..(BufferSize - 1)
        /\ After(place) \in GetPosMin..(GetPosMin + BufferSize - 1)
        /\ After(place) = place \/ After(place) = place + BufferSize
        /\ GetPosMax \in GetPosMin..(GetPosMin + BufferSize - 1)
        /\ GetPosMax = m_WritePtr \/ GetPosMax = m_WritePtr + BufferSize
        /\ GetPosMax - GetPosMin <= stored /\ GetPosMax - GetPosMin <= BufferSize - 2 * Gap
  BY <1>1, <1>3, Positions DEF GetPosMax
<1> HIDE DEF place
<1>6. place >= 0 => behind \in Int /\ behind <= stored /\ behind <= BufferSize - 2 * Gap
  BY <1>1, <1>3, <1>5
<1>7. place >= 0 /\ behind >= 0 => Available' = behind
  BY <1>1, <1>3, <1>4, <1>5 DEF Available
<1> HIDE DEF behind
<1>8. TypeOK'
  <2>1. r' \in [at : {"idle", "check", "holding"}, block : (-Step)..(2 * BufferSize + Margin)]
    BY <1>4 DEF Reader
  <2>2. due' \in 1..(MaxBytes + 1) /\ m_BytesConsumed' \in 0..(BufferSize + Step)
    BY <1>1, <1>3, <1>4, <1>6
  <2>3. lost' \in BOOLEAN
    BY <1>4, Zenon
  <2> QED BY <1>3, <1>4, <2>1, <2>2, <2>3 DEF IndInv, TypeOK, SeekType
<1>9. ReaderInv'
  <2>1. Owed \in 0..Packet
    BY <1>1 DEF Owed
  <2> SUFFICES ASSUME ~lost'
               PROVE  /\ m_ReadPtr' >= 0
                      /\ due' + Available' = stored + 1
                      /\ Available' + Gap + Owed < BufferSize + Packet
                      /\ m_BytesConsumed' <= Available'
    BY <1>2, <1>4 DEF ReaderInv
  <2>2. ~(pos < 0) /\ ~(behind < 0)
    BY <1>4, Zenon
  <2>3. place >= 0 /\ behind >= 0 /\ m_ReadPtr' = place /\ due' = stored + 1 - behind
    BY <1>3, <1>4, <1>6, <2>2
  <2> QED BY <1>1, <1>4, <1>6, <1>7, <2>1, <2>3
<1>10. BlockInv' /\ ConsumedInv'
  BY <1>4 DEF BlockInv, ConsumedInv, Reader
<1> QED BY <1>2, <1>8, <1>9, <1>10 DEF IndInv

(* The positions a seek sets.                                               *)
LEMMA SeekToInd ==
  ASSUME IndInv, NEW pos \in 0..(2 * BufferSize), SeekTo(pos)
  PROVE  IndInv'
<1>1. m_WritePtr \in 0..(BufferSize - 1) /\ m_ReadPtr \in (-Step)..(BufferSize - 1) /\ seek \in SeekType
  BY DEF IndInv, TypeOK, SeekType
<1>2. seek.cur \in 0..(2 * BufferSize - 1) /\ seek.min \in 0..(2 * BufferSize - 1) /\ seek.max <= 2 * BufferSize - 1
  BY <1>1 DEF SeekType
<1>3. GetPosCur \in 0..(2 * BufferSize - 1)
  BY <1>1, Positions DEF GetPosCur, After
<1>4. pos \in (-Step)..(2 * BufferSize - 1)
  <2>1. pos <= seek.max \/ pos = seek.min \/ pos = seek.cur \/ pos = GetPosCur
    BY <1>1 DEF SeekTo, SeekType
  <2> QED BY <1>1, <1>2, <1>3, <2>1 DEF SeekType
<1>5. SeekInv'
  BY DEF IndInv, SeekInv, SeekTo
<1> QED BY <1>1, <1>4, <1>5, SetPosInd DEF SeekTo

(* The steps back from the end: only the first may go below 0.              *)
LEMMA StepBackInd ==
  ASSUME IndInv, StepBack
  PROVE  IndInv'
<1>1. seek \in SeekType
  BY DEF IndInv, TypeOK, SeekType
<1> DEFINE pos == seek.max - seek.step
<1>2. pos \in (-Step)..(2 * BufferSize - 1) /\ 2 * seek.step \in Nat
  BY <1>1 DEF StepBack, SeekType, IndInv, SeekInv
<1>3. seek' = [seek EXCEPT !.max = pos, !.step = 2 * seek.step]
  BY DEF StepBack
<1> HIDE DEF pos
<1>4. seek' \in SeekType
  BY <1>1, <1>2, <1>3 DEF SeekType
<1>5. SetPos(pos)
  BY DEF StepBack, pos
<1>6. SeekInv'
  BY <1>1, <1>3 DEF StepBack, IndInv, SeekInv, SeekType
<1> QED BY <1>2, <1>4, <1>5, <1>6, SetPosInd

LEMMA StepInd ==
  ASSUME IndInv, [Next]_vars
  PROVE  IndInv'
<1>1. CASE UNCHANGED vars
  <2>1. UNCHANGED <<memory, m_WritePtr, m_ReadPtr, m_BufferFull, m_BytesConsumed, w, r, seek, stored, due, lost>>
    BY <1>1 DEF vars, pointers
  <2>2. KeptInv' /\ WriterInv' /\ FullInv' /\ Owed' = Owed
    BY <2>1, ReaderKeeps
  <2>3. TypeOK' /\ BlockInv' /\ ConsumedInv' /\ SeekInv'
    BY <2>1, BlockStays DEF IndInv, TypeOK
  <2>4. ReaderInv'
    BY <2>1, <2>2 DEF IndInv, ReaderInv, Available
  <2> QED BY <2>2, <2>3, <2>4 DEF IndInv
<1>2. CASE Next
  BY <1>2, ReceiveInd, CopyEndInd, WrapInd, CopyInd, PublishInd, ConsumeInd, ReadBlockInd, ReadNothingInd,
     SeekInd, SeekToInd, StepBackInd DEF Next, WriterNext, ReaderNext
<1> QED BY <1>1, <1>2

(* The inductive invariant holds of every behaviour of the time-shift       *)
(* buffer (cVideoBufferRAM).                                                *)
THEOREM Inductive == Spec => []IndInv
BY InitInd, StepInd, PTL DEF Spec

(* The pointers, counters and places of the time-shift buffer have their    *)
(* types: across every wrap and seek the writer stays within the buffer,    *)
(* and the reader, which SeekTime() may send before its beginning, is there *)
(* by no more than the first step back.                                     *)
THEOREM TypeCorrect == Spec => []TypeOK
<1>1. IndInv => TypeOK
  BY DEF IndInv
<1> QED BY <1>1, Inductive, PTL

(* What Receive() stored and ReadBlock() has not read is not overwritten.   *)
THEOREM Unread == Spec => []UnreadIsKept
<1>1. IndInv => UnreadIsKept
  <2> SUFFICES ASSUME IndInv, ~lost, NEW i \in 0..(Available - 1)
               PROVE  At(m_ReadPtr + i) = due + i
    BY DEF UnreadIsKept, IndInv, ReaderInv
  <2>1. /\ m_WritePtr \in 0..(BufferSize - 1) /\ m_ReadPtr \in (-Step)..(BufferSize - 1)
        /\ stored \in 0..MaxBytes /\ due \in 1..(MaxBytes + 1) /\ w.left \in 0..Packet
    BY DEF IndInv, TypeOK
  <2>2. /\ due + Available = stored + 1 /\ Available + Gap + Owed < BufferSize + Packet /\ Owed \in 0..Packet
        /\ m_ReadPtr >= 0
    BY <2>1 DEF IndInv, ReaderInv, Owed
  <2> DEFINE p == Wrapped(m_ReadPtr + i)
  <2>3. Available \in 0..BufferSize
    BY <2>1, <2>2 DEF Available
  <2>4. p \in 0..(BufferSize - 1) /\ Dist(p) = Available - i
    BY <2>1, <2>2 DEF Available, Wrapped, Dist
  <2> HIDE DEF p
  <2>5. Dist(p) <= stored /\ Dist(p) + Owed <= BufferSize
    BY <2>1, <2>2, <2>3, <2>4
  <2>6. memory[Margin + p] = stored + 1 - Dist(p)
    BY <2>4, <2>5 DEF IndInv, KeptInv
  <2> QED BY <2>1, <2>2, <2>3, <2>4, <2>6 DEF At, p
<1> QED BY <1>1, Inductive, PTL

(* Every position from GetPosMin() to GetPosMax() leads to the bytes that   *)
(* were stored last, in order.                                              *)
THEOREM Seekable == Spec => []SeekableIsIntact
<1>1. IndInv => SeekableIsIntact
  <2> SUFFICES ASSUME IndInv, NEW pos \in GetPosMin..(GetPosMax - 1)
               PROVE  At(pos) = stored + 1 - (GetPosMax - pos)
    BY DEF SeekableIsIntact
  <2>1. m_WritePtr \in 0..(BufferSize - 1) /\ stored \in 0..MaxBytes
    BY DEF IndInv, TypeOK
  <2>2. /\ GetPosMin \in 0..(BufferSize - 1)
        /\ GetPosMax \in GetPosMin..(GetPosMin + BufferSize - 1)
        /\ GetPosMax = m_WritePtr \/ GetPosMax = m_WritePtr + BufferSize
        /\ GetPosMax - GetPosMin <= stored /\ GetPosMax - GetPosMin <= BufferSize - 2 * Gap
    BY <2>1, Positions DEF GetPosMax
  <2> DEFINE p == Wrapped(pos)
  <2>3. p \in 0..(BufferSize - 1) /\ Dist(p) = GetPosMax - pos
    BY <2>1, <2>2 DEF Wrapped, Dist
  <2> HIDE DEF p
  <2>4. Owed \in 0..Packet
    BY OwedIsAPart
  <2>5. Dist(p) <= stored /\ Dist(p) + Owed <= BufferSize
    BY <2>1, <2>2, <2>3, <2>4
  <2>6. memory[Margin + p] = stored + 1 - Dist(p)
    BY <2>3, <2>5 DEF IndInv, KeptInv
  <2> QED BY <2>3, <2>6 DEF At, p
<1> QED BY <1>1, Inductive, PTL

(* Away from the end of the buffer ReadBlock() hands out the bytes that     *)
(* follow where the reader is, and goes on behind them, and the writer      *)
(* leaves them alone while they are in use; and from the beginning of a     *)
(* packet on every block is a packet, for every payload.                    *)
THEOREM BlocksAreNext == Spec => []BlocksFollow
<1>1. IndInv => BlocksFollow
  <2> SUFFICES ASSUME IndInv, r.at = "holding", ~lost
               PROVE  /\ r.block >= Margin => Intact(r.block)
                      /\ PacketStart(due) => m_BytesConsumed = Packet
    BY DEF BlocksFollow
  <2>1. PacketStart(due) => m_BytesConsumed = Packet
    BY DEF IndInv, BlockInv
  <2>2. SUFFICES ASSUME r.block >= Margin, NEW k \in 0..(Packet - 1)
                 PROVE  memory[r.block + k] = due + m_BytesConsumed - Packet + k
    BY <2>1 DEF Intact
  <2>3. /\ m_WritePtr \in 0..(BufferSize - 1) /\ m_ReadPtr \in (-Step)..(BufferSize - 1) /\ due \in 1..(MaxBytes + 1)
        /\ m_BytesConsumed \in 0..(BufferSize + Step) /\ Owed \in 0..Packet
    BY OwedIsAPart DEF IndInv, TypeOK
  <2>4. /\ Packet <= m_BytesConsumed /\ r.block + Packet <= BufferSize + Margin
        /\ r.block = Margin + Wrapped(m_ReadPtr + m_BytesConsumed - Packet)
    BY <2>2 DEF IndInv, BlockInv
  <2>5. /\ m_BytesConsumed <= Available /\ Available \in 0..BufferSize /\ m_ReadPtr >= 0
        /\ Available + Gap + Owed < BufferSize + Packet
    BY <2>3 DEF IndInv, ReaderInv, Available
  <2> DEFINE i == m_BytesConsumed - Packet + k
             p == Wrapped(m_ReadPtr + m_BytesConsumed - Packet) + k
  <2>6. /\ i \in Int /\ i >= 0 /\ i < Available /\ Available - i + Owed <= BufferSize
    BY <2>2, <2>3, <2>4, <2>5
  <2>7. p \in 0..(BufferSize - 1) /\ (p = m_ReadPtr + i \/ p = m_ReadPtr + i - BufferSize)
    BY <2>2, <2>3, <2>4, <2>5 DEF Wrapped
  <2>8. Margin + p = r.block + k /\ due + i = due + m_BytesConsumed - Packet + k
    BY <2>2, <2>3, <2>4 DEF Wrapped
  <2> HIDE DEF i, p
  <2>9. memory[Margin + p] = due + i
    BY <2>6, <2>7, ByteFrom
  <2> QED BY <2>8, <2>9
<1> QED BY <1>1, Inductive, PTL
=============================================================================
