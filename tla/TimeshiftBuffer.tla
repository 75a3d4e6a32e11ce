--------------------------- MODULE TimeshiftBuffer ---------------------------
(***************************************************************************)
(* The time-shift buffer in memory (cVideoBufferRAM): the receiver thread  *)
(* stores the packets of the live channel round and round, the client's    *)
(* thread reads them, and may be paused or seek, at its own pace.  Only    *)
(* the positions are guarded by m_Mutex; the data is copied and read       *)
(* outside it and is kept apart by a gap between the writer and the oldest *)
(* byte in use.                                                            *)
(*                                                                          *)
(* The bytes stored are numbered from 1, and 0 is a byte nobody wrote,      *)
(* which may have any value.  The first byte of a packet is a sync byte;    *)
(* one of its payload may look like one.  Of a seek the model has the       *)
(* positions it asks for once and the positions it then sets, not how       *)
(* SeekTime() chooses among them.                                           *)
(***************************************************************************)
EXTENDS Integers

CONSTANTS
  BufferSize,   \* m_BufferSize
  Packet,       \* TS_SIZE
  Gap,          \* MARGIN
  Step,         \* the first step back from the end in SeekTime(), 1024 bytes
  MaxBytes,     \* bound on the bytes stored
  SyncBytes     \* the bytes that are TS_SYNC_BYTE

PacketStart(byte) == (byte - 1) % Packet = 0

ASSUME SizeAssumption ==
  /\ BufferSize \in Nat /\ Packet \in Nat \ {0} /\ Gap \in Nat /\ MaxBytes \in Nat /\ Step \in Nat \ {0}
  /\ 3 * Packet <= Gap
  /\ 3 * Gap <= BufferSize
  /\ Step <= BufferSize

ASSUME SyncAssumption ==
  /\ SyncBytes \subseteq 1..MaxBytes
  /\ \A byte \in 1..MaxBytes : PacketStart(byte) => byte \in SyncBytes

VARIABLES
  memory,           \* m_Buffer; m_BufferPtr is Margin further on
  m_WritePtr,
  m_ReadPtr,
  m_BufferFull,
  m_BytesConsumed,
  w,                \* the writer: its place and the bytes of the packet it has left
  r,                \* the reader: its place and the block it was given
  seek,             \* the positions a seek in progress asked for and the next step back
  stored,           \* history: number of bytes stored
  due,              \* history: number of the byte the reader is to read next
  lost              \* history: the reader was sent to a position that is not kept

pointers == <<m_WritePtr, m_ReadPtr, m_BufferFull, m_BytesConsumed>>
vars == <<memory, pointers, w, r, seek, stored, due, lost>>

Margin == 2 * Packet

WriterIdle == [at |-> "idle", left |-> 0]
Reader(at) == [at |-> at, block |-> 0]
NoSeek == [on |-> FALSE, cur |-> 0, min |-> 0, max |-> 0, step |-> 0]

(* The type invariant: the writer stays within the buffer; the reader may   *)
(* be before its beginning, by no more than the first step back of a seek.  *)
TypeOK ==
  /\ memory \in [0..(BufferSize + Margin - 1) -> 0..MaxBytes]
  /\ m_WritePtr \in 0..(BufferSize - 1)
  /\ m_ReadPtr \in (-Step)..(BufferSize - 1)
  /\ m_BufferFull \in BOOLEAN
  /\ m_BytesConsumed \in 0..(BufferSize + Step)
  /\ w \in [at : {"idle", "end", "wrap", "copy", "publish"}, left : 0..Packet]
  /\ r \in [at : {"idle", "check", "holding"}, block : (-Step)..(2 * BufferSize + Margin)]
  /\ seek \in [on : BOOLEAN, cur : 0..(2 * BufferSize - 1), min : 0..(2 * BufferSize - 1),
              max : (-Step)..(2 * BufferSize - 1), step : Nat]
  /\ stored \in 0..MaxBytes
  /\ due \in 1..(MaxBytes + 1)
  /\ lost \in BOOLEAN

Init ==
  /\ memory = [i \in 0..(BufferSize + Margin - 1) |-> 0]
  /\ m_WritePtr = 0
  /\ m_ReadPtr = 0
  /\ m_BufferFull = FALSE
  /\ m_BytesConsumed = 0
  /\ w = WriterIdle
  /\ r = Reader("idle")
  /\ seek = NoSeek
  /\ stored = 0
  /\ due = 1
  /\ lost = FALSE

Available ==
  IF m_ReadPtr <= m_WritePtr THEN m_WritePtr - m_ReadPtr ELSE BufferSize - (m_ReadPtr - m_WritePtr)

Wrapped(pos) == IF pos >= BufferSize THEN pos - BufferSize ELSE pos

(* Mutant: the oldest position is the oldest byte that is not yet overwritten. *)
GetPosMinNoGap == IF m_BufferFull THEN Wrapped(m_WritePtr + 1) ELSE 0

GetPosMin == IF m_BufferFull THEN Wrapped(m_WritePtr + 2 * Gap) ELSE 0

(* A position before the oldest one is reported a buffer further on.        *)
After(pos) == IF pos < GetPosMin THEN pos + BufferSize ELSE pos

GetPosMax == After(m_WritePtr)

GetPosCur == After(m_ReadPtr)

-----------------------------------------------------------------------------
(* The receiver thread.                                                     *)

(* Mutant: the gap is not kept. *)
ReceiveNoGap ==
  /\ w.at = "idle"
  /\ stored + Packet <= MaxBytes
  /\ Available < BufferSize
  /\ w' = [at |-> IF BufferSize - m_WritePtr <= Packet THEN "end" ELSE "copy", left |-> Packet]
  /\ UNCHANGED <<memory, pointers, r, seek, stored, due, lost>>

(* A packet that would come too close to the reader is dropped, which       *)
(* changes nothing.                                                         *)
Receive ==
  /\ w.at = "idle"
  /\ stored + Packet <= MaxBytes
  /\ Available + Gap < BufferSize
  /\ w' = [at |-> IF BufferSize - m_WritePtr <= Packet THEN "end" ELSE "copy", left |-> Packet]
  /\ UNCHANGED <<memory, pointers, r, seek, stored, due, lost>>

(* memcpy(m_BufferPtr + m_WritePtr, buf, bytes)                             *)
Store(bytes) ==
  memory' = [i \in DOMAIN memory |->
    IF i - Margin - m_WritePtr \in 0..(bytes - 1) THEN stored + 1 + i - Margin - m_WritePtr ELSE memory[i]]

CopyEnd ==
  /\ w.at = "end"
  /\ Store(BufferSize - m_WritePtr)
  /\ w' = [at |-> "wrap", left |-> Packet - (BufferSize - m_WritePtr)]
  /\ UNCHANGED <<pointers, r, seek, stored, due, lost>>

Wrap ==
  /\ w.at = "wrap"
  /\ stored' = stored + BufferSize - m_WritePtr
  /\ m_WritePtr' = 0
  /\ w' = [w EXCEPT !.at = "copy"]
  /\ UNCHANGED <<memory, m_ReadPtr, m_BufferFull, m_BytesConsumed, r, seek, due, lost>>

Copy ==
  /\ w.at = "copy"
  /\ Store(w.left)
  /\ w' = [w EXCEPT !.at = "publish"]
  /\ UNCHANGED <<pointers, r, seek, stored, due, lost>>

Publish ==
  /\ w.at = "publish"
  /\ m_WritePtr' = m_WritePtr + w.left
  /\ stored' = stored + w.left
  /\ m_BufferFull' = (m_BufferFull \/ m_WritePtr' + 2 * Gap > BufferSize)
  /\ w' = WriterIdle
  /\ UNCHANGED <<memory, m_ReadPtr, m_BytesConsumed, r, seek, due, lost>>

-----------------------------------------------------------------------------
(* The client's thread.                                                     *)

(* The first part of ReadBlock() gives back what was read before.           *)
Consume ==
  /\ r.at \in {"idle", "holding"}
  /\ m_ReadPtr' = Wrapped(m_ReadPtr + m_BytesConsumed)
  /\ m_BytesConsumed' = 0
  /\ due' = IF lost THEN due ELSE due + m_BytesConsumed
  /\ r' = Reader("check")
  /\ UNCHANGED <<memory, m_WritePtr, m_BufferFull, w, seek, stored, lost>>

CloseToEnd == m_ReadPtr > BufferSize - Margin

(* memmove(m_Buffer + (m_Margin - bytes), m_Buffer + m_ReadPtr, bytes): the *)
(* source is counted from m_Buffer, not from m_BufferPtr where the data is. *)
CopyToFront(bytes) ==
  [i \in DOMAIN memory |->
     IF i \in (Margin - bytes)..(Margin - 1) THEN memory[m_ReadPtr + i - (Margin - bytes)] ELSE memory[i]]

(* What lies outside the memory is not known either.                        *)
Byte(mem, i) == IF i \in DOMAIN mem THEN mem[i] ELSE 0

(* Mutant: the first byte is skipped. *)
SyncAtLater(mem, base, bytes, sync) ==
  {k \in 1..(bytes - Packet) :
     /\ Byte(mem, base + k) \in sync
     /\ k < bytes - Packet => Byte(mem, base + k + Packet) \in sync}

(* Where a packet seems to begin: a sync byte is there and a packet later,  *)
(* unless too little is left.                                               *)
SyncAt(mem, base, bytes, sync) ==
  {k \in 0..(bytes - Packet) :
     /\ Byte(mem, base + k) \in sync
     /\ k < bytes - Packet => Byte(mem, base + k + Packet) \in sync}

(* The first place where a packet seems to begin is taken.  Bytes nobody    *)
(* wrote may be taken for sync bytes or not.                                *)
ReadBlock ==
  /\ r.at = "check"
  /\ Available >= Margin
  /\ LET bytes == BufferSize - m_ReadPtr
         mem   == IF CloseToEnd THEN CopyToFront(bytes) ELSE memory
         base  == IF CloseToEnd THEN Margin - bytes ELSE Margin + m_ReadPtr
         sure  == SyncAt(mem, base, Available, SyncBytes)
     IN /\ memory' = mem
        /\ \/ /\ sure = {}
              /\ m_BytesConsumed' = Available - Packet
              /\ r' = Reader("idle")
           \/ \E k \in SyncAt(mem, base, Available, SyncBytes \cup {0}) :
                /\ \A j \in sure : k <= j
                /\ m_BytesConsumed' = k + Packet
                /\ r' = [at |-> "holding", block |-> base + k]
  /\ UNCHANGED <<m_WritePtr, m_ReadPtr, m_BufferFull, w, seek, stored, due, lost>>

ReadNothing ==
  /\ r.at = "check"
  /\ Available < Margin
  /\ r' = Reader("idle")
  /\ UNCHANGED <<memory, pointers, w, seek, stored, due, lost>>

(* SeekTime() asks for the positions once, by GetPositions(), ...           *)
SeekBegin ==
  /\ r.at \in {"idle", "holding"} /\ ~seek.on
  /\ seek' = [on   |-> TRUE,
              cur  |-> GetPosCur,
              min  |-> IF GetPosMin > GetPosCur THEN GetPosCur ELSE GetPosMin,
              max  |-> GetPosMax,
              step |-> Step]
  /\ UNCHANGED <<memory, pointers, w, r, stored, due, lost>>

(* cVideoBufferRAM::SetPos(), which corrects a position beyond the end of   *)
(* the buffer and none before its beginning.                                *)
SetPos(pos) ==
  /\ m_ReadPtr' = Wrapped(pos)
  /\ m_BytesConsumed' = 0
  /\ r' = Reader("idle")
  /\ LET behind == GetPosMax - After(Wrapped(pos))
     IN /\ lost' = (pos < 0 \/ behind < 0)
        /\ due' = IF pos < 0 \/ behind < 0 THEN 1 ELSE stored + 1 - behind
  /\ UNCHANGED <<memory, m_WritePtr, m_BufferFull, w, stored>>

(* ... and reads, in GetTimeAtPos(), at the oldest of them, at the current  *)
(* one and at those between, before it settles, perhaps for where it has    *)
(* read to.                                                                 *)
SeekTo(pos) ==
  /\ r.at \in {"idle", "holding"} /\ seek.on
  /\ pos \in seek.min..seek.max \cup {seek.min, seek.cur, GetPosCur}
  /\ SetPos(pos)
  /\ UNCHANGED seek

(* The time at the end: it reads one step before the end, and as long as it *)
(* finds none and there is room, twice the step before that.                *)
StepBack ==
  /\ r.at \in {"idle", "holding"} /\ seek.on
  /\ seek.step = Step \/ seek.max >= seek.step
  /\ seek' = [seek EXCEPT !.max = @ - seek.step, !.step = 2 * @]
  /\ SetPos(seek.max - seek.step)

SeekEnd ==
  /\ r.at \in {"idle", "holding"} /\ seek.on
  /\ seek' = NoSeek
  /\ UNCHANGED <<memory, pointers, w, r, stored, due, lost>>

-----------------------------------------------------------------------------
WriterNext == Receive \/ CopyEnd \/ Wrap \/ Copy \/ Publish

ReaderNext ==
  \/ Consume \/ ReadBlock \/ ReadNothing
  \/ SeekBegin \/ StepBack \/ SeekEnd
  \/ \E pos \in 0..(2 * BufferSize) : SeekTo(pos)

Next == WriterNext \/ ReaderNext

Spec == Init /\ [][Next]_vars

-----------------------------------------------------------------------------
(* Properties.                                                              *)

At(pos) == memory[Margin + Wrapped(pos)]

(* What the reader has not read yet, the block it holds included, is kept:  *)
(* the writer stays behind it however long the reader is paused and         *)
(* wherever in the buffer it was sent, as long as that place was still kept *)
(* at that moment.                                                          *)
UnreadIsKept ==
  ~lost =>
    /\ due + Available = stored + 1
    /\ \A i \in 0..(Available - 1) : At(m_ReadPtr + i) = due + i

(* Every position from GetPosMin() to GetPosMax() can be read: the bytes    *)
(* from there on are the last ones stored, in their order, while the writer *)
(* is copying and across its wrap.                                          *)
SeekableIsIntact ==
  \A pos \in GetPosMin..(GetPosMax - 1) : At(pos) = stored + 1 - (GetPosMax - pos)

Intact(block) == \A k \in 0..(Packet - 1) : memory[block + k] = due + m_BytesConsumed - Packet + k

(* A block has the bytes the reader has come to, in their order, and stays  *)
(* as it is while it is in use; and once the reader is at the beginning of  *)
(* a packet it takes one packet after the other, whatever in the payload    *)
(* looks like a sync byte.  (After a seek it may begin with a block of      *)
(* payload between two bytes that look like sync bytes.)  A block in the    *)
(* margin, that is one from the end of the buffer, need not have the right  *)
(* bytes.                                                                   *)
BlocksFollow ==
  r.at = "holding" /\ ~lost =>
    /\ r.block >= Margin => Intact(r.block)
    /\ PacketStart(due) => m_BytesConsumed = Packet

(* "if we are close to end, copy margin to front": the blocks at the end of *)
(* the buffer are the next packets as well.                                 *)
EndIsCopiedToFront == r.at = "holding" /\ ~lost => Intact(r.block)
=============================================================================
