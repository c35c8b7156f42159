-------------------------------- MODULE IOBuffer --------------------------------
(***************************************************************************)
(* IOBuffer of jni/xutil/xutil.cpp, cell by cell: the memory behind        *)
(* buffer, and the three uint32_t that say what part of it is in use.      *)
(* AudioEncoder fills it and empties it under its m_mutex, so that calls   *)
(* do not overlap.  A byte is the number of its writing; Junk is memory    *)
(* that was never written.                                                 *)
(*                                                                         *)
(* Every read_from_* ends in read_from_buffer or does the same, and every  *)
(* way of taking bytes (ignore_all, write_to_stdio) is an ignore of those  *)
(* taken.  A new[] of more than MaxAlloc cells throws what nobody catches. *)
(*                                                                         *)
(* What is to be read is a length that came as an int from                 *)
(* AudioRecord.read, a negative error code for one, and became a uint32_t  *)
(* unexamined.                                                             *)
(***************************************************************************)
EXTENDS Integers, Sequences

CONSTANTS
    MinChunk,    \* min_chunk_size
    MaxChunk,    \* bound on the bytes of one write
    MaxError,    \* bound on the error codes, which are negative
    MaxAlloc,    \* the cells a new[] can give
    U32,         \* the modulus of uint32_t
    MaxBytes     \* bound on the bytes written

ASSUME BufferAssumption ==
    /\ {MinChunk, MaxChunk, MaxError, MaxAlloc, U32, MaxBytes} \subseteq Nat
    /\ 2 * MaxAlloc + MaxChunk + MaxError + MinChunk < U32

VARIABLES
    b,          \* the object: buffer, size, published, consumed
    bad_copy,   \* a memcpy left the buffer or copied between overlapping ranges
    next,       \* history: the number of the next byte to be written
    misread     \* history: an error code was given for a length

bufferVars == <<b, bad_copy, next, misread>>

Junk == 0
Available == b.published - b.consumed

(* The conversion of an int to uint32_t. *)
Uint32(len) == IF len < 0 THEN U32 + len ELSE len

(* uint32_t addition. *)
Add32(x, y) == IF x + y < U32 THEN x + y ELSE x + y - U32
-----------------------------------------------------------------------------
\* Mutant: the bytes are moved whenever some were consumed.
MovesToFrontEagerly(o) == o.consumed > 0

(* The test of move_data, which keeps memcpy's two ranges apart. *)
MovesToFront(o) == o.published - o.consumed <= o.consumed

MoveData(o) ==
    IF MovesToFront(o)
    THEN LET n == o.published - o.consumed
         IN  [o EXCEPT !.buffer = [i \in DOMAIN o.buffer |->
                          IF i < n THEN o.buffer[o.consumed + i] ELSE o.buffer[i]],
                       !.published = n,
                       !.consumed = 0]
    ELSE o

(* memcpy is given overlapping ranges. *)
MoveOverlaps(o) == MovesToFront(o) /\ o.published - o.consumed > o.consumed

(* How much room ensure_size makes after published: what is expected, or   *)
(* a third of the size more, and no less than min_chunk_size.              *)
Growth(o, expected) ==
    LET third == IF Add32(o.published, expected) - o.size < o.size \div 3
                 THEN o.size + o.size \div 3 - o.published ELSE expected
    IN  IF third < MinChunk THEN MinChunk ELSE third

\* Mutant: as many bytes are copied as are available, from the start.
GrownByAvailable(o, expected) ==
    LET size == Add32(o.published, Growth(o, expected))
    IN  [o EXCEPT !.buffer = [i \in 0..(size - 1) |->
                                 IF i < o.published - o.consumed THEN o.buffer[i] ELSE Junk],
                  !.size = size]

(* A new buffer into which the published bytes are copied, the consumed    *)
(* ones with them.                                                         *)
Grown(o, expected) ==
    LET size == Add32(o.published, Growth(o, expected))
    IN  [o EXCEPT !.buffer = [i \in 0..(size - 1) |->
                                 IF i < o.published THEN o.buffer[i] ELSE Junk],
                  !.size = size]

Fits(o, expected) == Add32(o.published, expected) <= o.size

EnsureSize(o, expected) ==
    IF Fits(o, expected) THEN o
    ELSE IF Fits(MoveData(o), expected) THEN MoveData(o)
    ELSE Grown(MoveData(o), expected)

EnsureFaults(o, expected) ==
    /\ ~Fits(o, expected)
    /\ \/ MoveOverlaps(o)
       \/ /\ ~Fits(MoveData(o), expected)
          /\ Grown(MoveData(o), expected).size < MoveData(o).published
-----------------------------------------------------------------------------
BufferInit ==
    /\ b = [buffer |-> <<>>, size |-> 0, published |-> 0, consumed |-> 0]
    /\ bad_copy = FALSE
    /\ next = 1
    /\ misread = FALSE

(* initialize, of an object that was not used yet. *)
Initialize(expected) ==
    /\ b.size = 0 /\ b.published = 0 /\ b.consumed = 0
    /\ EnsureSize(b, expected).size <= MaxAlloc
    /\ b' = EnsureSize(b, expected)
    /\ bad_copy' = (bad_copy \/ EnsureFaults(b, expected))
    /\ UNCHANGED <<next, misread>>

(* A memcpy of n bytes to o.buffer + o.published leaves the buffer. *)
Overruns(o, n) == o.published + n > o.size

(* read_from_buffer(buffer_, len): ensure_size(n), then a memcpy of n      *)
(* bytes to buffer + published.                                            *)
ReadFromBuffer(len) ==
    LET n == Uint32(len)
        o == EnsureSize(b, n)
        bad == EnsureFaults(b, n) \/ Overruns(o, n)
    IN  /\ next + len <= MaxBytes + 1
        /\ o.size <= MaxAlloc
        /\ bad_copy' = bad
        /\ misread' = (len < 0)
        /\ \/ bad /\ UNCHANGED <<b, next>>
           \/ /\ ~bad
              /\ b' = [o EXCEPT !.buffer = [i \in DOMAIN o.buffer |->
                                   IF i \in o.published..(o.published + n - 1)
                                   THEN next + i - o.published ELSE o.buffer[i]],
                                !.published = Add32(o.published, n)]
              /\ next' = next + n

(* recycle *)
Recycled(o) ==
    IF o.consumed = o.published THEN [o EXCEPT !.consumed = 0, !.published = 0] ELSE o

(* ignore(n), of bytes that are there: AudioEncoder tests it before. *)
Ignore(n) ==
    /\ n <= Available
    /\ b' = Recycled([b EXCEPT !.consumed = @ + n])
    /\ UNCHANGED <<bad_copy, next, misread>>

(* What a bad_copy left of the process is not followed. *)
BufferNext ==
    /\ ~bad_copy
    /\ \/ \E n \in 0..MaxChunk : Initialize(n)
       \/ \E len \in (-MaxError)..MaxChunk : ReadFromBuffer(len)
       \/ \E n \in 0..Available : Ignore(n)

BufferSpec == BufferInit /\ [][BufferNext]_bufferVars
-----------------------------------------------------------------------------
Memory == UNION {[0..(size - 1) -> Nat] : size \in 0..MaxAlloc}

(* An object is a window of its memory. *)
IsBuffer(o) ==
    /\ o \in [buffer : Memory, size : 0..MaxAlloc, published : Nat, consumed : Nat]
    /\ o.buffer \in [0..(o.size - 1) -> Nat]
    /\ o.published <= o.size /\ o.consumed <= o.published

BufferTypeOK ==
    /\ IsBuffer(b)
    /\ {bad_copy, misread} \subseteq BOOLEAN
    /\ next \in 1..(MaxBytes + 1)

(* However reads and writes alternate, no memcpy leaves the buffer and the *)
(* one of move_data is never given overlapping ranges, until an error code *)
(* of AudioRecord.read is taken for a length.  That, unless new[] throws,  *)
(* does leave it: published + expected wraps and ensure_size is content    *)
(* with the room there is.                                                 *)
FaultExactlyByMisread == bad_copy <=> misread

(* The bytes not yet taken are the latest ones written, in order. *)
Contents ==
    /\ Available < next
    /\ \A i \in 0..(Available - 1) : b.buffer[b.consumed + i] = next - Available + i

BufferInv == BufferTypeOK /\ FaultExactlyByMisread /\ Contents

(* The window of memory is a queue of bytes: what GETIBPOINTER points to   *)
(* is what was written first and not yet taken.                            *)
Queue == INSTANCE ByteQueue WITH
    queue <- [i \in 1..Available |-> b.buffer[b.consumed + i - 1]]

ImplementsByteQueue == Queue!Spec
=============================================================================
