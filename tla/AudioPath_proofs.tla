---------------------------- MODULE AudioPath_proofs ----------------------------
(***************************************************************************)
(* Proofs about the path of the recorder's sound: AudioEncoder, for any    *)
(* frame size, any sizes of the recorder's deliveries, any frame length    *)
(* and any sample rate, and then the IOBuffer it keeps the samples in, for *)
(* any chunk sizes that leave the uint32_t sums room, and for the error    *)
(* codes that come as lengths and make them wrap.  The two share no        *)
(* variable: AudioEncoder counts the samples that are available.  *)
(*                                                                         *)
(* IInv adds to the invariants of AudioEncoder who holds m_mutex at which  *)
(* control point, how far the object is taken apart at each step of the    *)
(* destructor, and the sum that the Frac accumulates.  BufferInv says      *)
(* where the bytes not yet taken are; ensure_size keeps it however it      *)
(* makes room.                                                             *)
(***************************************************************************)
EXTENDS AudioEncoder, IOBuffer, SequenceTheorems, TLAPS

(* TypeOK, with the Booleans one by one. *)
Types ==
    /\ available \in Nat
    /\ quit \in BOOLEAN
    /\ holder \in {"none", "encoder", "recorder"}
    /\ m_pts \in [val : Nat, num : 0..(Samplerate - 1)]
    /\ object \in {"alive", "deleted", "cleared"}
    /\ listening \in BOOLEAN
    /\ pc \in {"test", "lock", "check", "sleep", "wait", "encode", "send", "ended"}
    /\ rec \in {"idle", "read", "feed", "feeding"}
    /\ closer \in {"open", "quit", "signal", "join", "delete", "clear", "closed"}
    /\ feeds \in 0..MaxFeeds
    /\ sent \in Seq(Nat)
    /\ fault \in BOOLEAN /\ lost \in BOOLEAN /\ overlap \in BOOLEAN /\ misfed \in BOOLEAN

(* m_mutex is held at three control points only. *)
Mutex ==
    /\ holder = "encoder" <=> pc \in {"check", "sleep"}
    /\ holder = "recorder" <=> rec = "feeding"

(* How far the destructor has come. *)
Closing ==
    /\ listening <=> closer = "open"
    /\ quit <=> closer \notin {"open", "quit"}
    /\ object = "alive" <=> closer \notin {"clear", "closed"}
    /\ closer \in {"delete", "clear", "closed"} => pc = "ended"

(* Without a callback in progress when the listener is removed there is    *)
(* none afterwards, and only afterwards, or of an error code, can there be *)
(* a fault.                                                                *)
Overlapping ==
    /\ closer # "open" /\ ~overlap => rec = "idle"
    /\ fault => misfed \/ (closer # "open" /\ overlap)

(* A callback in progress is one of the bounded number of feeds. *)
Feeding == rec # "idle" => feeds < MaxFeeds

(* The thread goes to sleep, and sleeps, on less than a frame; it goes on  *)
(* sleeping beside a destructor that waits for it when the signal was lost. *)
Sleeping ==
    /\ pc \in {"sleep", "wait"} => available < InputSize
    /\ closer = "join" /\ pc \in {"sleep", "wait"} => lost

(* The accumulated timestamp and its remainder make up the duration of the *)
(* packets sent.                                                           *)
Accumulated ==
    m_pts.val * Samplerate + m_pts.num = Len(sent) * PtsIncr + Samplerate \div 2

IInv == /\ Types /\ Mutex /\ Closing /\ Overlapping /\ Feeding /\ Sleeping
        /\ Accumulated /\ PtsExact
-----------------------------------------------------------------------------
(* Division by a positive integer leaves a remainder smaller than it. *)
LEMMA DivMod ==
    ASSUME NEW z \in Nat, NEW d \in Nat \ {0}
    PROVE  /\ z \div d \in Nat
           /\ z % d \in 0..(d - 1)
           /\ z = (z \div d) * d + (z % d)
  OBVIOUS

(* A quotient and a small enough rest determine the number divided. *)
LEMMA DivUnique ==
    ASSUME NEW d \in Nat \ {0}, NEW v \in Nat, NEW n \in 0..(d - 1)
    PROVE  (v * d + n) \div d = v
<1> DEFINE x == v * d + n
           q == x \div d
           r == x % d
<1>1. x \in Nat
  OBVIOUS
<1>2. q \in Nat /\ r \in 0..(d - 1) /\ x = q * d + r
  BY <1>1, DivMod
<1> HIDE DEF q, r
<1>3. CASE v < q
  <2>1. v + 1 <= q /\ (v + 1) * d <= q * d
    BY <1>2, <1>3
  <2> QED
    BY <1>2, <2>1
<1>4. CASE v > q
  <2>1. q + 1 <= v /\ (q + 1) * d <= v * d
    BY <1>2, <1>4
  <2> QED
    BY <1>2, <2>1
<1>5. q = v
  BY <1>2, <1>3, <1>4
<1> QED
  BY <1>5 DEF q

(* frac_add keeps the remainder below the denominator and loses nothing. *)
LEMMA FracAddExact ==
    ASSUME NEW f \in [val : Nat, num : 0..(Samplerate - 1)]
    PROVE  /\ FracAdd(f, PtsIncr) \in [val : Nat, num : 0..(Samplerate - 1)]
           /\ FracAdd(f, PtsIncr).val * Samplerate + FracAdd(f, PtsIncr).num
                  = f.val * Samplerate + f.num + PtsIncr
<1> DEFINE z == f.num + PtsIncr
           q == z \div Samplerate
           r == z % Samplerate
<1>1. f.val \in Nat /\ f.num \in 0..(Samplerate - 1) /\ z \in Nat
  BY PtsAssumption
<1>2. q \in Nat /\ r \in 0..(Samplerate - 1) /\ z = q * Samplerate + r
  BY <1>1, PtsAssumption, DivMod
<1>3. FracAdd(f, PtsIncr) = [val |-> f.val + q, num |-> r]
  BY DEF FracAdd
<1>4. f.num + PtsIncr = q * Samplerate + r
  BY <1>2
<1> HIDE DEF z, q, r
<1>5. (f.val + q) * Samplerate = f.val * Samplerate + q * Samplerate
  BY <1>1, <1>2, PtsAssumption
<1>6. (f.val + q) * Samplerate + r = f.val * Samplerate + f.num + PtsIncr
  BY <1>1, <1>2, <1>4, <1>5, PtsAssumption
<1> QED
  BY <1>1, <1>2, <1>3, <1>6
-----------------------------------------------------------------------------
(* The encoder starts with a free mutex, no listener removed and 0 sent. *)
LEMMA InitIInv == Init => IInv
<1> SUFFICES ASSUME Init
             PROVE  IInv
  OBVIOUS
<1> USE DEF Init
<1>1. Samplerate \div 2 \in 0..(Samplerate - 1)
  BY PtsAssumption
<1>2. m_pts = [val |-> 0, num |-> Samplerate \div 2]
  BY <1>1, PtsAssumption DEF FracInit
<1>3. Types
  <2>1. m_pts \in [val : Nat, num : 0..(Samplerate - 1)]
    BY <1>1, <1>2
  <2>2. feeds \in 0..MaxFeeds /\ available \in Nat
    BY FeedsAssumption
  <2>3. sent \in Seq(Nat)
    OBVIOUS
  <2>4. quit \in BOOLEAN /\ listening \in BOOLEAN /\ fault \in BOOLEAN
    OBVIOUS
  <2>5. lost \in BOOLEAN /\ overlap \in BOOLEAN /\ misfed \in BOOLEAN
    OBVIOUS
  <2> QED
    BY <2>1, <2>2, <2>3, <2>4, <2>5 DEF Types
<1>4. Mutex /\ Closing /\ Overlapping /\ Feeding /\ Sleeping
  BY DEF Mutex, Closing, Overlapping, Feeding, Sleeping
<1>5. Len(sent) = 0
  OBVIOUS
<1>6. Accumulated
  BY <1>1, <1>2, <1>5, PtsAssumption DEF Accumulated
<1>7. PtsExact
  BY <1>5 DEF PtsExact
<1> QED
  BY <1>3, <1>4, <1>6, <1>7 DEF IInv

(* What every step does to the control: the parts of IInv that do not      *)
(* speak of timestamps.                                                    *)
LEMMA NextControl ==
    ASSUME IInv, Next
    PROVE  (Types /\ Mutex /\ Closing /\ Overlapping /\ Feeding /\ Sleeping)'
<1> DEFINE Control == Types /\ Mutex /\ Closing /\ Overlapping /\ Feeding /\ Sleeping
<1> USE DEF IInv, Types, Mutex, Closing, Overlapping, Feeding, Sleeping,
            encoding, control, history
<1>1. CASE Test
  BY <1>1 DEF Test
<1>2. CASE Lock
  BY <1>2 DEF Lock
<1>3. CASE CheckSleep
  BY <1>3 DEF CheckSleep
<1>4. CASE CheckQuit
  BY <1>4 DEF CheckQuit
<1>5. CASE Take
  BY <1>5, SizesAssumption DEF Take
<1>6. CASE Sleep
  BY <1>6 DEF Sleep
<1>7. CASE Encode
  BY <1>7 DEF Encode
<1>8. CASE SendAudio
  <2>1. m_pts' \in [val : Nat, num : 0..(Samplerate - 1)]
    BY <1>8, FracAddExact DEF SendAudio
  <2>2. sent' \in Seq(Nat)
    BY <1>8 DEF SendAudio
  <2> QED
    BY <1>8, <2>1, <2>2 DEF SendAudio
<1>9. CASE SpuriousWakeup
  BY <1>9 DEF SpuriousWakeup
<1>10. CASE Callback
  BY <1>10 DEF Callback
<1>11. CASE SendRawAudio
  <2>1. fault' \in BOOLEAN /\ (fault' <=> object = "deleted")
    BY <1>11, Zenon DEF SendRawAudio
  <2>2. CASE object # "cleared" /\ ~quit
    BY <1>11, <2>1, <2>2 DEF SendRawAudio
  <2>3. CASE ~(object # "cleared" /\ ~quit)
    BY <1>11, <2>1, <2>3 DEF SendRawAudio
  <2> QED
    BY <2>2, <2>3
<1>12. CASE FeedLock
  <2>1. CASE object # "alive"
    BY <1>12, <2>1 DEF FeedLock
  <2>2. CASE object = "alive"
    BY <1>12, <2>2 DEF FeedLock
  <2> QED
    BY <2>1, <2>2
<1>13. ASSUME NEW len \in FeedSizes \cup {ERROR}, FeedBuffer(len)
       PROVE  Control'
  <2>1. len \in Int
    BY SizesAssumption DEF ERROR
  <2>2. CASE /\ object # "alive" \/ len < 0
             /\ fault' = TRUE
             /\ misfed' = (object = "alive")
             /\ UNCHANGED <<available, holder, pc, rec, feeds>>
    <3>1. misfed' \in BOOLEAN /\ (misfed' <=> object = "alive")
      BY <2>2, Zenon
    <3>2. UNCHANGED <<quit, m_pts, object, listening, closer, sent, lost, overlap>>
      BY <1>13 DEF FeedBuffer
    <3> QED
      BY <1>13, <2>2, <3>1, <3>2 DEF FeedBuffer
  <2>3. CASE /\ object = "alive" /\ len >= 0
             /\ available' = available + len
             /\ pc' = IF pc = "wait" THEN "lock" ELSE pc
             /\ holder' = "none"
             /\ rec' = "idle"
             /\ feeds' = feeds + 1
             /\ UNCHANGED <<fault, misfed>>
    <3>1. UNCHANGED <<quit, m_pts, object, listening, closer, sent, lost, overlap>>
          /\ rec = "feeding"
      BY <1>13 DEF FeedBuffer
    <3> QED
      BY <2>1, <2>3, <3>1, FeedsAssumption
  <2> QED
    BY <1>13, <2>2, <2>3 DEF FeedBuffer
<1>14. CASE StopRecorder
  BY <1>14 DEF StopRecorder
<1>15. CASE SetQuit
  BY <1>15 DEF SetQuit
<1>16. CASE Signal
  BY <1>16 DEF Signal
<1>17. CASE Join
  BY <1>17 DEF Join
<1>18. CASE Delete
  BY <1>18 DEF Delete
<1>19. CASE Clear
  BY <1>19 DEF Clear
<1> QED
  BY <1>1, <1>2, <1>3, <1>4, <1>5, <1>6, <1>7, <1>8, <1>9, <1>10, <1>11, <1>12,
     <1>13, <1>14, <1>15, <1>16, <1>17, <1>18, <1>19
  DEF Next, EncodeThread, Recorder, Destructor

(* Only SendAudio touches the timestamps; the one it sends is the exact    *)
(* quotient of the sum accumulated before it.                              *)
LEMMA NextTimestamps ==
    ASSUME IInv, Next
    PROVE  (Accumulated /\ PtsExact)'
<1> USE DEF IInv
<1>1. CASE SendAudio
  <2> DEFINE n == Len(sent)
  <2>1. /\ sent' = Append(sent, m_pts.val)
        /\ m_pts' = FracAdd(m_pts, PtsIncr)
        /\ sent \in Seq(Nat)
        /\ m_pts \in [val : Nat, num : 0..(Samplerate - 1)]
    BY <1>1 DEF SendAudio, Types
  <2>2. /\ n \in Nat /\ Len(sent') = n + 1
        /\ DOMAIN sent' = 1..(n + 1)
        /\ \A k \in 1..n : sent'[k] = sent[k]
        /\ sent'[n + 1] = m_pts.val
    BY <2>1
  <2>3. n * PtsIncr \in Nat /\ (n + 1) * PtsIncr = n * PtsIncr + PtsIncr
    BY <2>2, PtsAssumption
  <2>4. m_pts.val * Samplerate + m_pts.num = n * PtsIncr + Samplerate \div 2
    BY DEF Accumulated
  <2>5. Accumulated'
    <3>1. m_pts'.val * Samplerate + m_pts'.num
              = m_pts.val * Samplerate + m_pts.num + PtsIncr
      BY <2>1, FracAddExact
    <3>2. m_pts'.val * Samplerate + m_pts'.num
              = (n + 1) * PtsIncr + Samplerate \div 2
      BY <2>3, <2>4, <3>1, PtsAssumption
    <3> QED
      BY <2>2, <3>2 DEF Accumulated
  <2>6. m_pts.val = (n * PtsIncr + Samplerate \div 2) \div Samplerate
    BY <2>1, <2>4, PtsAssumption, DivUnique
  <2>7. ASSUME NEW k \in DOMAIN sent'
        PROVE  sent'[k] = ((k - 1) * PtsIncr + Samplerate \div 2) \div Samplerate
    <3>1. CASE k \in 1..n
      BY <2>1, <2>2, <3>1 DEF PtsExact
    <3>2. CASE k = n + 1
      <4>1. k - 1 = n
        BY <2>2, <3>2
      <4> QED
        BY <2>2, <2>6, <3>2, <4>1
    <3> QED
      BY <2>2, <3>1, <3>2
  <2> QED
    BY <2>5, <2>7 DEF PtsExact
<1>2. CASE ~SendAudio
  <2>1. UNCHANGED <<m_pts, sent>>
    BY <1>2 DEF Next, EncodeThread, Recorder, Destructor, encoding, history,
       Test, Lock, CheckSleep, CheckQuit, Take, Sleep, Encode, SpuriousWakeup,
       Callback, SendRawAudio, FeedLock, FeedBuffer, StopRecorder, SetQuit,
       Signal, Join, Delete, Clear
  <2> QED
    BY <2>1 DEF Accumulated, PtsExact
<1> QED
  BY <1>1, <1>2

(* IInv is kept by every step. *)
LEMMA NextIInv == IInv /\ [Next]_vars => IInv'
<1>1. ASSUME IInv, Next
      PROVE  IInv'
  BY <1>1, NextControl, NextTimestamps DEF IInv
<1>2. ASSUME IInv, UNCHANGED vars
      PROVE  IInv'
  BY <1>2 DEF vars, IInv, Types, Mutex, Closing, Overlapping, Feeding, Sleeping,
     Accumulated, PtsExact
<1> QED
  BY <1>1, <1>2

(* IInv is an invariant of the encoder. *)
THEOREM Invariance == Spec => []IInv
  BY InitIInv, NextIInv, PTL DEF Spec

(* Every variable keeps its type, m_pts a proper fraction included. *)
THEOREM TypeCorrect == Spec => []TypeOK
<1>1. IInv => TypeOK
  BY DEF IInv, Types, TypeOK
<1> QED
  BY <1>1, Invariance, PTL

(* feed wakes the encode thread for every whole frame: it sleeps on less. *)
THEOREM NoSleepOnInputHolds == Spec => []NoSleepOnInput
<1>1. IInv => NoSleepOnInput
  BY DEF IInv, Sleeping, NoSleepOnInput
<1> QED
  BY <1>1, Invariance, PTL

(* The destructor waits for a sleeping thread only when its signal, sent   *)
(* without the mutex, was lost.                                            *)
THEOREM StuckOnlyBySignalLostHolds == Spec => []StuckOnlyBySignalLost
<1>1. IInv => StuckOnlyBySignalLost
  BY DEF IInv, Sleeping, StuckOnlyBySignalLost
<1> QED
  BY <1>1, Invariance, PTL

(* Only a callback in progress when the listener was removed can use a     *)
(* deleted encoder, and nothing else but a failed read ends the process.   *)
THEOREM FaultOnlyAfterOverlapHolds == Spec => []FaultOnlyAfterOverlap
<1>1. IInv => FaultOnlyAfterOverlap
  BY DEF IInv, Overlapping, FaultOnlyAfterOverlap
<1> QED
  BY <1>1, Invariance, PTL

(* The timestamps given to send_audio never drift from the exact duration, *)
(* whatever the frame length and the sample rate.                          *)
THEOREM PtsExactHolds == Spec => []PtsExact
<1>1. IInv => PtsExact
  BY DEF IInv
<1> QED
  BY <1>1, Invariance, PTL
-----------------------------------------------------------------------------
(* o and r hold the same bytes, wherever they are. *)
SameBytes(o, r) ==
    /\ r.published - r.consumed = o.published - o.consumed
    /\ \A i \in 0..(o.published - o.consumed - 1) :
          r.buffer[r.consumed + i] = o.buffer[o.consumed + i]

(* BufferAssumption, one constant at a time. *)
LEMMA Sizes ==
    /\ MinChunk \in Nat /\ MaxChunk \in Nat /\ MaxAlloc \in Nat /\ U32 \in Nat
    /\ MaxBytes \in Nat /\ MaxError \in Nat
    /\ 2 * MaxAlloc + MaxChunk + MaxError + MinChunk < U32
BY BufferAssumption

LEMMA MemoryType ==
    ASSUME NEW size \in 0..MaxAlloc, NEW f \in [0..(size - 1) -> Nat]
    PROVE  f \in Memory
BY DEF Memory

LEMMA BufferType ==
    ASSUME NEW o, IsBuffer(o)
    PROVE  /\ o = [buffer |-> o.buffer, size |-> o.size, published |-> o.published,
                   consumed |-> o.consumed]
           /\ o.size \in Nat /\ o.size <= MaxAlloc
           /\ o.buffer \in [0..(o.size - 1) -> Nat]
           /\ o.published \in Nat /\ o.published <= o.size
           /\ o.consumed \in Nat /\ o.consumed <= o.published
BY Sizes DEF IsBuffer

(* move_data keeps the bytes, and its memcpy is never given overlapping    *)
(* ranges.                                                                 *)
LEMMA MoveDataKeeps ==
    ASSUME NEW o, IsBuffer(o)
    PROVE  /\ IsBuffer(MoveData(o)) /\ SameBytes(o, MoveData(o))
           /\ MoveData(o).size = o.size
           /\ MoveData(o).published <= o.published
           /\ ~MoveOverlaps(o)
<1>1. CASE MovesToFront(o)
  <2> DEFINE n == o.published - o.consumed
             f == [i \in DOMAIN o.buffer |->
                     IF i < n THEN o.buffer[o.consumed + i] ELSE o.buffer[i]]
  <2>1. n \in 0..o.size /\ \A i \in 0..(n - 1) : o.consumed + i \in 0..(o.size - 1)
    BY Sizes DEF IsBuffer
  <2>2. f \in [0..(o.size - 1) -> Nat] /\ \A i \in 0..(n - 1) : f[i] = o.buffer[o.consumed + i]
    BY SMTT(30), <2>1, Sizes DEF IsBuffer
  <2>3. MoveData(o) = [buffer |-> f, size |-> o.size, published |-> n, consumed |-> 0]
    BY <1>1 DEF MoveData, IsBuffer
  <2> HIDE DEF f
  <2>4. o.size \in 0..MaxAlloc /\ o.published \in 0..o.size /\ o.consumed \in 0..o.published
    BY Sizes DEF IsBuffer
  <2>5. f \in Memory
    BY <2>2, <2>4, MemoryType
  <2>6. IsBuffer(MoveData(o))
    BY <2>1, <2>2, <2>3, <2>4, <2>5, Sizes DEF IsBuffer
  <2>7. SameBytes(o, MoveData(o))
    BY <2>1, <2>2, <2>3, <2>4 DEF SameBytes
  <2>8. QED
    BY <2>3, <2>4, <2>6, <2>7 DEF MoveOverlaps, MovesToFront
<1>2. CASE ~MovesToFront(o)
  BY <1>2 DEF MoveData, SameBytes, IsBuffer, MoveOverlaps
<1>3. QED
  BY <1>1, <1>2

(* The new buffer is large enough, and no sum on the way to its size wraps. *)
LEMMA GrownSize ==
    ASSUME NEW o, IsBuffer(o), NEW expected \in 0..MaxChunk
    PROVE  /\ Growth(o, expected) \in Nat
           /\ Growth(o, expected) >= expected
           /\ Add32(o.published, Growth(o, expected)) = o.published + Growth(o, expected)
<1>1. o.size \in Nat /\ o.size <= MaxAlloc /\ o.published \in Nat /\ o.published <= o.size
  BY Sizes DEF IsBuffer
<1>2. /\ o.size \div 3 \in Nat /\ 3 * (o.size \div 3) <= o.size
      /\ Add32(o.published, expected) = o.published + expected
  BY <1>1, Sizes DEF Add32
<1>3. QED
  BY <1>1, <1>2, Sizes DEF Growth, Add32

(* Growing keeps the bytes where they are. *)
LEMMA GrownKeeps ==
    ASSUME NEW o, IsBuffer(o), NEW expected \in 0..MaxChunk,
           Grown(o, expected).size <= MaxAlloc
    PROVE  /\ IsBuffer(Grown(o, expected)) /\ SameBytes(o, Grown(o, expected))
           /\ o.published + expected <= Grown(o, expected).size
           /\ Grown(o, expected).published = o.published
<1> DEFINE size == Add32(o.published, Growth(o, expected))
           f == [i \in 0..(size - 1) |-> IF i < o.published THEN o.buffer[i] ELSE Junk]
<1>1. Grown(o, expected) = [buffer |-> f, size |-> size, published |-> o.published,
                            consumed |-> o.consumed]
  <2>1. o = [buffer |-> o.buffer, size |-> o.size, published |-> o.published,
             consumed |-> o.consumed]
    BY DEF IsBuffer
  <2>2. Grown(o, expected) = [o EXCEPT !.buffer = f, !.size = size]
    BY DEF Grown
  <2> HIDE DEF f, size
  <2>3. QED
    BY <2>1, <2>2
<1>2. size \in 0..MaxAlloc /\ o.published + expected <= size
  BY <1>1, GrownSize, Sizes DEF IsBuffer
<1> HIDE DEF size
<1>3. /\ f \in [0..(size - 1) -> Nat]
      /\ \A i \in 0..(o.published - 1) : f[i] = o.buffer[i]
  BY <1>2, Sizes DEF IsBuffer, Junk
<1> HIDE DEF f
<1>4. o.published \in 0..o.size /\ o.consumed \in 0..o.published /\ o.size \in Nat
  BY Sizes DEF IsBuffer
<1>5. f \in Memory
  BY <1>2, <1>3, MemoryType
<1>6. IsBuffer(Grown(o, expected))
  BY <1>1, <1>2, <1>3, <1>4, <1>5, Sizes DEF IsBuffer
<1>7. SameBytes(o, Grown(o, expected))
  BY <1>1, <1>3, <1>4 DEF SameBytes
<1>8. QED
  BY <1>1, <1>2, <1>6, <1>7

(* ensure_size: the bytes stay, there is room for as many as expected, and *)
(* none of its copies is a bad_copy.                                          *)
LEMMA EnsureSizeKeeps ==
    ASSUME BufferTypeOK, NEW n \in 0..MaxChunk, EnsureSize(b, n).size <= MaxAlloc
    PROVE  /\ IsBuffer(EnsureSize(b, n)) /\ SameBytes(b, EnsureSize(b, n))
           /\ EnsureSize(b, n).published + n <= EnsureSize(b, n).size
           /\ ~EnsureFaults(b, n)
<1> DEFINE m == MoveData(b)
<1>1. IsBuffer(b)
  BY DEF BufferTypeOK
<1>2. /\ IsBuffer(m) /\ SameBytes(b, m) /\ ~MoveOverlaps(b)
  BY <1>1, MoveDataKeeps
<1>3. \A o : IsBuffer(o) => (Fits(o, n) <=> o.published + n <= o.size)
  BY Sizes DEF IsBuffer, Fits, Add32
<1> HIDE DEF m
<1>4. CASE Fits(b, n)
  BY <1>1, <1>3, <1>4 DEF EnsureSize, EnsureFaults, SameBytes
<1>5. CASE ~Fits(b, n) /\ Fits(m, n)
  BY <1>2, <1>3, <1>5 DEF EnsureSize, EnsureFaults, m
<1>6. CASE ~Fits(b, n) /\ ~Fits(m, n)
  <2>1. EnsureSize(b, n) = Grown(m, n)
    BY <1>6 DEF EnsureSize, m
  <2>2. /\ IsBuffer(Grown(m, n)) /\ SameBytes(m, Grown(m, n))
        /\ m.published + n <= Grown(m, n).size
        /\ Grown(m, n).published = m.published
    BY <1>2, <2>1, GrownKeeps
  <2>3. SameBytes(b, Grown(m, n))
    BY <1>2, <2>2 DEF SameBytes
  <2>4. ~EnsureFaults(b, n)
    BY <1>2, <2>2, Sizes DEF EnsureFaults, IsBuffer, m
  <2>5. QED
    BY <2>1, <2>2, <2>3, <2>4
<1>7. QED
  BY <1>4, <1>5, <1>6
-----------------------------------------------------------------------------
(* The initial object. *)
LEMMA BufferStarts == BufferInit => BufferInv
<1> SUFFICES ASSUME BufferInit PROVE BufferInv
  OBVIOUS
<1>1. b.buffer \in [0..(0 - 1) -> Nat] /\ b.buffer \in Memory
  <2>1. b.buffer \in [0..(0 - 1) -> Nat]
    BY DEF BufferInit
  <2>2. 0 \in 0..MaxAlloc
    BY Sizes
  <2>3. QED
    BY <2>1, <2>2 DEF Memory
<1>2. /\ b = [buffer |-> b.buffer, size |-> 0, published |-> 0, consumed |-> 0]
      /\ bad_copy = FALSE /\ next = 1 /\ misread = FALSE
      /\ b.size = 0 /\ b.published = 0 /\ b.consumed = 0
  BY DEF BufferInit
<1> HIDE DEF BufferInit
<1>3. IsBuffer(b)
  BY <1>1, <1>2, Sizes DEF IsBuffer
<1>4. QED
  <2>1. Available = 0
    BY <1>2 DEF Available
  <2>2. Contents
    BY <1>2, <2>1 DEF Contents
  <2>3. next \in 1..(MaxBytes + 1)
    BY <1>2, Sizes
  <2>4. QED
    BY <1>2, <1>3, <2>2, <2>3 DEF BufferInv, BufferTypeOK, FaultExactlyByMisread

LEMMA InitializeKeeps ==
    ASSUME BufferInv, ~bad_copy, NEW n \in 0..MaxChunk, Initialize(n)
    PROVE  BufferInv' /\ SameBytes(b, b')
<1>1. /\ b' = EnsureSize(b, n) /\ bad_copy' = (bad_copy \/ EnsureFaults(b, n))
      /\ next' = next /\ misread' = misread
  BY DEF Initialize
<1>2. IsBuffer(b') /\ SameBytes(b, b') /\ ~EnsureFaults(b, n)
  BY <1>1, EnsureSizeKeeps DEF Initialize, BufferInv
<1>3. ~bad_copy' /\ (bad_copy' \in BOOLEAN) /\ ~misread'
  BY <1>1, <1>2 DEF BufferInv, FaultExactlyByMisread, BufferTypeOK
<1>4. BufferTypeOK'
  BY <1>1, <1>2, <1>3 DEF BufferInv, BufferTypeOK
<1>5. Contents'
  BY <1>1, <1>2 DEF BufferInv, Contents, SameBytes, Available
<1>6. QED
  BY <1>2, <1>3, <1>4, <1>5 DEF BufferInv, FaultExactlyByMisread

(* The bytes written come after those that are there. *)
LEMMA ReadFromBufferKeeps ==
    ASSUME BufferInv, ~bad_copy, NEW n \in 0..MaxChunk, ReadFromBuffer(n)
    PROVE  /\ BufferInv'
           /\ Available' = Available + n
           /\ \A i \in 0..(Available - 1) :
                 b'.buffer[b'.consumed + i] = b.buffer[b.consumed + i]
           /\ \A i \in 0..(n - 1) : b'.buffer[b'.consumed + Available + i] = next + i
<1> DEFINE o == EnsureSize(b, n)
           f == [i \in DOMAIN o.buffer |->
                   IF i \in o.published..(o.published + n - 1)
                   THEN next + i - o.published ELSE o.buffer[i]]
<1>1. /\ IsBuffer(o) /\ SameBytes(b, o) /\ o.published + n <= o.size
      /\ ~EnsureFaults(b, n) /\ Uint32(n) = n
  <2>1. Uint32(n) = n /\ ~(n < 0)
    BY Sizes DEF Uint32
  <2>2. QED
    BY <2>1, EnsureSizeKeeps DEF ReadFromBuffer, BufferInv
<1>2. /\ b' = [o EXCEPT !.buffer = f, !.published = Add32(o.published, n)]
      /\ next' = next + n /\ next + n <= MaxBytes + 1
      /\ ~bad_copy' /\ bad_copy' \in BOOLEAN /\ ~misread' /\ misread' \in BOOLEAN
  <2>1. ~Overruns(o, n)
    BY <1>1, BufferType DEF Overruns
  <2>2. ~(n < 0)
    BY Sizes
  <2>3. /\ bad_copy' = (EnsureFaults(b, n) \/ Overruns(o, n))
        /\ misread' = (n < 0)
        /\ next + n <= MaxBytes + 1
    BY <1>1 DEF ReadFromBuffer
  <2>4. bad_copy' = FALSE /\ misread' = FALSE
    <3>1. (EnsureFaults(b, n) \/ Overruns(o, n)) = FALSE /\ (n < 0) = FALSE
      BY <1>1, <2>1, <2>2
    <3>2. QED
      BY <2>3, <3>1, Zenon
  <2>5. QED
    BY <1>1, <2>1, <2>3, <2>4 DEF ReadFromBuffer
<1> HIDE DEF o
<1>3. b' = [buffer |-> f, size |-> o.size, published |-> o.published + n,
            consumed |-> o.consumed]
  <2>1. Add32(o.published, n) = o.published + n
    BY <1>1, BufferType, Sizes DEF Add32
  <2> HIDE DEF f
  <2>2. o = [buffer |-> o.buffer, size |-> o.size, published |-> o.published,
             consumed |-> o.consumed]
    BY <1>1, BufferType
  <2>3. b' = [o EXCEPT !.buffer = f, !.published = o.published + n]
    BY <1>2, <2>1
  <2>4. QED
    BY <2>2, <2>3
<1>4. next \in Nat /\ Available \in 0..(next - 1) /\ o.published - o.consumed = Available
  BY <1>1, Sizes DEF BufferInv, BufferTypeOK, IsBuffer, Contents, SameBytes, Available
<1>5. /\ f \in [0..(o.size - 1) -> Nat]
      /\ \A i \in 0..(o.published - 1) : f[i] = o.buffer[i]
      /\ \A i \in 0..(n - 1) : f[o.published + i] = next + i
  <2>1. /\ DOMAIN o.buffer = 0..(o.size - 1) /\ o.published \in 0..o.size
        /\ \A i \in 0..(o.size - 1) : o.buffer[i] \in Nat
    BY <1>1, BufferType
  <2>2. \A i \in DOMAIN o.buffer : i >= o.published => next + i - o.published \in Nat
    BY <1>4, <2>1
  <2>3. f \in [0..(o.size - 1) -> Nat]
    BY <2>1, <2>2
  <2>4. \A i \in 0..(n - 1) : o.published + i \in 0..(o.size - 1)
    BY <1>1, <2>1, BufferType
  <2>5. ASSUME NEW i \in 0..(o.published - 1) PROVE f[i] = o.buffer[i]
    <3>1. i \in DOMAIN o.buffer /\ i \in Nat /\ ~(o.published <= i)
      <4>1. o.published \in Nat /\ o.published <= o.size /\ o.size \in Nat
        BY <1>1, BufferType
      <4>2. i \in 0..(o.size - 1) /\ i < o.published
        BY <4>1
      <4>3. QED
        BY <2>1, <4>1, <4>2
    <3>2. QED
      BY <3>1
  <2>6. ASSUME NEW i \in 0..(n - 1) PROVE f[o.published + i] = next + i
    <3>1. f[o.published + i] = next + (o.published + i) - o.published
      BY <2>1, <2>4
    <3>2. QED
      BY <1>4, <2>1, <3>1
  <2>7. QED
    BY <2>3, <2>5, <2>6
<1> HIDE DEF f
<1>6. BufferTypeOK' /\ FaultExactlyByMisread'
  <2>1. f \in Memory /\ o.size \in 0..MaxAlloc
    BY <1>1, <1>5, MemoryType, BufferType
  <2>2. IsBuffer(b')
    BY <1>1, <1>3, <1>5, <2>1, BufferType, Sizes DEF IsBuffer
  <2>3. next' \in 1..(MaxBytes + 1)
    BY <1>2, <1>4, Sizes
  <2>4. QED
    BY <1>2, <2>2, <2>3 DEF BufferTypeOK, FaultExactlyByMisread
<1>7. Available' = Available + n
  BY <1>1, <1>3, <1>4, Sizes DEF Available, IsBuffer
<1>8. \A i \in 0..(Available - 1) :
         b'.buffer[b'.consumed + i] = b.buffer[b.consumed + i]
  <2>1. \A i \in 0..(Available - 1) : o.buffer[o.consumed + i] = b.buffer[b.consumed + i]
    BY <1>1 DEF SameBytes, Available
  <2>2. \A i \in 0..(Available - 1) : o.consumed + i \in 0..(o.published - 1)
    BY <1>1, <1>4, Sizes DEF IsBuffer
  <2>3. QED
    BY <1>3, <1>5, <2>1, <2>2
<1>9. \A i \in 0..(n - 1) : b'.buffer[b'.consumed + Available + i] = next + i
  <2>1. o.consumed + Available = o.published
    BY <1>1, <1>4, Sizes DEF IsBuffer
  <2>2. QED
    BY <1>3, <1>5, <2>1
<1>10. Contents'
  <2>1. next' = next + n /\ n \in Nat /\ Available \in Nat
    BY <1>2, <1>4, Sizes
  <2>2. ASSUME NEW i \in 0..(Available + n - 1)
        PROVE  b'.buffer[b'.consumed + i] = next - Available + i
    <3>1. CASE i < Available
      BY <1>4, <1>8, <2>1, <3>1 DEF BufferInv, Contents
    <3>2. CASE i >= Available
      <4>1. i - Available \in 0..(n - 1)
        BY <1>4, <2>1, <3>2
      <4>2. b'.buffer[b'.consumed + Available + (i - Available)] = next + (i - Available)
        BY <1>9, <4>1
      <4>3. b'.consumed \in Nat
        BY <1>6, Sizes DEF BufferTypeOK, IsBuffer
      <4>4. b'.consumed + Available + (i - Available) = b'.consumed + i
        BY <2>1, <4>3
      <4>5. QED
        BY <1>4, <2>1, <4>2, <4>4
    <3>3. QED
      BY <1>4, <2>1, <3>1, <3>2
  <2>3. Available' < next' /\ next' - Available' = next - Available
    BY <1>4, <1>7, <2>1
  <2>4. QED
    BY <1>4, <1>7, <2>1, <2>2, <2>3 DEF Contents
<1>11. QED
  BY <1>6, <1>7, <1>8, <1>9, <1>10 DEF BufferInv

(* An error code is more than the room of any buffer: if its conversion    *)
(* does not make new[] throw, the copy leaves the buffer.                  *)
LEMMA MisreadFaults ==
    ASSUME BufferInv, ~bad_copy, NEW len \in (-MaxError)..(-1), ReadFromBuffer(len)
    PROVE  BufferInv' /\ UNCHANGED <<b, next>>
<1> DEFINE n == Uint32(len)
           o == EnsureSize(b, n)
<1>1. n \in Nat /\ n > MaxAlloc
  BY Sizes DEF Uint32
<1>2. len < 0
  BY Sizes
<1> HIDE DEF n
<1>3. o.published \in Nat /\ o.size \in Int
  <2> DEFINE m == MoveData(b)
             size == Add32(m.published, Growth(m, n))
  <2>1. IsBuffer(b) /\ IsBuffer(m)
    BY MoveDataKeeps DEF BufferInv, BufferTypeOK
  <2>2. /\ b.published \in Nat /\ b.size \in Nat
        /\ m.published \in Nat /\ m.size \in Nat
        /\ m = [buffer |-> m.buffer, size |-> m.size, published |-> m.published,
                consumed |-> m.consumed]
    BY <2>1, BufferType
  <2> HIDE DEF m
  <2>3. Growth(m, n) \in Int /\ size \in Int
    <3>1. Growth(m, n) \in Int
      BY <1>1, <2>2, Sizes DEF Growth
    <3>2. QED
      BY <2>2, <3>1, Sizes DEF Add32
  <2> HIDE DEF size
  <2>4. Grown(m, n).published = m.published /\ Grown(m, n).size = size
    BY <2>2 DEF Grown, size
  <2>5. QED
    BY <2>2, <2>3, <2>4 DEF EnsureSize, m
<1> HIDE DEF o
<1>4. o.size <= MaxAlloc /\ misread' = (len < 0)
      /\ bad_copy' = (EnsureFaults(b, n) \/ Overruns(o, n))
      /\ \/ (EnsureFaults(b, n) \/ Overruns(o, n)) /\ UNCHANGED <<b, next>>
         \/ ~(EnsureFaults(b, n) \/ Overruns(o, n))
  BY DEF ReadFromBuffer, o, n
<1>5. Overruns(o, n)
  BY <1>1, <1>3, <1>4, Sizes DEF Overruns
<1>6. bad_copy' = TRUE /\ misread' = TRUE /\ UNCHANGED <<b, next>>
  BY <1>2, <1>4, <1>5
<1>7. QED
  BY <1>6 DEF BufferInv, BufferTypeOK, FaultExactlyByMisread, Contents, Available

(* The bytes taken are the oldest; the others stay. *)
LEMMA IgnoreKeeps ==
    ASSUME BufferInv, ~bad_copy, NEW n \in 0..Available, Ignore(n)
    PROVE  /\ BufferInv'
           /\ Available' = Available - n
           /\ \A i \in 0..(Available - n - 1) :
                 b'.buffer[b'.consumed + i] = b.buffer[b.consumed + n + i]
<1>1. /\ \/ b' = [buffer |-> b.buffer, size |-> b.size, published |-> b.published,
                  consumed |-> b.consumed + n]
         \/ /\ n = Available
            /\ b' = [buffer |-> b.buffer, size |-> b.size, published |-> 0, consumed |-> 0]
      /\ UNCHANGED <<bad_copy, next, misread>>
  <2> DEFINE o == [b EXCEPT !.consumed = @ + n]
  <2>1. o = [buffer |-> b.buffer, size |-> b.size, published |-> b.published,
             consumed |-> b.consumed + n]
    BY BufferType DEF BufferInv, BufferTypeOK
  <2>2. b' = Recycled(o) /\ UNCHANGED <<bad_copy, next, misread>>
    BY DEF Ignore
  <2> HIDE DEF o
  <2>3. \/ b' = o
        \/ /\ o.consumed = o.published
           /\ b' = [buffer |-> o.buffer, size |-> o.size, published |-> 0, consumed |-> 0]
    <3>1. CASE o.consumed = o.published
      <4>1. b' = [o EXCEPT !.consumed = 0, !.published = 0]
        BY <2>2, <3>1 DEF Recycled
      <4>2. QED
        BY <2>1, <3>1, <4>1
    <3>2. CASE o.consumed # o.published
      <4>1. Recycled(o) = o
        BY <3>2 DEF Recycled
      <4>2. QED
        BY <2>2, <4>1, Zenon
    <3>3. QED
      BY <3>1, <3>2
  <2>4. o.consumed = o.published => n = Available
    BY <2>1, BufferType DEF BufferInv, BufferTypeOK, Available
  <2>5. QED
    BY <2>1, <2>2, <2>3, <2>4
<1>2. /\ b.size \in Nat /\ b.published \in 0..b.size /\ b.consumed \in 0..b.published
      /\ next \in Nat /\ Available \in Nat /\ n \in Nat
  BY Sizes DEF BufferInv, BufferTypeOK, IsBuffer, Available
<1>3. Available' = Available - n
  BY <1>1, <1>2 DEF Available
<1>4. BufferTypeOK' /\ FaultExactlyByMisread'
  BY <1>1, <1>2 DEF BufferInv, BufferTypeOK, IsBuffer, FaultExactlyByMisread, Available
<1>5. \A i \in 0..(Available - n - 1) :
         b'.buffer[b'.consumed + i] = b.buffer[b.consumed + n + i]
  BY <1>1, <1>2
<1>6. Contents'
  <2>1. ASSUME NEW i \in 0..(Available - n - 1)
        PROVE  b'.buffer[b'.consumed + i] = next - (Available - n) + i
    <3>1. n + i \in 0..(Available - 1) /\ b.consumed + n + i = b.consumed + (n + i)
      BY <1>2
    <3>2. b.buffer[b.consumed + (n + i)] = next - Available + (n + i)
      BY <3>1 DEF BufferInv, Contents
    <3>3. QED
      BY <1>2, <1>5, <3>1, <3>2
  <2>2. QED
    BY <1>1, <1>2, <1>3, <2>1 DEF BufferInv, Contents
<1>7. QED
  BY <1>3, <1>4, <1>5, <1>6 DEF BufferInv

(* BufferInv is inductive. *)
LEMMA BufferSteps ==
    ASSUME BufferInv, [BufferNext]_bufferVars
    PROVE  BufferInv'
<1>1. CASE UNCHANGED bufferVars
  BY <1>1 DEF bufferVars, BufferInv, BufferTypeOK, FaultExactlyByMisread, Contents, Available
<1>2. CASE BufferNext
  <2>1. ~bad_copy
    BY <1>2 DEF BufferNext
  <2>2. ASSUME NEW len \in (-MaxError)..MaxChunk, ReadFromBuffer(len) PROVE BufferInv'
    <3>1. len \in 0..MaxChunk \/ len \in (-MaxError)..(-1)
      BY Sizes
    <3>2. QED
      BY <2>1, <2>2, <3>1, ReadFromBufferKeeps, MisreadFaults
  <2>3. QED
    BY <1>2, <2>1, <2>2, InitializeKeeps, IgnoreKeeps DEF BufferNext
<1>3. QED
  BY <1>1, <1>2

LEMMA BufferInvariance == BufferSpec => []BufferInv
BY BufferStarts, BufferSteps, PTL DEF BufferSpec

(* For any sizes and any order of calls, no read, ignore or initialize     *)
(* copies out of bounds or between overlapping ranges but the read that is *)
(* given an error code, and that one does.                                 *)
THEOREM FaultExactlyByMisreadHolds == BufferSpec => []FaultExactlyByMisread
<1>1. BufferInv => FaultExactlyByMisread
  BY DEF BufferInv
<1>2. QED
  BY <1>1, BufferInvariance, PTL
-----------------------------------------------------------------------------
(* What GETIBPOINTER points to. *)
Window == [i \in 1..Available |-> b.buffer[b.consumed + i - 1]]

LEMMA WindowType == BufferInv => Window \in Seq(Nat) /\ Len(Window) = Available
<1> SUFFICES ASSUME BufferInv PROVE Window \in Seq(Nat) /\ Len(Window) = Available
  OBVIOUS
<1>1. Available \in Nat
  BY Sizes DEF BufferInv, BufferTypeOK, IsBuffer, Available
<1>2. \A i \in 1..Available : b.buffer[b.consumed + i - 1] \in Nat
  BY Sizes DEF BufferInv, BufferTypeOK, IsBuffer, Available
<1>3. QED
  BY <1>1, <1>2 DEF Window

(* Each step of the memory is a step of the queue of bytes. *)
LEMMA QueueStep ==
    ASSUME BufferInv, [BufferNext]_bufferVars
    PROVE  [Queue!Next]_(Queue!queueVars)
<1>1. BufferInv' /\ Window \in Seq(Nat) /\ Len(Window) = Available
      /\ Window' \in Seq(Nat) /\ Len(Window') = Available'
      /\ Available \in Nat /\ b.consumed \in Nat /\ b'.consumed \in Nat
  <2>1. BufferInv'
    BY BufferSteps
  <2>2. (Window \in Seq(Nat) /\ Len(Window) = Available)'
    BY <2>1, WindowType, PTL
  <2>3. QED
    BY <2>1, <2>2, WindowType, Sizes DEF BufferInv, BufferTypeOK, IsBuffer, Available
<1>2. CASE UNCHANGED bufferVars
  BY <1>2 DEF bufferVars, Queue!queueVars, Available
<1>3. ASSUME ~bad_copy, NEW n \in 0..MaxChunk, Initialize(n) PROVE UNCHANGED Queue!queueVars
  <2>1. SameBytes(b, b') /\ next' = next
    BY <1>3, InitializeKeeps DEF Initialize
  <2>2. Window' = Window
    <3>1. Available' = Available
      BY <2>1 DEF SameBytes, Available
    <3>2. \A i \in 1..Available : b'.buffer[b'.consumed + i - 1] = b.buffer[b.consumed + i - 1]
      <4> TAKE i \in 1..Available
      <4>1. i - 1 \in 0..(Available - 1)
        BY <1>1
      <4>2. b'.buffer[b'.consumed + (i - 1)] = b.buffer[b.consumed + (i - 1)]
        BY <2>1, <4>1 DEF SameBytes, Available
      <4>3. b'.consumed + (i - 1) = b'.consumed + i - 1 /\ b.consumed + (i - 1) = b.consumed + i - 1
        BY <1>1
      <4>4. QED
        BY <4>2, <4>3
    <3>3. QED
      BY <3>1, <3>2 DEF Window
  <2>3. QED
    BY <2>1, <2>2 DEF Queue!queueVars, Window
<1>4. ASSUME ~bad_copy, NEW n \in 0..MaxChunk, ReadFromBuffer(n) PROVE Queue!Write(n)
  <2>1. /\ Available' = Available + n
        /\ \A i \in 0..(Available - 1) :
              b'.buffer[b'.consumed + i] = b.buffer[b.consumed + i]
        /\ \A i \in 0..(n - 1) : b'.buffer[b'.consumed + Available + i] = next + i
        /\ next' = next + n /\ n \in Nat /\ next \in Nat
    <3>1. next' = next + n /\ n \in Nat /\ next \in Nat
      <4>1. Uint32(n) = n /\ ~(n < 0) /\ n \in Nat
        BY Sizes DEF Uint32
      <4>2. next' = next + n \/ (bad_copy' /\ ~misread')
        BY <1>4, <4>1 DEF ReadFromBuffer
      <4>3. QED
        BY <1>1, <4>1, <4>2, Sizes DEF BufferInv, BufferTypeOK, FaultExactlyByMisread
    <3>2. QED
      BY <1>4, <3>1, ReadFromBufferKeeps
  <2> DEFINE w == [i \in 1..n |-> next + i - 1]
  <2>2. w \in Seq(Nat) /\ Len(w) = n
    BY <2>1
  <2>3. ASSUME NEW j \in 1..(Available + n) PROVE Window'[j] = (Window \o w)[j]
    <3>1. Window'[j] = b'.buffer[b'.consumed + (j - 1)]
      <4>1. Window'[j] = b'.buffer[b'.consumed + j - 1]
        BY <2>1 DEF Window
      <4>2. b'.consumed + (j - 1) = b'.consumed + j - 1
        BY <1>1
      <4>3. QED
        BY <4>1, <4>2
    <3>2. CASE j <= Available
      <4>1. (Window \o w)[j] = Window[j]
        BY <1>1, <2>2, <3>2
      <4>2. Window[j] = b.buffer[b.consumed + (j - 1)]
        <5>1. Window[j] = b.buffer[b.consumed + j - 1]
          BY <3>2, <1>1 DEF Window
        <5>2. b.consumed + (j - 1) = b.consumed + j - 1
          BY <1>1
        <5>3. QED
          BY <5>1, <5>2
      <4>3. j - 1 \in 0..(Available - 1)
        BY <1>1, <3>2
      <4>4. QED
        BY <2>1, <3>1, <4>1, <4>2, <4>3
    <3>3. CASE j > Available
      <4>1. j - Available \in 1..n /\ j - 1 - Available \in 0..(n - 1)
        BY <1>1, <2>1, <3>3
      <4>2. (Window \o w)[j] = w[j - Available]
        BY <1>1, <2>2, <3>3, <4>1
      <4>3. w[j - Available] = next + (j - Available) - 1
        BY <4>1
      <4>4. b'.buffer[b'.consumed + Available + (j - 1 - Available)] = next + (j - 1 - Available)
        BY <2>1, <4>1
      <4>5. b'.consumed + Available + (j - 1 - Available) = b'.consumed + (j - 1)
            /\ next + (j - 1 - Available) = next + (j - Available) - 1
        BY <1>1, <2>1
      <4>6. QED
        BY <3>1, <4>2, <4>3, <4>4, <4>5
    <3>4. QED
      BY <1>1, <3>2, <3>3
  <2> HIDE DEF w
  <2>4. Window \o w \in Seq(Nat) /\ Len(Window \o w) = Available + n
    BY <1>1, <2>2
  <2>5. Window' = Window \o w
    BY <1>1, <2>1, <2>3, <2>4, SeqEqual
  <2>6. QED
    BY <2>1, <2>5 DEF Queue!Write, Window, w
<1>5. ASSUME ~bad_copy, NEW n \in 0..Available, Ignore(n) PROVE Queue!Take(n)
  <2>1. /\ Available' = Available - n
        /\ \A i \in 0..(Available - n - 1) :
              b'.buffer[b'.consumed + i] = b.buffer[b.consumed + n + i]
        /\ next' = next /\ n \in Nat /\ n <= Available
    <3>1. next' = next /\ n \in Nat /\ n <= Available
      BY <1>1, <1>5 DEF Ignore
    <3>2. QED
      BY <1>5, <3>1, IgnoreKeeps
  <2> DEFINE t == SubSeq(Window, n + 1, Len(Window))
  <2>2. t \in Seq(Nat) /\ Len(t) = Available - n
        /\ \A j \in 1..(Available - n) : t[j] = Window[n + j]
    <3>1. /\ n + 1 \in Int /\ Len(Window) \in Int /\ Available \in Nat /\ n \in Nat
          /\ \A i \in (n + 1)..Len(Window) : Window[i] \in Nat
      BY <1>1, <2>1
    <3>2. /\ t \in Seq(Nat)
          /\ Len(t) = IF n + 1 <= Available THEN Available - (n + 1) + 1 ELSE 0
          /\ \A j \in 1..(Available - (n + 1) + 1) : t[j] = Window[(n + 1) + j - 1]
      BY <1>1, <3>1, SubSeqProperties
    <3>3. \A j \in 1..(Available - n) : t[j] = Window[n + j]
      <4> TAKE j \in 1..(Available - n)
      <4>1. j \in 1..(Available - (n + 1) + 1) /\ (n + 1) + j - 1 = n + j
        BY <3>1
      <4>2. QED
        BY <3>2, <4>1
    <3>4. Len(t) = Available - n
      BY <2>1, <3>1, <3>2
    <3>5. QED
      BY <3>2, <3>3, <3>4
  <2>3. ASSUME NEW j \in 1..(Available - n) PROVE Window'[j] = t[j]
    <3>1. Window'[j] = b'.buffer[b'.consumed + j - 1]
      BY <2>1 DEF Window
    <3>2. n + j \in 1..Available
      BY <1>1, <2>1
    <3>3. Window[n + j] = b.buffer[b.consumed + (n + j) - 1]
      BY <3>2 DEF Window
    <3>4. j - 1 \in 0..(Available - n - 1)
      BY <1>1, <2>1
    <3>5. b'.buffer[b'.consumed + (j - 1)] = b.buffer[b.consumed + n + (j - 1)]
      BY <2>1, <3>4
    <3>6. b'.consumed + (j - 1) = b'.consumed + j - 1
          /\ b.consumed + n + (j - 1) = b.consumed + (n + j) - 1
      BY <1>1, <2>1
    <3>7. QED
      BY <2>2, <3>1, <3>3, <3>5, <3>6
  <2> HIDE DEF t
  <2>4. Window' = t
    BY <1>1, <2>1, <2>2, <2>3, SeqEqual
  <2>5. Len(Window) = Len([i \in 1..Available |-> b.buffer[b.consumed + i - 1]])
    BY DEF Window
  <2>6. QED
    BY <2>1, <2>4 DEF Queue!Take, Window, t
<1>6. QED
  <2>1. ASSUME NEW n \in 0..Available, Queue!Take(n) PROVE Queue!Next
    <3>1. n \in 0..Len([i \in 1..Available |-> b.buffer[b.consumed + i - 1]])
      BY <1>1 DEF Window
    <3>2. QED
      BY <2>1, <3>1 DEF Queue!Next, Queue!Take
  <2>2. ASSUME NEW n \in 0..MaxChunk, Queue!Write(n) PROVE Queue!Next
    BY <2>2 DEF Queue!Next, Queue!Write
  <2>3. CASE BufferNext
    <3>1. ~bad_copy
      BY <2>3 DEF BufferNext
    <3>2. ASSUME NEW len \in (-MaxError)..MaxChunk, ReadFromBuffer(len)
          PROVE  [Queue!Next]_(Queue!queueVars)
      <4>1. len \in 0..MaxChunk \/ len \in (-MaxError)..(-1)
        BY Sizes
      <4>2. CASE len \in 0..MaxChunk
        BY <1>4, <2>2, <3>1, <3>2, <4>2
      <4>3. CASE len \in (-MaxError)..(-1)
        <5>1. UNCHANGED <<b, next>>
          BY <3>1, <3>2, <4>3, MisreadFaults
        <5>2. QED
          BY <5>1 DEF Queue!queueVars, Available
      <4>4. QED
        BY <4>1, <4>2, <4>3
    <3>3. QED
      BY <1>3, <1>5, <2>1, <2>3, <3>1, <3>2 DEF BufferNext
  <2>4. QED
    BY <1>2, <2>3

(* The buffer implements the queue of bytes: none is lost, repeated, moved *)
(* past another or overwritten, for any sizes.                             *)
THEOREM ByteQueueImplemented == BufferSpec => ImplementsByteQueue
<1>1. BufferInit => Queue!Init
  BY DEF BufferInit, Queue!Init, Available
<1>2. BufferInv /\ [BufferNext]_bufferVars => [Queue!Next]_(Queue!queueVars)
  BY QueueStep
<1>3. QED
  BY <1>1, <1>2, BufferInvariance, PTL DEF BufferSpec, ImplementsByteQueue, Queue!Spec
=============================================================================
