------------------------------- MODULE MemPool -------------------------------
(***************************************************************************)
(* The MemHolder of jni/xutil/xutil.cpp that send_video and send_audio of  *)
(* jni/rtmp_handler.cpp share: one block, kept and grown, lent to whoever  *)
(* allocates.  send_audio allocates, fills and sends under m_mutex;        *)
(* send_video allocates and fills before it takes the mutex.               *)
(*                                                                         *)
(* A payload is filled in two halves, each known by the thread that wrote  *)
(* it last; a block gets a number of its own.  malloc does not fail.       *)
(***************************************************************************)
EXTENDS Integers, Sequences

CONSTANTS
    Slack,      \* the 32 of MemHolder::alloc
    MaxSize,    \* bound on the sizes of payloads
    MaxCalls    \* bound on the calls of each thread

ASSUME PoolAssumption == {Slack, MaxSize, MaxCalls} \subseteq Nat

Thread == {"audio", "video"}
NULL == 0

VARIABLES
    m_buf, m_capacity,   \* m_mem_pool
    size, data, freed,   \* the blocks ever allocated: their sizes, what is in
                         \* them, and which of them were freed
    m_mutex,             \* its holder, or "none"
    call,                \* each thread's send
    calls,
    (* History, read by no action of the code: *)
    torn,       \* a payload was sent that its thread had not written
    misused,    \* a use of a freed or missing block, or past the end of one
    overlap,    \* both threads had the pool's block lent at once
    grown,      \* ... and the pool grew meanwhile
    two_grow    \* both threads grew the pool at once

poolVars == <<m_buf, m_capacity, size, data, freed, m_mutex, call, calls,
              torn, misused, overlap, grown, two_grow>>

Idle == [pc |-> "idle", sz |-> 0, capacity |-> 0, tmp |-> NULL, buf |-> NULL]

Growing == {"malloc", "free", "clear", "assign"}
Lent == Growing \cup {"alloc", "return", "fill1", "fill2", "lock", "header", "send"}

(* The block can take sz bytes. *)
Usable(block, sz) == block # NULL /\ block \notin freed /\ size[block] >= sz

Go(t, c) ==
    /\ call' = [call EXCEPT ![t] = c]
    /\ overlap' = (overlap \/ \A u \in Thread : call'[u].pc \in Lent)
    /\ grown' = (grown \/ /\ \A u \in Thread : call'[u].pc \in Lent
                          /\ \E u \in Thread : call'[u].pc \in Growing)
    /\ two_grow' = (two_grow \/ \A u \in Thread : call'[u].pc \in Growing)
-----------------------------------------------------------------------------
PoolInit ==
    /\ m_buf = NULL /\ m_capacity = 0
    /\ size = <<>> /\ data = <<>> /\ freed = {}
    /\ m_mutex = "none"
    /\ call = [t \in Thread |-> Idle]
    /\ calls = [t \in Thread |-> 0]
    /\ torn = FALSE /\ misused = FALSE
    /\ overlap = FALSE /\ grown = FALSE /\ two_grow = FALSE

(* send_video, up to its alloc. *)
SendVideo(sz) ==
    /\ call["video"] = Idle /\ calls["video"] < MaxCalls
    /\ calls' = [calls EXCEPT !["video"] = @ + 1]
    /\ Go("video", [Idle EXCEPT !.pc = "alloc", !.sz = sz])
    /\ UNCHANGED <<m_buf, m_capacity, size, data, freed, m_mutex, torn, misused>>

(* send_audio, up to its alloc, which it makes under the mutex. *)
SendAudio(sz) ==
    /\ call["audio"] = Idle /\ calls["audio"] < MaxCalls
    /\ m_mutex = "none"
    /\ m_mutex' = "audio"
    /\ calls' = [calls EXCEPT !["audio"] = @ + 1]
    /\ Go("audio", [Idle EXCEPT !.pc = "alloc", !.sz = sz])
    /\ UNCHANGED <<m_buf, m_capacity, size, data, freed, torn, misused>>

(* alloc tests the capacity, and raises it before there is a block of it. *)
Alloc(t) ==
    /\ call[t].pc = "alloc"
    /\ IF call[t].sz > m_capacity
       THEN LET more == (17 * m_capacity) \div 16 + Slack
                capacity == IF more > call[t].sz THEN more ELSE call[t].sz
            IN  /\ m_capacity' = capacity
                /\ Go(t, [call[t] EXCEPT !.pc = "malloc", !.capacity = capacity])
       ELSE /\ Go(t, [call[t] EXCEPT !.pc = "return"])
            /\ UNCHANGED m_capacity
    /\ UNCHANGED <<m_buf, size, data, freed, m_mutex, calls, torn, misused>>

\* Mutant: malloc gets the size that was asked for.
MallocAsked(t, reread) ==
    /\ call[t].pc = "malloc"
    /\ size' = Append(size, call[t].sz) /\ data' = Append(data, <<"", "">>)
    /\ Go(t, [call[t] EXCEPT !.pc = "free", !.tmp = Len(size) + 1])
    /\ UNCHANGED <<m_buf, m_capacity, freed, m_mutex, calls, torn, misused>>

(* malloc of m_capacity, as it was written or as it is now. *)
Malloc(t, reread) ==
    /\ call[t].pc = "malloc"
    /\ size' = Append(size, IF reread THEN m_capacity ELSE call[t].capacity)
    /\ data' = Append(data, <<"", "">>)
    /\ Go(t, [call[t] EXCEPT !.pc = "free", !.tmp = Len(size) + 1])
    /\ UNCHANGED <<m_buf, m_capacity, freed, m_mutex, calls, torn, misused>>

(* SAFE_FREE(m_buf), of a block that may be gone by now. *)
FreeOld(t) ==
    /\ call[t].pc = "free"
    /\ IF m_buf = NULL
       THEN /\ Go(t, [call[t] EXCEPT !.pc = "assign"])
            /\ UNCHANGED <<freed, misused>>
       ELSE /\ misused' = (misused \/ m_buf \in freed)
            /\ freed' = freed \cup {m_buf}
            /\ Go(t, [call[t] EXCEPT !.pc = "clear"])
    /\ UNCHANGED <<m_buf, m_capacity, size, data, m_mutex, calls, torn>>

ClearBuf(t) ==
    /\ call[t].pc = "clear"
    /\ m_buf' = NULL
    /\ Go(t, [call[t] EXCEPT !.pc = "assign"])
    /\ UNCHANGED <<m_capacity, size, data, freed, m_mutex, calls, torn, misused>>

AssignBuf(t) ==
    /\ call[t].pc = "assign"
    /\ m_buf' = call[t].tmp
    /\ Go(t, [call[t] EXCEPT !.pc = "return"])
    /\ UNCHANGED <<m_capacity, size, data, freed, m_mutex, calls, torn, misused>>

(* alloc returns m_buf: what it is now, or what the thread put there. *)
ReturnBuf(t, reread) ==
    /\ call[t].pc = "return"
    /\ LET buf == IF reread \/ call[t].tmp = NULL THEN m_buf ELSE call[t].tmp
       IN  Go(t, [call[t] EXCEPT !.pc = "fill1", !.buf = buf, !.tmp = NULL, !.capacity = 0])
    /\ UNCHANGED <<m_buf, m_capacity, size, data, freed, m_mutex, calls, torn, misused>>

\* Mutant: the thread sends after the first half.
FillHalf(t) ==
    /\ call[t].pc \in {"fill1", "fill2"}
    /\ LET usable == Usable(call[t].buf, call[t].sz)
       IN  /\ misused' = (misused \/ ~usable)
           /\ data' = IF usable THEN [data EXCEPT ![call[t].buf][1] = t] ELSE data
           /\ Go(t, [call[t] EXCEPT !.pc = IF t = "video" THEN "lock" ELSE "send"])
    /\ UNCHANGED <<m_buf, m_capacity, size, freed, m_mutex, calls, torn>>

(* The payload is copied into the block, in two steps. *)
Fill(t) ==
    /\ call[t].pc \in {"fill1", "fill2"}
    /\ LET half == IF call[t].pc = "fill1" THEN 1 ELSE 2
           usable == Usable(call[t].buf, call[t].sz)
       IN  /\ misused' = (misused \/ ~usable)
           /\ data' = IF usable THEN [data EXCEPT ![call[t].buf][half] = t] ELSE data
           /\ Go(t, [call[t] EXCEPT !.pc = IF half = 1 THEN "fill2"
                                           ELSE IF t = "video" THEN "lock" ELSE "send"])
    /\ UNCHANGED <<m_buf, m_capacity, size, freed, m_mutex, calls, torn>>

(* send_video takes the mutex, and make_video_body writes the header. *)
LockVideo ==
    /\ call["video"].pc = "lock" /\ m_mutex = "none"
    /\ m_mutex' = "video"
    /\ Go("video", [call["video"] EXCEPT !.pc = "header"])
    /\ UNCHANGED <<m_buf, m_capacity, size, data, freed, calls, torn, misused>>

MakeVideoBody ==
    /\ call["video"].pc = "header"
    /\ misused' = (misused \/ ~Usable(call["video"].buf, call["video"].sz))
    /\ Go("video", [call["video"] EXCEPT !.pc = "send"])
    /\ UNCHANGED <<m_buf, m_capacity, size, data, freed, m_mutex, calls, torn>>

(* send_rtmp_pkt reads the block; the mutex is released on return. *)
SendPkt(t) ==
    /\ call[t].pc = "send"
    /\ LET usable == Usable(call[t].buf, call[t].sz)
       IN  /\ misused' = (misused \/ ~usable)
           /\ torn' = (torn \/ (usable /\ data[call[t].buf] # <<t, t>>))
    /\ m_mutex' = "none"
    /\ Go(t, Idle)
    /\ UNCHANGED <<m_buf, m_capacity, size, data, freed, calls>>

(* After a misuse the program's behaviour is undefined. *)
PoolNext == ~misused /\
    (\/ \E sz \in 1..MaxSize : SendVideo(sz) \/ SendAudio(sz)
     \/ LockVideo \/ MakeVideoBody
     \/ \E t \in Thread :
           \/ Alloc(t) \/ FreeOld(t) \/ ClearBuf(t) \/ AssignBuf(t) \/ Fill(t) \/ SendPkt(t)
           \/ \E reread \in BOOLEAN : Malloc(t, reread) \/ ReturnBuf(t, reread))

PoolSpec == PoolInit /\ [][PoolNext]_poolVars
-----------------------------------------------------------------------------
(* What is sent was written by its sender, as long as the two threads do   *)
(* not both hold the pool's block: then either payload may hold the        *)
(* other's bytes, for the mutex covers only one of them.  Even so a        *)
(* missing, freed or short block is used only if the pool grew meanwhile.  *)
MisuseNeedsOverlap == (torn => overlap) /\ (misused => grown)

(* m_capacity never promises more than the block has once nobody           *)
(* allocates, unless both threads once grew the pool at the same time.     *)
CapacityTrueUnlessTwoGrow ==
    (\A t \in Thread : call[t].pc \notin Growing) =>
        \/ two_grow
        \/ m_buf = NULL /\ m_capacity = 0
        \/ Usable(m_buf, m_capacity)
=============================================================================
