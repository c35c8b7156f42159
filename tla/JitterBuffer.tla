----------------------------- MODULE JitterBuffer -----------------------------
(***************************************************************************)
(* The interleaving queue of jni/jitter_buffer.cpp, used by one thread at  *)
(* a time.  The audio and the video encoder hand their packets to          *)
(* JitterBuffer::add_packet, which keeps one linked list ordered by        *)
(* timestamp, remembers the last node of each stream, and passes nodes     *)
(* from the head of the list to a callback (RtmpHandler::packet_cb) as     *)
(* soon as every stream has a packet queued, or the queue spans too much   *)
(* time.                                                                   *)
(*                                                                         *)
(* A node is identified by the number of the add_packet call that created  *)
(* it, so that the pointers m_packet_buffer_end and m_last_pktl are        *)
(* numbers, 0 being NULL; the list is the sequence of its nodes.           *)
(***************************************************************************)
EXTENDS Integers, Sequences, SequencesExt

CONSTANTS
    Stream,       \* the packet types (audio, video): STREAM_NUM of them
    Pts,          \* the timestamps a packet may carry
    MaxDelta,     \* m_max_interleave_delta
    Wrap,         \* the modulus of uint64_t arithmetic
    MaxPackets    \* bound on the calls of add_packet

ASSUME StreamAssumption == Stream # {}
ASSUME PtsAssumption == Pts \subseteq Nat /\ 0 \in Pts
ASSUME DeltaAssumption == MaxDelta \in Nat
ASSUME WrapAssumption == Wrap \in Nat /\ \A p \in Pts : p + MaxDelta < Wrap
ASSUME BoundAssumption == MaxPackets \in Nat

VARIABLES
    packet_buffer,  \* the list that starts at m_packet_buffer
    buffer_end,     \* m_packet_buffer_end
    last_pktl,      \* m_last_pktl
    pc,             \* "idle", or "loop" inside the while loop of add_packet
    (* History, read by no action of the code: *)
    added,          \* the number of packets handed to add_packet
    out,            \* the packets taken from the list, in order
    ret,            \* how the latest add_packet call ended
    newest,         \* the latest timestamp added to each stream
    monotone        \* no stream's timestamps ever went backwards

list == <<packet_buffer, buffer_end, last_pktl>>
history == <<added, out, ret, newest, monotone>>
vars == <<packet_buffer, buffer_end, last_pktl, pc,
          added, out, ret, newest, monotone>>

NULL == 0
Node == [id : 1..MaxPackets, type : Stream, pts : Pts]
Reason == {"all", "forced"}
Output == [id : 1..MaxPackets, type : Stream, pts : Pts, reason : Reason]
-----------------------------------------------------------------------------
\* Mutant: signed subtraction.
SignedSub(a, b) == a - b

(* uint64_t subtraction, which wraps when a < b. *)
Sub64(a, b) == IF a >= b THEN a - b ELSE Wrap + a - b

(* Where a node is in the list, and its timestamp. *)
Index(id) == CHOOSE i \in DOMAIN packet_buffer : packet_buffer[i].id = id
PtsOf(id) == packet_buffer[Index(id)].pts

(* interleave_compare_pts: does next come strictly after pkt? *)
ComparePts(next, p) == next > p

\* Mutant: the search starts at the head of the list.
SearchFromHead(s) == 1

(* Where interleave_add_packet links a packet of stream s: never before    *)
(* the stream's own last node, and before the first later node whose       *)
(* timestamp is greater.  The index is that of *next_point; an index past  *)
(* the list's length is a NULL *next_point.                                *)
SearchFrom(s) == IF last_pktl[s] # NULL THEN Index(last_pktl[s]) + 1 ELSE 1

Later(s, p) == {i \in DOMAIN packet_buffer : /\ i >= SearchFrom(s)
                                             /\ ComparePts(packet_buffer[i].pts, p)}

\* Mutant: a packet goes to the end of the list.
InsertAtEnd(s, p) == Len(packet_buffer) + 1

InsertPoint(s, p) ==
    IF /\ SearchFrom(s) <= Len(packet_buffer)
       /\ ComparePts(PtsOf(buffer_end), p)
       /\ Later(s, p) # {}
    THEN CHOOSE i \in Later(s, p) : \A j \in Later(s, p) : i <= j
    ELSE Len(packet_buffer) + 1

(* The two reasons interleave_packet_per_pts has to flush. *)
AllStreamsQueued == \A s \in Stream : last_pktl[s] # NULL

SpanTooLong ==
    /\ MaxDelta > 0
    /\ packet_buffer # <<>>
    /\ \E s \in Stream :
          /\ last_pktl[s] # NULL
          /\ Sub64(PtsOf(last_pktl[s]), packet_buffer[1].pts) > MaxDelta

Flush == /\ \E s \in Stream : last_pktl[s] # NULL
         /\ AllStreamsQueued \/ SpanTooLong
-----------------------------------------------------------------------------
Init ==
    /\ packet_buffer = <<>>
    /\ buffer_end = NULL
    /\ last_pktl = [s \in Stream |-> NULL]
    /\ pc = "idle"
    /\ added = 0
    /\ out = <<>>
    /\ ret = "drained"
    /\ newest = [s \in Stream |-> 0]
    /\ monotone = TRUE

NewNode(s, p) == [id |-> added + 1, type |-> s, pts |-> p]

(* add_packet(pkt) enters its loop: interleave_add_packet links the packet. *)
AddPacket(s, p) ==
    /\ pc = "idle"
    /\ added < MaxPackets
    /\ LET node == NewNode(s, p)
           k == InsertPoint(s, p)
       IN  /\ packet_buffer' = InsertAt(packet_buffer, k, node)
           /\ buffer_end' = IF k > Len(packet_buffer) THEN node.id ELSE buffer_end
           /\ last_pktl' = [last_pktl EXCEPT ![s] = node.id]
    /\ pc' = "loop"
    /\ added' = added + 1
    /\ newest' = [newest EXCEPT ![s] = p]
    /\ monotone' = (monotone /\ p >= newest[s])
    /\ UNCHANGED <<out, ret>>

(* m_packet_buffer = pktl->next *)
HeadUnlinked == Tail(packet_buffer)

\* Mutant: the pointer to the stream's last node is never reset.
LastKept(pktl) == last_pktl

(* if (locate_last(out->pkttype) == pktl) locate_last(out->pkttype) = NULL *)
LastReset(pktl) ==
    [last_pktl EXCEPT ![pktl.type] = IF @ = pktl.id THEN NULL ELSE @]

(* One turn of the loop that finds something to flush: the head of the     *)
(* list is unlinked and given to the callback, whose result is ok.  When   *)
(* the callback fails the packet is gone and add_packet leaves its loop.   *)
FlushHead(ok) ==
    /\ pc = "loop"
    /\ Flush
    /\ LET pktl == packet_buffer[1]
           reason == IF AllStreamsQueued THEN "all" ELSE "forced"
       IN  /\ packet_buffer' = HeadUnlinked
           /\ buffer_end' = IF Len(packet_buffer) = 1 THEN NULL ELSE buffer_end
           /\ last_pktl' = LastReset(pktl)
           /\ out' = Append(out, [id |-> pktl.id, type |-> pktl.type,
                                  pts |-> pktl.pts, reason |-> reason])
    /\ pc' = IF ok THEN "loop" ELSE "idle"
    /\ ret' = IF ok THEN ret ELSE "failed"
    /\ UNCHANGED <<added, newest, monotone>>

(* The turn that finds nothing to flush: add_packet returns. *)
Return ==
    /\ pc = "loop"
    /\ ~Flush
    /\ pc' = "idle"
    /\ ret' = "drained"
    /\ UNCHANGED <<list, added, out, newest, monotone>>

Next ==
    \/ \E s \in Stream, p \in Pts : AddPacket(s, p)
    \/ \E ok \in BOOLEAN : FlushHead(ok)
    \/ Return

Spec == Init /\ [][Next]_vars
-----------------------------------------------------------------------------
(* Every variable ranges over what the code can store in it. *)
TypeOK ==
    /\ packet_buffer \in Seq(Node)
    /\ buffer_end \in 0..MaxPackets
    /\ last_pktl \in [Stream -> 0..MaxPackets]
    /\ pc \in {"idle", "loop"}
    /\ added \in 0..MaxPackets
    /\ out \in Seq(Output)
    /\ ret \in {"drained", "failed"}
    /\ newest \in [Stream -> Pts]
    /\ monotone \in BOOLEAN

(* m_packet_buffer_end is the last node of the list and NULL when there is *)
(* none, which is what assert(!*next_point) of interleave_add_packet and   *)
(* the read of m_packet_buffer_end->pkt rely on.                           *)
EndIsLast ==
    buffer_end = IF packet_buffer = <<>> THEN NULL
                 ELSE packet_buffer[Len(packet_buffer)].id

(* m_last_pktl[s] is NULL when the stream has no packet queued, and else   *)
(* its last one: it never dangles after its node was flushed and deleted.  *)
IsLastOf(s, i) ==
    /\ packet_buffer[i].id = last_pktl[s]
    /\ packet_buffer[i].type = s
    /\ \A j \in DOMAIN packet_buffer : j > i => packet_buffer[j].type # s

LastIsLastOfStream ==
    \A s \in Stream :
        IF last_pktl[s] = NULL
        THEN \A i \in DOMAIN packet_buffer : packet_buffer[i].type # s
        ELSE \E i \in DOMAIN packet_buffer : IsLastOf(s, i)

PointersConsistent == EndIsLast /\ LastIsLastOfStream

(* Packets of one stream leave the buffer in the order they came in,       *)
(* whatever their timestamps.                                              *)
StreamFIFO ==
    /\ \A i, j \in DOMAIN packet_buffer :
          i < j /\ packet_buffer[i].type = packet_buffer[j].type
              => packet_buffer[i].id < packet_buffer[j].id
    /\ \A i, j \in DOMAIN out :
          i < j /\ out[i].type = out[j].type => out[i].id < out[j].id
    /\ \A i \in DOMAIN out, j \in DOMAIN packet_buffer :
          out[i].type = packet_buffer[j].type => out[i].id < packet_buffer[j].id

(* Every packet added is in the list or was handed to the callback, once.  *)
NoLossNoDuplicate ==
    /\ Len(packet_buffer) + Len(out) = added
    /\ \A k \in 1..added :
          \/ \E i \in DOMAIN packet_buffer : packet_buffer[i].id = k
          \/ \E i \in DOMAIN out : out[i].id = k

(* While no stream's timestamps go backwards the list is in timestamp      *)
(* order.                                                                  *)
SortedWhileMonotone ==
    monotone => \A i, j \in DOMAIN packet_buffer :
                    i < j => packet_buffer[i].pts <= packet_buffer[j].pts

(* As long as the streams are monotone and the buffer was never forced to  *)
(* output early, the callback sees timestamps in order: only a forced      *)
(* output lets a later packet of the slower stream come out of order.      *)
InOrderUntilForced ==
    monotone /\ (\A i \in DOMAIN out : out[i].reason = "all") =>
        \A i, j \in DOMAIN out : i < j => out[i].pts <= out[j].pts

(* When add_packet returns without a failed callback, at most one stream   *)
(* still has packets queued and they span at most m_max_interleave_delta:  *)
(* no unsigned wrap of last_pts - top_pts goes unnoticed.                  *)
BoundedHold ==
    pc = "idle" /\ ret = "drained" =>
        /\ \E s \in Stream : last_pktl[s] = NULL
        /\ MaxDelta > 0 => \A s \in Stream : last_pktl[s] # NULL =>
               PtsOf(last_pktl[s]) - packet_buffer[1].pts \in 0..MaxDelta

(* The list implements a merge of the streams' queues: no packet is lost,  *)
(* changed, given out twice or before an earlier one of its stream, and    *)
(* none leaves without a reason.                                           *)
Merge == INSTANCE PacketMerge WITH
    put <- added,
    waiting <- {packet_buffer[i] : i \in DOMAIN packet_buffer},
    delivered <- out

ImplementsPacketMerge == Merge!Spec
=============================================================================
