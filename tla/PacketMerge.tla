------------------------------ MODULE PacketMerge ------------------------------
(***************************************************************************)
(* What JitterBuffer of jni/jitter_buffer.cpp promises to its callers: a   *)
(* merge of the queues of its streams.  A stream's packets come out in the *)
(* order they went in, each once and as it was, and only when every stream *)
(* has a packet waiting or the waiting packets span more than MaxDelta.    *)
(* Nothing here is a list, a pointer or an unsigned number.                *)
(***************************************************************************)
EXTENDS Integers, Sequences

CONSTANTS Stream, Pts, MaxDelta, MaxPackets   \* see JitterBuffer

VARIABLES
    put,        \* the number of packets put
    waiting,    \* the packets that are in, numbered in order of arrival
    delivered   \* the packets that came out, with the reason why

mergeVars == <<put, waiting, delivered>>

Youngest(p) == \A q \in waiting : q.type = p.type => q.id <= p.id
Oldest(p) == \A q \in waiting : q.type = p.type => p.id <= q.id

(* Every stream has a packet waiting. *)
AllWait == \A s \in Stream : \E q \in waiting : q.type = s

(* The youngest packet of some stream is further from p than MaxDelta, or  *)
(* before it.                                                              *)
TooFar(p) == /\ MaxDelta > 0
             /\ \E q \in waiting : Youngest(q) /\ q.pts - p.pts \notin 0..MaxDelta

Put(s, p) ==
    /\ put < MaxPackets
    /\ put' = put + 1
    /\ waiting' = waiting \cup {[id |-> put + 1, type |-> s, pts |-> p]}
    /\ UNCHANGED delivered

Deliver(p, reason) ==
    /\ Oldest(p)
    /\ IF reason = "all" THEN AllWait ELSE ~AllWait /\ TooFar(p)
    /\ waiting' = waiting \ {p}
    /\ delivered' = Append(delivered, [id |-> p.id, type |-> p.type,
                                       pts |-> p.pts, reason |-> reason])
    /\ UNCHANGED put

Init == put = 0 /\ waiting = {} /\ delivered = <<>>

Next == \/ \E s \in Stream, p \in Pts : Put(s, p)
        \/ \E p \in waiting, reason \in {"all", "forced"} : Deliver(p, reason)

Spec == Init /\ [][Next]_mergeVars
=============================================================================
