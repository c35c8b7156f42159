------------------------------- MODULE ByteQueue -------------------------------
(***************************************************************************)
(* What IOBuffer of jni/xutil/xutil.cpp promises to AudioEncoder: a queue  *)
(* of bytes.  A byte is known by its number in the order of writing, so    *)
(* that a byte lost, repeated, moved or overwritten shows.                 *)
(***************************************************************************)
EXTENDS Integers, Sequences

CONSTANTS MaxChunk   \* bound on the bytes of one write

VARIABLES
    queue,   \* the bytes written and not yet taken
    next     \* the number of the next byte to be written

queueVars == <<queue, next>>

Init == queue = <<>> /\ next = 1

Write(n) == /\ queue' = queue \o [i \in 1..n |-> next + i - 1]
            /\ next' = next + n

Take(n) == /\ queue' = SubSeq(queue, n + 1, Len(queue))
           /\ UNCHANGED next

Next == \/ \E n \in 0..MaxChunk : Write(n)
        \/ \E n \in 0..Len(queue) : Take(n)

Spec == Init /\ [][Next]_queueVars
=============================================================================
