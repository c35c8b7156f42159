------------------------------- MODULE FlvMuxer -------------------------------
(***************************************************************************)
(* write_tag of jni/flv_muxer.cpp: the times it gives the packets that     *)
(* packet_cb of jni/rtmp_handler.cpp writes to the file beside sending     *)
(* them.  Only audio and video get here, so that the test of the type      *)
(* never fails.  The fourth byte of a tag's time is made from              *)
(* ts & 0xFF000000 cut to eight bits, and so is 0: a time counts modulo    *)
(* W24, 2^24 in the code.  RtmpHandler takes the steps.                    *)
(***************************************************************************)
EXTENDS Integers, Sequences

CONSTANT W24

VARIABLES
    m_tm_offset,
    tags        \* the times of the file's tags
-----------------------------------------------------------------------------
Init == m_tm_offset = -1 /\ tags = <<>>

\* Mutant: an offset of 0 counts as none.
ZeroIsUnset(offset) == offset <= 0

Unset(offset) == offset = -1

TagTime(ts) == ts % W24

write_tag(ts) ==
    /\ m_tm_offset' = IF Unset(m_tm_offset) THEN -ts ELSE m_tm_offset
    /\ tags' = Append(tags, TagTime(ts + m_tm_offset'))
=============================================================================
