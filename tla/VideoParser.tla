----------------------------- MODULE VideoParser -----------------------------
(***************************************************************************)
(* What becomes of an encoded frame: VideoRawParser of jni/raw_parser.cpp  *)
(* splits x264's byte stream into NAL units and keeps the parameter sets,  *)
(* and send_video of jni/rtmp_handler.cpp writes the units into a block    *)
(* with their lengths and sends an avc_dcr when the sets are new to the    *)
(* server.  Timestamps, threads and failing sends are in RtmpHandler.      *)
(*                                                                         *)
(* A NAL unit is a sequence of bytes.  x264 lets none of 0 0 0 and 0 0 1   *)
(* occur in one and ends each with a byte other than 0.  The parser reads  *)
(* no byte past the end of such a frame: TLC would stop at one.            *)
(***************************************************************************)
EXTENDS Integers, Sequences, FiniteSetsExt

CONSTANTS
    Sps, Pps, Sei, Slice,       \* the NAL units x264 may write, by kind
    MaxSlices,                  \* bound on the slices of a frame
    VIDEO_PAYLOAD_OFFSET, VIDEO_BODY_HEADER_LENGTH,
    JustInCase                  \* the 128 of send_video

Unit == Sps \cup Pps \cup Sei \cup Slice

nalu_typ(nalu) == nalu[1] % 32

ASSUME ParserAssumption ==
    /\ Unit \subseteq Seq(Nat)
    /\ \A u \in Unit : /\ u # <<>> /\ u[Len(u)] # 0
                       /\ \A i \in 1..Len(u) - 2 :
                             ~(u[i] = 0 /\ u[i + 1] = 0 /\ u[i + 2] \in {0, 1})
    /\ \A u \in Unit : /\ u \in Sps <=> nalu_typ(u) = 7
                       /\ u \in Pps <=> nalu_typ(u) = 8
                       /\ u \in Sei <=> nalu_typ(u) = 6
                       /\ u \in Slice <=> nalu_typ(u) \notin {6, 7, 8}
    /\ {MaxSlices, VIDEO_PAYLOAD_OFFSET, VIDEO_BODY_HEADER_LENGTH, JustInCase} \subseteq Nat

VARIABLES
    parser,     \* m_vparser: m_nalus, m_sps, m_pps and the two flags
    parser_need_cfg, \* m_vinfo.need_cfg
    avc_dcr,    \* the parameter sets last given to add_packet
    buf_length, body,\* the length of the block allocated, and what was written to it
    enc,        \* the parameter sets of the running encoder
    first,      \* it has not yet given its first frame
    frame       \* history: the frame last given to send_video

parserVars == <<parser, parser_need_cfg, avc_dcr, buf_length, body, enc, first, frame>>

(* x264's output: the units and the length of the start code before each,  *)
(* long before the first and before the parameter sets.  With repeated     *)
(* headers every key frame, and only a key frame, carries the sets; an     *)
(* encoder may also give nothing for a picture.                            *)
Coded(nals) ==
    {[nals |-> nals,
      codes |-> [i \in DOMAIN nals |-> IF i = 1 \/ nals[i] \in Sps \cup Pps THEN 4 ELSE c],
      key |-> \E i \in DOMAIN nals : nals[i] \in Sps] : c \in {3, 4}}

Slices == UNION {[1..n -> Slice] : n \in 1..MaxSlices}

KeyFrames(sets) ==
    UNION {Coded(sets \o sei \o s) : sei \in {<<>>} \cup {<<u>> : u \in Sei}, s \in Slices}
InterFrames == UNION {Coded(s) : s \in Slices \cup {<<>>}}

(* The bytes encode_nals makes of them. *)
StartCode(n) == IF n = 4 THEN <<0, 0, 0, 1>> ELSE <<0, 0, 1>>

Bytes(f) ==
    LET bytes[i \in 0..Len(f.nals)] ==
            IF i = 0 THEN <<>> ELSE bytes[i - 1] \o (StartCode(f.codes[i]) \o f.nals[i])
    IN  bytes[Len(f.nals)]
-----------------------------------------------------------------------------
STARTCODE3(dat, i) == dat[i] = 0 /\ dat[i + 1] = 0 /\ dat[i + 2] = 1
STARTCODE4(dat, i) == dat[i] = 0 /\ dat[i + 1] = 0 /\ dat[i + 2] = 0 /\ dat[i + 3] = 1

(* Where the search ends: at the first of the places, or past the end. *)
FirstOf(places, dat) == Min(places \cup {Len(dat) + 1})

NextStartcode(dat, from) == FirstOf({i \in from..Len(dat) : STARTCODE3(dat, i)}, dat)

\* Mutant: a unit ends at the next 0 0 1 only.
EndAtStartcode(dat, from) == NextStartcode(dat, from)

(* Where the unit that starts at from ends: at 0 0 1 or at 0 0 0. *)
NaluEnd(dat, from) ==
    FirstOf({i \in from..Len(dat) :
                dat[i] = 0 /\ dat[i + 1] = 0 /\ dat[i + 2] \in {0, 1}}, dat)

(* A turn of the loop: the next unit, if any; a start code with nothing    *)
(* after it is ignored.                                                    *)
Find(dat, t) ==
    LET start == NextStartcode(dat, t.at) + 3
        end == NaluEnd(dat, start)
    IN  IF start - 3 > Len(dat) THEN t
        ELSE [at |-> end,
              nalus |-> IF end > start THEN Append(t.nalus, SubSeq(dat, start, end - 1))
                        ELSE t.nalus]

(* The units of dat, after as many turns as it has room for start codes. *)
Turns(dat) == Len(dat) \div 3

Split(dat) ==
    LET found[i \in 0..Turns(dat)] ==
            IF i = 0 THEN [at |-> 1, nalus |-> <<>>] ELSE Find(dat, found[i - 1])
    IN  found[Turns(dat)].nalus

\* Mutant: memcmp over the shorter length decides alone.
DiffersInPrefix(set, nalu) == \E i \in DOMAIN set \cap DOMAIN nalu : set[i] # nalu[i]

(* A parameter set was stored, of another length or with other bytes. *)
Differs(set, nalu) == set # <<>> /\ (Len(set) # Len(nalu) \/ set # nalu)

Store(p, nalu) ==
    LET typ == nalu_typ(nalu)
    IN  [nalus |-> Append(p.nalus, nalu),
         sps |-> IF typ = 7 THEN nalu ELSE p.sps,
         pps |-> IF typ = 8 THEN nalu ELSE p.pps,
         key_frame |-> p.key_frame \/ typ \in {6, 7, 8},
         sps_pps_changed |-> \/ p.sps_pps_changed
                             \/ typ = 7 /\ Differs(p.sps, nalu)
                             \/ typ = 8 /\ Differs(p.pps, nalu)]

Reset(p) == [nalus |-> <<>>, sps |-> p.sps, pps |-> p.pps,
             key_frame |-> FALSE, sps_pps_changed |-> FALSE]

(* The parser when it has stored these units. *)
Stored(p, nalus) ==
    LET stored[i \in 0..Len(nalus)] ==
            IF i = 0 THEN Reset(p) ELSE Store(stored[i - 1], nalus[i])
    IN  stored[Len(nalus)]

Process(p, dat) == Stored(p, Split(dat))

(* A start code left before a unit is taken off. *)
Bare(nalu) ==
    IF Len(nalu) > 3 /\ STARTCODE4(nalu, 1) THEN SubSeq(nalu, 5, Len(nalu))
    ELSE IF Len(nalu) > 2 /\ STARTCODE3(nalu, 1) THEN SubSeq(nalu, 4, Len(nalu))
    ELSE nalu

AllocLength(length) == length + VIDEO_BODY_HEADER_LENGTH + JustInCase

(* cur - buf after the units were written, four bytes of length before each. *)
BodyLength(nalus) ==
    LET length[i \in 0..Len(nalus)] ==
            IF i = 0 THEN VIDEO_PAYLOAD_OFFSET ELSE length[i - 1] + (4 + Len(nalus[i]))
    IN  length[Len(nalus)]
-----------------------------------------------------------------------------
ParserInit ==
    /\ parser = [nalus |-> <<>>, sps |-> <<>>, pps |-> <<>>,
                 key_frame |-> FALSE, sps_pps_changed |-> FALSE]
    /\ parser_need_cfg = TRUE
    /\ avc_dcr = <<>> /\ buf_length = 0 /\ body = <<>>
    /\ enc \in {<<s, p>> : s \in Sps, p \in Pps}
    /\ first = TRUE
    /\ frame = [nals |-> <<>>, codes |-> <<>>, key |-> FALSE]

(* send_video.  Only the first frames of a run of the encoder can have a   *)
(* timestamp so far back that they are taken for a new stream.             *)
SendFrame(f, new_stream) ==
    LET p == Process(parser, Bytes(f))
        nalus == [i \in DOMAIN p.nalus |-> Bare(p.nalus[i])]
        need == parser_need_cfg \/ new_stream
        cfg == (need \/ p.sps_pps_changed) /\ p.key_frame
    IN  /\ new_stream => first
        /\ parser' = p
        /\ buf_length' = AllocLength(Len(Bytes(f)))
        /\ body' = [key |-> p.key_frame, nalus |-> nalus, length |-> BodyLength(nalus)]
        /\ avc_dcr' = IF cfg THEN <<p.sps, p.pps>> ELSE avc_dcr
        /\ parser_need_cfg' = (need /\ ~cfg)
        /\ frame' = f
        /\ first' = (first /\ f.nals = <<>>)
        /\ UNCHANGED enc

(* The encoder is closed and opened again, with any settings. *)
Reopen ==
    /\ enc' \in {<<s, p>> : s \in Sps, p \in Pps}
    /\ first' = TRUE
    /\ UNCHANGED <<parser, parser_need_cfg, avc_dcr, buf_length, body, frame>>

ParserNext ==
    \/ \E f \in KeyFrames(enc), new_stream \in BOOLEAN : SendFrame(f, new_stream)
    \/ \E f \in InterFrames, new_stream \in BOOLEAN :
          (first => f.nals = <<>>) /\ SendFrame(f, new_stream)
    \/ Reopen

ParserSpec == ParserInit /\ [][ParserNext]_parserVars
-----------------------------------------------------------------------------
(* The data packet of a frame carries exactly the units x264 wrote, in     *)
(* order, is marked as a key frame if and only if it is one, and was       *)
(* written inside the block allocated for it, although each short start    *)
(* code is replaced by a longer length; as long as a frame has no more of  *)
(* these than the code allows for.                                         *)
ShortCodes(f) == Cardinality({i \in DOMAIN f.codes : f.codes[i] = 3})

FrameFaithful ==
    body # <<>> =>
        /\ body.nalus = frame.nals
        /\ body.key = frame.key
        /\ (ShortCodes(frame) <= JustInCase + VIDEO_BODY_HEADER_LENGTH - VIDEO_PAYLOAD_OFFSET
            => body.length <= buf_length)

(* Whatever the encoder was before and whether or not its restart was      *)
(* noticed by the timestamps, the parameter sets last sent as avc_dcr are  *)
(* those of the frames being sent.                                         *)
ConfigCurrent == ~first => avc_dcr = enc
=============================================================================
