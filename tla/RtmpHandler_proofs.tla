-------------------------- MODULE RtmpHandler_proofs --------------------------
(***************************************************************************)
(* Proofs about RtmpHandler, for any bounds, thresholds and moduli that    *)
(* HandlerAssumption admits.  What the JitterBuffer does is taken from     *)
(* JitterBuffer_proofs, instantiated as RtmpHandler instantiates           *)
(* JitterBuffer.  The inductive invariant HInv relates the packets in the  *)
(* list and in the output to the calls that sent them, and the variables   *)
(* m_vinfo and m_ainfo to what was sent last.                              *)
(***************************************************************************)
EXTENDS RtmpHandler, TLAPS

JP == INSTANCE JitterBuffer_proofs WITH Pts <- 0..(U32 - 1)
-----------------------------------------------------------------------------
(* What every variable of the handler ranges over. *)
Packet == [type : Stream, cfg : BOOLEAN, ts : Int, epoch : Nat]
TypeOK ==
    /\ lts \in [Stream -> Nat]
    /\ tm_offset \in [Stream -> Int]
    /\ need_cfg \in [Stream -> BOOLEAN]
    /\ enc_ts \in [Stream -> Nat \cup {None}]
    /\ \/ call = Idle
       \/ call \in [on : Stream, ts : Nat, step : {"cfg", "data"}]
    /\ sent \in Seq(Packet)
    /\ epoch \in [Stream -> Nat]
    /\ back_shift \in BOOLEAN
    /\ m_tm_offset \in Int
    /\ tags \in Seq(Int)

(* A call to which the configuration was just added, not yet the data. *)
InCfg(s) == call.step = "cfg" /\ call.on = s

(* A node of the list or an output is the packet of its number in sent. *)
NodesAreSent ==
    /\ Len(sent) = added
    /\ \A i \in DOMAIN packet_buffer :
          LET n == packet_buffer[i]
          IN  n.type = sent[n.id].type /\ n.pts = sent[n.id].ts % U32
    /\ \A i \in DOMAIN out :
          LET n == out[i] IN  n.type = sent[n.id].type

(* m_vinfo.lts and m_ainfo.lts are the encoder's latest timestamp, once    *)
(* the call is past the configuration packet.                              *)
LtsFollows ==
    /\ \A s \in Stream : enc_ts[s] # None /\ ~InCfg(s) => lts[s] = enc_ts[s]
    /\ call.step = "cfg" => enc_ts[call.on] = call.ts

(* The configuration of the encoder in use is among the packets sent. *)
ConfigSent(s) == \E i \in DOMAIN sent :
                    sent[i].cfg /\ sent[i].type = s /\ sent[i].epoch = epoch[s]

(* An encoder that sent data sent its configuration first, unless its      *)
(* first frame was lost; no pending video configuration means one was      *)
(* sent.                                                                   *)
Headless(s) == <<s, epoch[s]>> \in headless
Configured ==
    /\ \A s \in Stream : enc_ts[s] # None => ConfigSent(s) \/ Headless(s)
    /\ ~need_cfg["video"] => ConfigSent("video")
    /\ call.step = "cfg" => ConfigSent(call.on)

(* Every data packet follows a configuration of its encoder, unless its    *)
(* run began with a lost frame.                                            *)
SentConfigFirst ==
    \A i \in DOMAIN sent :
        ~sent[i].cfg /\ <<sent[i].type, sent[i].epoch>> \notin headless
                     => \E j \in 1..(i - 1) : /\ sent[j].cfg
                                              /\ sent[j].type = sent[i].type
                                              /\ sent[j].epoch = sent[i].epoch

(* The stream time that the latest video packet cannot exceed: a later one *)
(* is not before it.                                                       *)
VideoBound == (IF InCfg("video") THEN call.ts ELSE lts["video"]) + tm_offset["video"]
LastVideoBounded ==
    \A i \in DOMAIN sent :
        /\ IsVideo(i)
        /\ \A k \in i + 1..Len(sent) : ~IsVideo(k)
        => sent[i].ts <= VideoBound

(* A video offset never goes below 0, an audio offset only by a back shift. *)
OffsetsForward ==
    /\ tm_offset["video"] >= 0
    /\ ~back_shift => tm_offset["audio"] >= 0

(* Before the first packet nothing has been recorded. *)
Fresh ==
    added = 0 => /\ \A s \in Stream : lts[s] = 0 /\ tm_offset[s] = 0 /\ enc_ts[s] = None
                 /\ call = Idle

(* The file's offset is the first packet's time, unless it reads as none;  *)
(* that packet is at 0 while no run has lost its first frame.              *)
FileOffset ==
    /\ Len(tags) = Len(out)
    /\ out = <<>> => m_tm_offset = -1
    /\ out # <<>> /\ out[1].pts # 1 => m_tm_offset = -AsInt(out[1].pts)
    /\ headless = {} => /\ out = <<>> /\ packet_buffer # <<>> => packet_buffer[1].pts = 0
                        /\ out # <<>> => out[1].pts = 0

(* What JitterBuffer_proofs shows of the list on its own. *)
BufferInv == JP!IInv /\ JP!NoLossNoDuplicate

(* The inductive invariant. *)
HInv ==
    /\ TypeOK /\ BufferInv /\ NodesAreSent
    /\ LtsFollows /\ Configured /\ SentConfigFirst
    /\ LastVideoBounded /\ VideoNeverFarBack
    /\ OffsetsForward /\ WrapsOnlyAfterBackShift
    /\ Fresh /\ FileOffset /\ FileHasStreamTimes
-----------------------------------------------------------------------------
(* The assumptions of JitterBuffer hold for the handler's instance of it.  *)
LEMMA BufferAssumptions ==
    /\ Stream # {}
    /\ 0..(U32 - 1) \subseteq Nat /\ 0 \in 0..(U32 - 1)
    /\ MaxDelta \in Nat
    /\ Wrap \in Nat /\ \A p \in 0..(U32 - 1) : p + MaxDelta < Wrap
    /\ MaxPackets \in Nat
  BY HandlerAssumption DEF Stream

(* What the invariants of JitterBuffer say of the list and the output.     *)
LEMMA BufferFacts ==
    ASSUME BufferInv
    PROVE  /\ added \in Nat
           /\ Len(packet_buffer) \in Nat
           /\ DOMAIN packet_buffer = 1..Len(packet_buffer)
           /\ \A i \in DOMAIN packet_buffer : /\ packet_buffer[i].id \in 1..added
                                              /\ packet_buffer[i].type \in Stream
                                              /\ packet_buffer[i].pts \in 0..(U32 - 1)
           /\ Len(out) \in Nat
           /\ DOMAIN out = 1..Len(out)
           /\ \A i \in DOMAIN out : out[i].id \in 1..added /\ out[i].pts \in 0..(U32 - 1)
           /\ out = <<>> <=> Len(out) = 0
           /\ packet_buffer = <<>> <=> Len(packet_buffer) = 0
           /\ Len(packet_buffer) + Len(out) = added
<1>1. JP!TypeOK /\ JP!IdsUnique
  BY DEF BufferInv, JP!IInv
<1>2. /\ Len(packet_buffer) \in Nat
      /\ DOMAIN packet_buffer = 1..Len(packet_buffer)
      /\ \A i \in 1..Len(packet_buffer) : /\ packet_buffer[i].id \in 1..MaxPackets
                                          /\ packet_buffer[i].type \in Stream
                                          /\ packet_buffer[i].pts \in 0..(U32 - 1)
  BY <1>1, JP!BufferTypes, BufferAssumptions
<1>3. out \in Seq(JP!Output) /\ packet_buffer \in Seq(JP!Node) /\ added \in Nat
  BY <1>1, BufferAssumptions DEF JP!TypeOK
<1>4. \A i \in DOMAIN out : out[i].id \in 1..MaxPackets /\ out[i].pts \in 0..(U32 - 1)
  <2>1. \A i \in DOMAIN out : out[i] \in JP!Output
    BY <1>3
  <2>2. \A o \in JP!Output : o.id \in 1..MaxPackets /\ o.pts \in 0..(U32 - 1)
    BY DEF JP!Output
  <2>3. QED
    BY <2>1, <2>2
<1>5. MaxPackets \in Nat
  BY BufferAssumptions
<1>6. \A i \in DOMAIN packet_buffer : packet_buffer[i].id \in 1..added
  BY <1>1, <1>2, <1>3, <1>5 DEF JP!IdsUnique
<1>7. \A i \in DOMAIN out : out[i].id \in 1..added
  BY <1>1, <1>3, <1>4, <1>5 DEF JP!IdsUnique
<1>8. Len(packet_buffer) + Len(out) = added
  BY DEF BufferInv, JP!NoLossNoDuplicate
<1>9. QED
  BY <1>2, <1>3, <1>4, <1>6, <1>7, <1>8

(* The handler's instance of add_packet is the one of the proofs. *)
LEMMA SameAddPacket ==
    ASSUME NEW s, NEW p, J!AddPacket(s, p)
    PROVE  JP!AddPacket(s, p)
  BY Zenon DEF J!AddPacket, JP!AddPacket, J!InsertPoint, JP!InsertPoint,
     J!SearchFrom, JP!SearchFrom, J!Index, JP!Index, J!PtsOf, JP!PtsOf, J!Later,
     JP!Later, J!ComparePts, JP!ComparePts, J!NewNode, JP!NewNode, J!NULL, JP!NULL,
     J!InsertAt, JP!InsertAt

(* The handler's instance of a turn of the loop is the one of the proofs. *)
LEMMA SameFlushHead ==
    ASSUME NEW ok, J!FlushHead(ok)
    PROVE  JP!FlushHead(ok)
  BY DEF J!FlushHead, JP!FlushHead, J!Flush, JP!Flush, J!AllStreamsQueued,
     JP!AllStreamsQueued, J!SpanTooLong, JP!SpanTooLong, J!Sub64, JP!Sub64,
     J!PtsOf, JP!PtsOf, J!Index, JP!Index, J!NULL, JP!NULL, J!HeadUnlinked,
     JP!HeadUnlinked, J!LastReset, JP!LastReset

(* So is the return of add_packet. *)
LEMMA SameReturn ==
    ASSUME J!Return
    PROVE  JP!Return
  BY DEF J!Return, JP!Return, J!Flush, JP!Flush, J!AllStreamsQueued,
     JP!AllStreamsQueued, J!SpanTooLong, JP!SpanTooLong, J!Sub64, JP!Sub64,
     J!PtsOf, JP!PtsOf, J!Index, JP!Index, J!NULL, JP!NULL, J!list, JP!list

(* The buffer starts out empty. *)
LEMMA BufferInit ==
    ASSUME J!Init
    PROVE  BufferInv /\ packet_buffer = <<>> /\ out = <<>> /\ added = 0
<1>1. JP!Init
  BY DEF J!Init, JP!Init, J!NULL, JP!NULL
<1>2. JP!IInv
  BY <1>1, JP!InitInv, BufferAssumptions
<1>3. packet_buffer = <<>> /\ out = <<>> /\ added = 0
  BY DEF J!Init
<1>4. JP!NoLossNoDuplicate
  BY <1>3 DEF JP!NoLossNoDuplicate
<1>5. QED
  BY <1>2, <1>3, <1>4 DEF BufferInv

(* What add_packet does with the new packet. *)
LEMMA BufferPut ==
    ASSUME BufferInv, NEW s \in Stream, NEW p \in 0..(U32 - 1), J!AddPacket(s, p)
    PROVE  /\ BufferInv'
           /\ out' = out /\ added' = added + 1
           /\ \A j \in DOMAIN packet_buffer' :
                 \/ packet_buffer'[j] = [id |-> added + 1, type |-> s, pts |-> p]
                 \/ \E i \in DOMAIN packet_buffer : packet_buffer'[j] = packet_buffer[i]
           /\ DOMAIN packet_buffer' = 1..(Len(packet_buffer) + 1)
           /\ packet_buffer # <<>> /\ packet_buffer[1].pts <= p
                 => packet_buffer'[1] = packet_buffer[1]
<1>1. JP!AddPacket(s, p)
  BY SameAddPacket
<1>2. JP!IInv /\ JP!NoLossNoDuplicate
  BY DEF BufferInv
<1>3. JP!IInv'
  BY <1>1, <1>2, JP!AddPacketInv, BufferAssumptions
<1>4. JP!Next
  BY <1>1 DEF JP!Next
<1>5. JP!NoLossNoDuplicate'
  BY <1>2, <1>4, JP!NoLossStep, BufferAssumptions
<1>6. /\ DOMAIN packet_buffer' = 1..(Len(packet_buffer) + 1)
      /\ \A j \in DOMAIN packet_buffer' :
            \/ packet_buffer'[j] = JP!NewNode(s, p)
            \/ \E i \in DOMAIN packet_buffer : packet_buffer'[j] = packet_buffer[i]
  BY <1>1, <1>2, JP!InsertedNode, BufferAssumptions
<1>7. JP!NewNode(s, p) = [id |-> added + 1, type |-> s, pts |-> p]
  BY DEF JP!NewNode
<1>8. packet_buffer # <<>> /\ packet_buffer[1].pts <= p
         => packet_buffer'[1] = packet_buffer[1]
  BY <1>1, <1>2, JP!HeadStays, BufferAssumptions
<1>9. out' = out /\ added' = added + 1
  BY <1>1 DEF JP!AddPacket
<1>10. QED
  BY <1>3, <1>5, <1>6, <1>7, <1>8, <1>9 DEF BufferInv

(* What a turn of the loop that flushes does. *)
LEMMA BufferTake ==
    ASSUME BufferInv, NEW ok \in BOOLEAN, J!FlushHead(ok)
    PROVE  /\ BufferInv'
           /\ added' = added
           /\ 1 \in DOMAIN packet_buffer
           /\ \A j \in DOMAIN packet_buffer' :
                 /\ j + 1 \in DOMAIN packet_buffer
                 /\ packet_buffer'[j] = packet_buffer[j + 1]
           /\ Len(out') = Len(out) + 1
           /\ DOMAIN out' = 1..(Len(out) + 1)
           /\ \A i \in DOMAIN out : out'[i] = out[i]
           /\ out'[Len(out) + 1].id = packet_buffer[1].id
           /\ out'[Len(out) + 1].type = packet_buffer[1].type
           /\ out'[Len(out) + 1].pts = packet_buffer[1].pts
<1>1. JP!FlushHead(ok)
  BY SameFlushHead
<1>2. JP!IInv /\ JP!NoLossNoDuplicate
  BY DEF BufferInv
<1>3. JP!IInv'
  BY <1>1, <1>2, JP!FlushHeadInv, BufferAssumptions
<1>4. JP!Next
  BY <1>1 DEF JP!Next
<1>5. JP!NoLossNoDuplicate'
  BY <1>2, <1>4, JP!NoLossStep, BufferAssumptions
<1>6. added' = added
  BY <1>1 DEF JP!FlushHead
<1>7. /\ 1 \in DOMAIN packet_buffer
      /\ \A j \in DOMAIN packet_buffer' : /\ j + 1 \in DOMAIN packet_buffer
                                          /\ packet_buffer'[j] = packet_buffer[j + 1]
      /\ Len(out') = Len(out) + 1
      /\ DOMAIN out' = 1..(Len(out) + 1)
      /\ \A i \in DOMAIN out : out'[i] = out[i]
      /\ out'[Len(out) + 1].id = packet_buffer[1].id
      /\ out'[Len(out) + 1].type = packet_buffer[1].type
      /\ out'[Len(out) + 1].pts = packet_buffer[1].pts
  BY <1>1, <1>2, JP!FlushedHead, BufferAssumptions
<1>8. QED
  BY <1>3, <1>5, <1>6, <1>7 DEF BufferInv

(* A step that takes nothing from the list and adds nothing to it.  *)
LEMMA BufferKept ==
    ASSUME BufferInv, J!Return \/ UNCHANGED jitter
    PROVE  BufferInv' /\ UNCHANGED <<packet_buffer, out, added>>
<1>1. JP!Return \/ UNCHANGED JP!vars
  BY SameReturn DEF jitter, JP!vars
<1>2. JP!IInv /\ JP!NoLossNoDuplicate
  BY DEF BufferInv
<1>3. [JP!Next]_(JP!vars)
  BY <1>1 DEF JP!Next
<1>4. JP!IInv'
  BY <1>2, <1>3, JP!NextInv, BufferAssumptions
<1>5. JP!NoLossNoDuplicate'
  BY <1>2, <1>3, JP!NoLossStep, BufferAssumptions
<1>6. UNCHANGED <<packet_buffer, out, added>>
  BY <1>1 DEF JP!Return, JP!vars, JP!list
<1>7. QED
  BY <1>4, <1>5, <1>6 DEF BufferInv
-----------------------------------------------------------------------------
(* What send_rtmp_pkt does to the list and to the packets sent.            *)
LEMMA PutFacts ==
    ASSUME BufferInv, NodesAreSent, sent \in Seq(Packet), epoch' \in [Stream -> Nat],
           NEW s \in Stream, NEW t \in Int, NEW cfg \in BOOLEAN, Put(s, t, cfg)
    PROVE  /\ BufferInv' /\ NodesAreSent'
           /\ sent' \in Seq(Packet)
           /\ Len(sent) \in Nat
           /\ DOMAIN sent = 1..Len(sent)
           /\ Len(sent') = Len(sent) + 1
           /\ DOMAIN sent' = 1..(Len(sent) + 1)
           /\ \A i \in DOMAIN sent : sent'[i] = sent[i]
           /\ sent'[Len(sent) + 1] = [type |-> s, cfg |-> cfg, ts |-> t, epoch |-> epoch'[s]]
           /\ Len(sent) = added
           /\ out' = out /\ added' = added + 1
<1> DEFINE x == [type |-> s, cfg |-> cfg, ts |-> t, epoch |-> epoch'[s]]
           n == Len(sent)
<1>1. J!AddPacket(s, t % U32) /\ sent' = Append(sent, x)
  BY DEF Put
<1>2. t % U32 \in 0..(U32 - 1)
  BY HandlerAssumption
<1>3. x \in Packet /\ x.type = s /\ x.ts = t
  BY DEF Packet
<1> HIDE DEF x
<1>4. /\ n \in Nat /\ DOMAIN sent = 1..n
      /\ sent' \in Seq(Packet) /\ Len(sent') = n + 1
      /\ DOMAIN sent' = 1..(n + 1)
      /\ \A i \in 1..n : sent'[i] = sent[i]
      /\ sent'[n + 1] = x
  BY <1>1, <1>3
<1>5. /\ BufferInv'
      /\ out' = out /\ added' = added + 1
      /\ \A j \in DOMAIN packet_buffer' :
            \/ packet_buffer'[j] = [id |-> added + 1, type |-> s, pts |-> t % U32]
            \/ \E i \in DOMAIN packet_buffer : packet_buffer'[j] = packet_buffer[i]
  BY <1>1, <1>2, BufferPut
<1>6. n = added
  BY DEF NodesAreSent
<1>7. ASSUME NEW j \in DOMAIN packet_buffer'
      PROVE  /\ packet_buffer'[j].type = sent'[packet_buffer'[j].id].type
             /\ packet_buffer'[j].pts = sent'[packet_buffer'[j].id].ts % U32
  <2>1. CASE packet_buffer'[j] = [id |-> added + 1, type |-> s, pts |-> t % U32]
    <3>1. sent'[packet_buffer'[j].id] = x
      BY <1>4, <1>6, <2>1
    <3>2. QED
      BY <1>3, <2>1, <3>1
  <2>2. CASE \E i \in DOMAIN packet_buffer : packet_buffer'[j] = packet_buffer[i]
    <3>1. PICK i \in DOMAIN packet_buffer : packet_buffer'[j] = packet_buffer[i]
      BY <2>2
    <3>2. packet_buffer[i].id \in 1..n
      BY <1>6, BufferFacts
    <3>3. QED
      BY <1>4, <3>1, <3>2 DEF NodesAreSent
  <2>3. QED
    BY <1>5, <1>7, <2>1, <2>2
<1>8. ASSUME NEW i \in DOMAIN out
      PROVE  out[i].type = sent'[out[i].id].type
  <2>1. out[i].id \in 1..n
    BY <1>6, BufferFacts
  <2>2. QED
    BY <1>4, <2>1 DEF NodesAreSent
<1>9. NodesAreSent'
  BY <1>4, <1>5, <1>6, <1>7, <1>8 DEF NodesAreSent
<1>10. QED
  BY <1>4, <1>5, <1>6, <1>9 DEF x, n

(* A data packet that follows a configuration of its stream keeps every    *)
(* packet behind its configuration.                                        *)
LEMMA PutConfig ==
    ASSUME SentConfigFirst, NEW s \in Stream, NEW t, NEW cfg \in BOOLEAN, NEW n \in Nat,
           DOMAIN sent = 1..n, DOMAIN sent' = 1..(n + 1),
           \A i \in DOMAIN sent : sent'[i] = sent[i],
           sent'[n + 1] = [type |-> s, cfg |-> cfg, ts |-> t, epoch |-> epoch'[s]],
           headless \subseteq headless',
           cfg \/ (ConfigSent(s) /\ epoch'[s] = epoch[s]) \/ Headless(s)'
    PROVE  /\ SentConfigFirst'
           /\ ConfigSent(s)' \/ Headless(s)'
           /\ cfg => ConfigSent(s)'
           /\ \A u \in Stream : ConfigSent(u) /\ epoch'[u] = epoch[u] => ConfigSent(u)'
<1>1. ASSUME NEW u \in Stream, ConfigSent(u), epoch'[u] = epoch[u]
      PROVE  ConfigSent(u)'
  <2>1. PICK i \in DOMAIN sent : sent[i].cfg /\ sent[i].type = u /\ sent[i].epoch = epoch[u]
    BY <1>1 DEF ConfigSent
  <2>2. i \in DOMAIN sent' /\ sent'[i] = sent[i]
    BY <2>1
  <2>3. QED
    BY <1>1, <2>1, <2>2 DEF ConfigSent
<1>2. (cfg => ConfigSent(s)') /\ (ConfigSent(s)' \/ Headless(s)')
  <2>1. CASE cfg
    BY <2>1 DEF ConfigSent
  <2>2. QED
    BY <1>1, <2>1
<1>3. ASSUME NEW i \in DOMAIN sent', ~sent'[i].cfg,
             <<sent'[i].type, sent'[i].epoch>> \notin headless'
      PROVE  \E j \in 1..(i - 1) : /\ sent'[j].cfg
                                   /\ sent'[j].type = sent'[i].type
                                   /\ sent'[j].epoch = sent'[i].epoch
  <2>1. CASE i \in 1..n
    <3>1. PICK j \in 1..(i - 1) : /\ sent[j].cfg
                                  /\ sent[j].type = sent[i].type
                                  /\ sent[j].epoch = sent[i].epoch
      BY <1>3, <2>1 DEF SentConfigFirst
    <3>2. j \in DOMAIN sent /\ sent'[j] = sent[j] /\ sent'[i] = sent[i]
      BY <2>1, <3>1
    <3>3. QED
      BY <3>1, <3>2
  <2>2. CASE i = n + 1
    <3>1. ~cfg /\ ~Headless(s)'
      BY <1>3, <2>2 DEF Headless
    <3>2. PICK j \in DOMAIN sent : sent[j].cfg /\ sent[j].type = s /\ sent[j].epoch = epoch[s]
      BY <3>1 DEF ConfigSent
    <3>3. j \in 1..(i - 1) /\ sent'[j] = sent[j]
      BY <2>2, <3>2
    <3>4. epoch'[s] = epoch[s] /\ sent'[i].type = s /\ sent'[i].epoch = epoch'[s]
      BY <2>2, <3>1
    <3>5. QED
      BY <3>2, <3>3, <3>4
  <2>3. QED
    BY <2>1, <2>2
<1>4. SentConfigFirst'
  BY <1>3 DEF SentConfigFirst
<1>5. QED
  BY <1>1, <1>2, <1>4

(* A video packet no more than the threshold behind the bound on the last  *)
(* one, which is then the bound, keeps video from going far back.          *)
LEMMA PutVideo ==
    ASSUME LastVideoBounded, VideoNeverFarBack, NEW n \in Nat, n = Len(sent),
           sent \in Seq(Packet), sent' \in Seq(Packet),
           DOMAIN sent = 1..n, DOMAIN sent' = 1..(n + 1), Len(sent') = n + 1,
           \A i \in DOMAIN sent : sent'[i] = sent[i],
           VideoBound \in Int, VideoBound' \in Int,
           IF sent'[n + 1].type = "video" THEN /\ sent'[n + 1].ts >= VideoBound - Threshold
                                   /\ sent'[n + 1].ts <= VideoBound'
           ELSE VideoBound <= VideoBound'
    PROVE  LastVideoBounded' /\ VideoNeverFarBack'
<1>1. /\ \A i \in 1..n : IsVideo(i)' <=> IsVideo(i)
      /\ \A i \in 1..n : sent[i].ts \in Int
      /\ sent'[n + 1].ts \in Int
      /\ Threshold \in Nat
  <2>1. \A p \in Packet : p.ts \in Int
    BY DEF Packet
  <2>2. (\A i \in 1..n : sent[i] \in Packet) /\ sent'[n + 1] \in Packet
    OBVIOUS
  <2>3. Threshold \in Nat
    BY HandlerAssumption
  <2>4. \A i \in 1..n : IsVideo(i)' <=> IsVideo(i)
    BY DEF IsVideo
  <2>5. QED
    BY <2>1, <2>2, <2>3, <2>4
<1>2. ASSUME NEW i \in DOMAIN sent', IsVideo(i)', \A k \in (i + 1)..Len(sent') : ~IsVideo(k)'
      PROVE  sent'[i].ts <= VideoBound'
  <2>1. CASE i = n + 1
    BY <1>2, <2>1 DEF IsVideo
  <2>2. CASE i \in 1..n
    <3>1. sent'[n + 1].type # "video" /\ \A k \in (i + 1)..Len(sent) : ~IsVideo(k)
      BY SMTT(30), <1>1, <1>2, <2>2 DEF IsVideo
    <3>2. sent[i].ts <= VideoBound
      BY <1>1, <1>2, <2>2, <3>1 DEF LastVideoBounded
    <3>3. QED
      BY <1>1, <2>2, <3>1, <3>2
  <2>3. QED
    BY <2>1, <2>2
<1>3. ASSUME NEW i \in DOMAIN sent', NEW j \in DOMAIN sent',
             i < j, IsVideo(i)', IsVideo(j)', \A k \in i + 1..j - 1 : ~IsVideo(k)'
      PROVE  sent'[j].ts >= sent'[i].ts - Threshold
  <2>1. CASE j \in 1..n
    <3>1. i \in 1..n /\ \A k \in i + 1..j - 1 : ~IsVideo(k)
      BY SMTT(30), <1>1, <1>3, <2>1
    <3>2. IsVideo(i) /\ IsVideo(j) /\ sent'[i] = sent[i] /\ sent'[j] = sent[j]
      BY <1>1, <1>3, <2>1, <3>1
    <3>3. sent[j].ts >= sent[i].ts - Threshold
      BY <1>3, <2>1, <3>1, <3>2 DEF VideoNeverFarBack
    <3>4. QED
      BY <3>2, <3>3
  <2>2. CASE j = n + 1
    <3>1. i \in 1..n /\ \A k \in (i + 1)..Len(sent) : ~IsVideo(k)
      BY <1>1, <1>3, <2>2
    <3>2. sent[i].ts <= VideoBound
      BY <1>1, <1>3, <3>1 DEF LastVideoBounded
    <3>3. QED
      BY <1>1, <1>3, <2>2, <3>1, <3>2 DEF IsVideo
  <2>3. QED
    BY <2>1, <2>2
<1>4. LastVideoBounded'
  BY <1>2 DEF LastVideoBounded
<1>5. VideoNeverFarBack'
  BY <1>3 DEF VideoNeverFarBack
<1>6. QED
  BY <1>4, <1>5

(* A packet sent with a time that does not wrap unless audio was moved     *)
(* back.                                                                   *)
LEMMA PutWraps ==
    ASSUME WrapsOnlyAfterBackShift, NEW n \in Nat,
           DOMAIN sent = 1..n, DOMAIN sent' = 1..(n + 1),
           \A i \in DOMAIN sent : sent'[i] = sent[i],
           back_shift => back_shift',
           sent'[n + 1].ts < 0 => sent'[n + 1].type = "audio" /\ back_shift'
    PROVE  WrapsOnlyAfterBackShift'
  BY DEF WrapsOnlyAfterBackShift

(* While no run lost its first frame, the first packet ever sent is at 0,  *)
(* and none is linked before it.                                           *)
LEMMA PutFirst ==
    ASSUME BufferInv, FileOffset, UNCHANGED file,
           NEW s \in Stream, NEW t \in Int, NEW cfg, Put(s, t, cfg),
           headless \subseteq headless',
           added = 0 /\ headless' = {} => t = 0
    PROVE  FileOffset'
<1>1. J!AddPacket(s, t % U32)
  BY DEF Put
<1>2. t % U32 \in 0..(U32 - 1) /\ (t = 0 => t % U32 = 0)
  BY HandlerAssumption
<1>3. /\ out' = out
      /\ \A j \in DOMAIN packet_buffer' :
            \/ packet_buffer'[j] = [id |-> added + 1, type |-> s, pts |-> t % U32]
            \/ \E i \in DOMAIN packet_buffer : packet_buffer'[j] = packet_buffer[i]
      /\ DOMAIN packet_buffer' = 1..(Len(packet_buffer) + 1)
      /\ packet_buffer # <<>> /\ packet_buffer[1].pts <= t % U32
            => packet_buffer'[1] = packet_buffer[1]
  BY <1>1, <1>2, BufferPut
<1>4. ASSUME out = <<>>, headless' = {}
      PROVE  packet_buffer'[1].pts = 0
  <2>1. CASE packet_buffer = <<>>
    <3>1. added = 0 /\ DOMAIN packet_buffer = {} /\ Len(packet_buffer) = 0
      BY <1>4, <2>1, BufferFacts
    <3>2. packet_buffer'[1] = [id |-> added + 1, type |-> s, pts |-> t % U32]
      BY <1>3, <3>1
    <3>3. QED
      BY <1>2, <1>4, <3>1, <3>2
  <2>2. CASE packet_buffer # <<>>
    <3>1. packet_buffer[1].pts = 0
      BY <1>4, <2>2 DEF FileOffset
    <3>2. QED
      BY <1>2, <1>3, <2>2, <3>1
  <2>3. QED
    BY <2>1, <2>2
<1>5. QED
  BY <1>3, <1>4 DEF FileOffset, file
-----------------------------------------------------------------------------
(* A rebase never moves video back, and moves it on by its last timestamp  *)
(* when video itself starts again.                                         *)
LEMMA RebaseForward ==
    ASSUME TypeOK, NEW s \in Stream
    PROVE  /\ Rebased(s) \in [Stream -> Int]
           /\ Rebased(s)["video"] >= tm_offset["video"]
           /\ s = "video" => Rebased(s)["video"] >= tm_offset["video"] + lts["video"]
<1>1. /\ lts["audio"] \in Nat /\ lts["video"] \in Nat
      /\ tm_offset["audio"] \in Int /\ tm_offset["video"] \in Int
      /\ tm_offset \in [Stream -> Int] /\ lts \in [Stream -> Nat]
  BY DEF TypeOK, Stream
<1>2. Shift \in Int
  BY <1>1 DEF Shift, AbsTs
<1> DEFINE aligned == IF Abs(Shift) > ShiftLimit THEN tm_offset
                      ELSE IF Shift > 0 THEN [tm_offset EXCEPT !["video"] = @ + Shift]
                      ELSE [tm_offset EXCEPT !["audio"] = @ + Shift]
<1>3. aligned \in [Stream -> Int] /\ aligned["video"] >= tm_offset["video"]
  <2>1. CASE Abs(Shift) > ShiftLimit
    BY <1>1, <2>1
  <2>2. CASE ~(Abs(Shift) > ShiftLimit) /\ Shift > 0
    <3>1. aligned = [tm_offset EXCEPT !["video"] = @ + Shift]
      BY <2>2
    <3> HIDE DEF aligned
    <3>2. QED
      BY <1>1, <1>2, <2>2, <3>1 DEF Stream
  <2>3. CASE ~(Abs(Shift) > ShiftLimit) /\ ~(Shift > 0)
    <3>1. aligned = [tm_offset EXCEPT !["audio"] = @ + Shift]
      BY <2>3
    <3> HIDE DEF aligned
    <3>2. QED
      BY <1>1, <1>2, <3>1 DEF Stream
  <2>4. QED
    BY <2>1, <2>2, <2>3
<1>4. Rebased(s) = [aligned EXCEPT ![s] = @ + lts[s]]
  BY DEF Rebased
<1> HIDE DEF aligned
<1>5. QED
  BY <1>1, <1>3, <1>4 DEF Stream

(* What both calls do first: a stream starts again only with an encoder's  *)
(* first packet, which is at 0 or belongs to a run that lost its first     *)
(* frame, and its offset makes up for its last timestamp.                  *)
LEMMA EncodedFacts ==
    ASSUME TypeOK, LtsFollows, OffsetsForward, Fresh,
           NEW s \in Stream, NEW ts \in Nat, Encoded(s, ts)
    PROVE  /\ call = Idle
           /\ enc_ts' = [enc_ts EXCEPT ![s] = ts]
           /\ headless \subseteq headless'
           /\ enc_ts[s] = None => ts = 0 \/ Headless(s)'
           /\ NewStream(s, ts) => enc_ts[s] = None
           /\ lts[s] \in Nat /\ Threshold \in Nat
           /\ ~NewStream(s, ts) => ts >= lts[s] - Threshold
           /\ tm_offset' \in [Stream -> Int]
           /\ tm_offset["video"] \in Int
           /\ tm_offset'["video"] \in Int
           /\ tm_offset'["audio"] \in Int
           /\ tm_offset'["video"] >= tm_offset["video"]
           /\ s = "video" /\ NewStream(s, ts) =>
                 tm_offset'["video"] >= tm_offset["video"] + lts["video"]
           /\ back_shift' \in BOOLEAN /\ (back_shift => back_shift')
           /\ OffsetsForward'
           /\ added = 0 => tm_offset' = tm_offset
           /\ added = 0 /\ headless' = {} => ts = 0
<1>1. /\ call = Idle
      /\ ts > enc_ts[s]
      /\ headless' = IF enc_ts[s] = None /\ ts # 0
                     THEN headless \cup {<<s, epoch'[s]>>} ELSE headless
      /\ enc_ts' = [enc_ts EXCEPT ![s] = ts]
      /\ back_shift' = (back_shift \/ OffsetFor(s, ts)["audio"] < tm_offset["audio"])
      /\ tm_offset' = OffsetFor(s, ts)
  BY DEF Encoded
<1>2. /\ lts[s] \in Nat /\ Threshold \in Nat
      /\ tm_offset \in [Stream -> Int]
      /\ tm_offset["video"] \in Int /\ tm_offset["audio"] \in Int
      /\ enc_ts[s] \in Nat \cup {None}
      /\ back_shift \in BOOLEAN
  BY HandlerAssumption DEF TypeOK, Stream
<1>3. NewStream(s, ts) => enc_ts[s] = None
  <2>1. CASE enc_ts[s] = None
    BY <2>1
  <2>2. CASE enc_ts[s] # None
    <3>1. ~InCfg(s)
      BY <1>1 DEF InCfg, Idle
    <3>2. lts[s] = enc_ts[s]
      BY <2>2, <3>1 DEF LtsFollows
    <3>3. QED
      BY <1>1, <1>2, <2>2, <3>2 DEF NewStream
  <2>3. QED
    BY <2>1, <2>2
<1>4. ~NewStream(s, ts) => ts >= lts[s] - Threshold
  BY <1>2 DEF NewStream
<1>5. /\ tm_offset' \in [Stream -> Int]
      /\ tm_offset'["video"] >= tm_offset["video"]
      /\ s = "video" /\ NewStream(s, ts) =>
            tm_offset'["video"] >= tm_offset["video"] + lts["video"]
  BY <1>1, <1>2, RebaseForward DEF OffsetFor
<1>6. tm_offset'["video"] \in Int /\ tm_offset'["audio"] \in Int
  BY <1>5 DEF Stream
<1>7. back_shift' \in BOOLEAN /\ (back_shift => back_shift')
  BY <1>1, <1>2
<1>8. ~back_shift' => tm_offset'["audio"] >= 0
  <2>1. ASSUME ~back_shift'
        PROVE  ~back_shift /\ ~(tm_offset'["audio"] < tm_offset["audio"])
    BY <1>1, <2>1
  <2>2. QED
    BY <1>2, <1>6, <2>1 DEF OffsetsForward
<1>9. tm_offset'["video"] >= 0
  BY <1>2, <1>5, <1>6 DEF OffsetsForward
<1>10. (added = 0 => tm_offset' = tm_offset) /\ (added = 0 /\ headless' = {} => ts = 0)
  <2>1. SUFFICES ASSUME added = 0
                 PROVE  tm_offset' = tm_offset /\ (headless' = {} => ts = 0)
    OBVIOUS
  <2>2. lts[s] = 0 /\ enc_ts[s] = None
    BY <2>1 DEF Fresh
  <2>3. ~NewStream(s, ts)
    BY <1>2, <2>2 DEF NewStream
  <2>4. QED
    BY <1>1, <2>2, <2>3 DEF OffsetFor
<1>11. headless \subseteq headless' /\ (enc_ts[s] = None => ts = 0 \/ Headless(s)')
  BY <1>1 DEF Headless
<1>12. QED
  BY <1>1, <1>2, <1>3, <1>4, <1>5, <1>6, <1>7, <1>8, <1>9, <1>10, <1>11 DEF OffsetsForward
-----------------------------------------------------------------------------
(* send_video keeps the invariant up to its first packet. *)
LEMMA SendVideoInv ==
    ASSUME HInv, NEW ts \in 0..MaxTs, NEW key_frame \in BOOLEAN,
           NEW sps_pps_changed \in BOOLEAN, SendVideo(ts, key_frame, sps_pps_changed)
    PROVE  HInv'
<1> DEFINE cfg == key_frame /\ (NeedCfg("video", ts) \/ sps_pps_changed)
           n == Len(sent)
           t == ts + tm_offset'["video"]
<1>1. /\ Encoded("video", ts)
      /\ ts = 0 => key_frame
      /\ epoch' = [epoch EXCEPT !["video"] = IF NewStream("video", ts) THEN @ + 1 ELSE @]
      /\ call' = [on |-> "video", ts |-> ts, step |-> IF cfg THEN "cfg" ELSE "data"]
      /\ lts' = IF cfg THEN lts ELSE [lts EXCEPT !["video"] = ts]
      /\ Put("video", t, cfg)
      /\ need_cfg' = [need_cfg EXCEPT !["video"] = NeedCfg("video", ts)]
      /\ UNCHANGED <<restarts, file, failed>>
  BY DEF SendVideo
<1>2. /\ TypeOK /\ BufferInv /\ NodesAreSent /\ LtsFollows /\ Configured
      /\ SentConfigFirst /\ LastVideoBounded /\ VideoNeverFarBack
      /\ OffsetsForward /\ WrapsOnlyAfterBackShift /\ Fresh
      /\ FileOffset /\ FileHasStreamTimes
  BY DEF HInv
<1>3. ts \in Nat /\ "video" \in Stream
  BY HandlerAssumption DEF Stream
<1>4. cfg \in BOOLEAN /\ NeedCfg("video", ts) \in BOOLEAN
  BY <1>2, <1>3 DEF NeedCfg, TypeOK
<1>5. /\ call = Idle
      /\ enc_ts' = [enc_ts EXCEPT !["video"] = ts]
      /\ headless \subseteq headless'
      /\ enc_ts["video"] = None => ts = 0 \/ Headless("video")'
      /\ NewStream("video", ts) => enc_ts["video"] = None
      /\ lts["video"] \in Nat /\ Threshold \in Nat
      /\ ~NewStream("video", ts) => ts >= lts["video"] - Threshold
      /\ tm_offset' \in [Stream -> Int]
      /\ tm_offset["video"] \in Int
      /\ tm_offset'["video"] \in Int
      /\ tm_offset'["video"] >= tm_offset["video"]
      /\ NewStream("video", ts) =>
            tm_offset'["video"] >= tm_offset["video"] + lts["video"]
      /\ back_shift' \in BOOLEAN /\ (back_shift => back_shift')
      /\ OffsetsForward'
      /\ added = 0 => tm_offset' = tm_offset
      /\ added = 0 /\ headless' = {} => ts = 0
  BY <1>1, <1>2, <1>3, EncodedFacts
<1>6. epoch' \in [Stream -> Nat] /\ epoch \in [Stream -> Nat]
  BY <1>1, <1>2 DEF TypeOK, Stream
<1>7. t \in Int
  BY <1>3, <1>5
<1>8. sent \in Seq(Packet)
  BY <1>2 DEF TypeOK
<1>9. /\ BufferInv' /\ NodesAreSent'
      /\ sent' \in Seq(Packet)
      /\ n \in Nat /\ DOMAIN sent = 1..n
      /\ Len(sent') = n + 1 /\ DOMAIN sent' = 1..(n + 1)
      /\ \A i \in DOMAIN sent : sent'[i] = sent[i]
      /\ sent'[n + 1] = [type |-> "video", cfg |-> cfg, ts |-> t, epoch |-> epoch'["video"]]
      /\ out' = out /\ added' = added + 1
  <2> HIDE DEF cfg, t
  <2>1. Put("video", t, cfg) /\ BufferInv /\ NodesAreSent
    BY <1>1, <1>2
  <2>2. "video" \in Stream /\ cfg \in BOOLEAN /\ epoch' \in [Stream -> Nat]
    BY <1>3, <1>4, <1>6
  <2>3. QED
    BY <1>7, <1>8, <2>1, <2>2, PutFacts
<1>10. \/ cfg \/ (ConfigSent("video") /\ epoch'["video"] = epoch["video"])
       \/ Headless("video")'
  <2>1. SUFFICES ASSUME ~cfg, ~Headless("video")'
                 PROVE  ConfigSent("video") /\ epoch'["video"] = epoch["video"]
    OBVIOUS
  <2>2. CASE key_frame
    <3>1. ~need_cfg["video"] /\ ~NewStream("video", ts)
      BY <2>1, <2>2 DEF NeedCfg
    <3>2. QED
      BY <1>1, <1>2, <1>6, <3>1 DEF Configured, Stream
  <2>3. CASE ~key_frame
    <3>1. enc_ts["video"] # None /\ ~NewStream("video", ts)
      BY <1>1, <1>5, <2>1, <2>3
    <3>2. epoch'["video"] = epoch["video"] /\ ~Headless("video")
      BY <1>1, <1>5, <1>6, <2>1, <3>1 DEF Headless, Stream
    <3>3. QED
      BY <1>2, <1>3, <3>1, <3>2 DEF Configured
  <2>4. QED
    BY <2>2, <2>3
<1>11. /\ SentConfigFirst' /\ (ConfigSent("video")' \/ Headless("video")')
       /\ cfg => ConfigSent("video")'
       /\ \A u \in Stream : ConfigSent(u) /\ epoch'[u] = epoch[u] => ConfigSent(u)'
  <2> HIDE DEF cfg, t, n
  <2>1. QED
    BY <1>2, <1>3, <1>4, <1>5, <1>9, <1>10, PutConfig
<1>12. Configured'
  <2>1. ASSUME enc_ts'["audio"] # None
        PROVE  ConfigSent("audio")' \/ Headless("audio")'
    <3>1. enc_ts'["audio"] = enc_ts["audio"] /\ epoch'["audio"] = epoch["audio"]
      BY <1>1, <1>2, <1>5 DEF TypeOK, Stream
    <3>2. Headless("audio") => Headless("audio")'
      BY <1>5, <3>1 DEF Headless
    <3>3. QED
      BY <1>2, <1>11, <2>1, <3>1, <3>2 DEF Configured, Stream
  <2>2. ~need_cfg'["video"] => ConfigSent("video")'
    <3>1. SUFFICES ASSUME ~need_cfg'["video"]
                   PROVE  ConfigSent("video")'
      OBVIOUS
    <3>2. ~need_cfg["video"] /\ ~NewStream("video", ts)
      BY <1>1, <1>2, <3>1 DEF NeedCfg, TypeOK, Stream
    <3>3. ConfigSent("video") /\ epoch'["video"] = epoch["video"]
      BY <1>1, <1>2, <1>6, <3>2 DEF Configured, Stream
    <3>4. QED
      BY <1>11, <3>3 DEF Stream
  <2>3. (call.step = "cfg" => ConfigSent(call.on))'
    BY <1>1, <1>11 DEF ConfigSent
  <2>4. QED
    BY <1>11, <2>1, <2>2, <2>3 DEF Configured, Stream
<1>13. LtsFollows'
  <2>1. lts' \in [Stream -> Nat] /\ lts \in [Stream -> Nat] /\ enc_ts \in [Stream -> Nat \cup {None}]
    BY <1>1, <1>2, <1>3 DEF TypeOK
  <2>2. enc_ts'["video"] = ts /\ enc_ts'["audio"] = enc_ts["audio"]
    BY <1>5, <2>1 DEF Stream
  <2>3. ASSUME enc_ts["audio"] # None
        PROVE  lts'["audio"] = enc_ts["audio"]
    <3>1. ~InCfg("audio")
      BY <1>5 DEF InCfg, Idle
    <3>2. QED
      BY <1>1, <1>2, <2>1, <2>3, <3>1 DEF LtsFollows, Stream
  <2>4. ASSUME ~InCfg("video")'
        PROVE  lts'["video"] = ts
    <3>1. ~cfg
      BY <1>1, <2>4 DEF InCfg
    <3>2. QED
      BY <1>1, <2>1, <3>1 DEF Stream
  <2>5. call'.step = "cfg" => enc_ts'[call'.on] = call'.ts
    BY <1>1, <2>2
  <2>6. QED
    BY <2>2, <2>3, <2>4, <2>5 DEF LtsFollows, Stream
<1>14. VideoBound' = t /\ VideoBound = lts["video"] + tm_offset["video"]
  <2>1. ~InCfg("video")
    BY <1>5 DEF InCfg, Idle
  <2>2. CASE cfg
    BY <1>1, <2>1, <2>2 DEF VideoBound, InCfg
  <2>3. CASE ~cfg
    <3>1. lts'["video"] = ts
      BY <1>1, <1>2, <2>3 DEF TypeOK, Stream
    <3>2. QED
      BY <1>1, <2>1, <2>3, <3>1 DEF VideoBound, InCfg
  <2>4. QED
    BY <2>2, <2>3
<1>15. t >= VideoBound - Threshold
  BY <1>3, <1>5, <1>14
<1>16. LastVideoBounded' /\ VideoNeverFarBack'
  <2>1. sent'[n + 1].ts = t
    BY <1>9
  <2>2. VideoBound \in Int /\ VideoBound' \in Int
    BY <1>5, <1>7, <1>14
  <2>3. sent'[n + 1].ts <= VideoBound'
    BY <1>7, <1>14, <2>1
  <2>4. sent'[n + 1].type = "video"
    BY <1>9
  <2> HIDE DEF t, cfg, n
  <2>5. QED
    BY <1>2, <1>8, <1>9, <1>15, <2>1, <2>2, <2>3, <2>4, PutVideo
<1>17. WrapsOnlyAfterBackShift'
  <2>1. ~(t < 0)
    BY <1>2, <1>3, <1>5 DEF OffsetsForward
  <2>2. sent'[n + 1].ts = t
    BY <1>9
  <2> HIDE DEF t, cfg, n
  <2>3. QED
    BY <1>2, <1>5, <1>9, <2>1, <2>2, PutWraps
<1>18. FileOffset'
  <2>1. added = 0 /\ headless' = {} => t = 0
    BY <1>2, <1>3, <1>5 DEF Fresh
  <2> HIDE DEF t, cfg, n
  <2>2. QED
    BY <1>1, <1>2, <1>3, <1>5, <1>7, <2>1, PutFirst
<1>19. FileHasStreamTimes'
  BY <1>1, <1>2, <1>5, <1>9 DEF FileHasStreamTimes, file
<1>20. Fresh'
  BY <1>2, <1>9, BufferFacts DEF Fresh
<1>21. TypeOK'
  BY <1>1, <1>2, <1>3, <1>4, <1>5, <1>6, <1>9 DEF TypeOK, file, Stream
<1>22. QED
  BY <1>5, <1>9, <1>11, <1>12, <1>13, <1>16, <1>17, <1>18, <1>19, <1>20, <1>21 DEF HInv

(* send_audio keeps the invariant up to its first packet. *)
LEMMA SendAudioInv ==
    ASSUME HInv, NEW ts \in 0..MaxTs, SendAudio(ts)
    PROVE  HInv'
<1> DEFINE cfg == ts = 0 \/ NeedCfg("audio", ts)
           n == Len(sent)
           t == ts + tm_offset'["audio"]
<1>1. /\ Encoded("audio", ts)
      /\ epoch' = epoch
      /\ call' = [on |-> "audio", ts |-> ts, step |-> IF cfg THEN "cfg" ELSE "data"]
      /\ lts' = IF cfg THEN lts ELSE [lts EXCEPT !["audio"] = ts]
      /\ Put("audio", t, cfg)
      /\ UNCHANGED <<need_cfg, restarts, file, failed>>
  BY DEF SendAudio
<1>2. /\ TypeOK /\ BufferInv /\ NodesAreSent /\ LtsFollows /\ Configured
      /\ SentConfigFirst /\ LastVideoBounded /\ VideoNeverFarBack
      /\ OffsetsForward /\ WrapsOnlyAfterBackShift /\ Fresh
      /\ FileOffset /\ FileHasStreamTimes
  BY DEF HInv
<1>3. ts \in Nat /\ "audio" \in Stream
  BY HandlerAssumption DEF Stream
<1>4. cfg \in BOOLEAN
  BY <1>2, <1>3 DEF NeedCfg, TypeOK
<1>5. /\ call = Idle
      /\ enc_ts' = [enc_ts EXCEPT !["audio"] = ts]
      /\ headless \subseteq headless'
      /\ enc_ts["audio"] = None => ts = 0 \/ Headless("audio")'
      /\ tm_offset' \in [Stream -> Int]
      /\ tm_offset["video"] \in Int
      /\ tm_offset'["video"] \in Int
      /\ tm_offset'["audio"] \in Int
      /\ tm_offset'["video"] >= tm_offset["video"]
      /\ back_shift' \in BOOLEAN /\ (back_shift => back_shift')
      /\ OffsetsForward'
      /\ added = 0 => tm_offset' = tm_offset
      /\ added = 0 /\ headless' = {} => ts = 0
  BY <1>1, <1>2, <1>3, EncodedFacts
<1>6. epoch' \in [Stream -> Nat] /\ epoch \in [Stream -> Nat]
  BY <1>1, <1>2 DEF TypeOK
<1>7. t \in Int
  BY <1>3, <1>5
<1>8. sent \in Seq(Packet)
  BY <1>2 DEF TypeOK
<1>9. /\ BufferInv' /\ NodesAreSent'
      /\ sent' \in Seq(Packet)
      /\ n \in Nat /\ DOMAIN sent = 1..n
      /\ Len(sent') = n + 1 /\ DOMAIN sent' = 1..(n + 1)
      /\ \A i \in DOMAIN sent : sent'[i] = sent[i]
      /\ sent'[n + 1] = [type |-> "audio", cfg |-> cfg, ts |-> t, epoch |-> epoch'["audio"]]
      /\ out' = out /\ added' = added + 1
  <2> HIDE DEF cfg, t
  <2>1. Put("audio", t, cfg) /\ BufferInv /\ NodesAreSent
    BY <1>1, <1>2
  <2>2. "audio" \in Stream /\ cfg \in BOOLEAN /\ epoch' \in [Stream -> Nat]
    BY <1>3, <1>4, <1>6
  <2>3. QED
    BY <1>7, <1>8, <2>1, <2>2, PutFacts
<1>10. \/ cfg \/ (ConfigSent("audio") /\ epoch'["audio"] = epoch["audio"])
       \/ Headless("audio")'
  <2>1. SUFFICES ASSUME ts # 0, ~Headless("audio")'
                 PROVE  ConfigSent("audio")
    BY <1>1
  <2>2. enc_ts["audio"] # None /\ ~Headless("audio")
    BY <1>1, <1>5, <2>1 DEF Headless
  <2>3. QED
    BY <1>2, <1>3, <2>2 DEF Configured
<1>11. /\ SentConfigFirst' /\ (ConfigSent("audio")' \/ Headless("audio")')
       /\ cfg => ConfigSent("audio")'
       /\ \A u \in Stream : ConfigSent(u) /\ epoch'[u] = epoch[u] => ConfigSent(u)'
  <2> HIDE DEF cfg, t, n
  <2>1. QED
    BY <1>2, <1>3, <1>4, <1>5, <1>9, <1>10, PutConfig
<1>12. Configured'
  <2>1. enc_ts'["video"] = enc_ts["video"]
    BY <1>2, <1>5 DEF TypeOK, Stream
  <2>2. ConfigSent("video") => ConfigSent("video")'
    BY <1>1, <1>11 DEF Stream
  <2>3. Headless("video") => Headless("video")'
    BY <1>1, <1>5 DEF Headless
  <2>4. (call.step = "cfg" => ConfigSent(call.on))'
    BY <1>1, <1>11 DEF ConfigSent
  <2>5. QED
    BY <1>1, <1>2, <1>11, <2>1, <2>2, <2>3, <2>4 DEF Configured, Stream
<1>13. LtsFollows'
  <2>1. lts' \in [Stream -> Nat] /\ lts \in [Stream -> Nat] /\ enc_ts \in [Stream -> Nat \cup {None}]
    BY <1>1, <1>2, <1>3 DEF TypeOK
  <2>2. enc_ts'["audio"] = ts /\ enc_ts'["video"] = enc_ts["video"]
    BY <1>5, <2>1 DEF Stream
  <2>3. ASSUME enc_ts["video"] # None
        PROVE  lts'["video"] = enc_ts["video"]
    <3>1. ~InCfg("video")
      BY <1>5 DEF InCfg, Idle
    <3>2. QED
      BY <1>1, <1>2, <2>1, <2>3, <3>1 DEF LtsFollows, Stream
  <2>4. ASSUME ~InCfg("audio")'
        PROVE  lts'["audio"] = ts
    <3>1. ~cfg
      BY <1>1, <2>4 DEF InCfg
    <3>2. QED
      BY <1>1, <2>1, <3>1 DEF Stream
  <2>5. call'.step = "cfg" => enc_ts'[call'.on] = call'.ts
    BY <1>1, <2>2
  <2>6. QED
    BY <2>2, <2>3, <2>4, <2>5 DEF LtsFollows, Stream
<1>14. /\ VideoBound' = lts["video"] + tm_offset'["video"]
       /\ VideoBound = lts["video"] + tm_offset["video"]
       /\ lts["video"] \in Nat
  <2>1. ~InCfg("video") /\ ~InCfg("video")'
    BY <1>1, <1>5 DEF InCfg, Idle
  <2>2. lts'["video"] = lts["video"] /\ lts["video"] \in Nat
    BY <1>1, <1>2, <1>3 DEF TypeOK, Stream
  <2>3. QED
    BY <2>1, <2>2 DEF VideoBound
<1>15. LastVideoBounded' /\ VideoNeverFarBack'
  <2>1. sent'[n + 1].type = "audio"
    BY <1>9
  <2>2. VideoBound \in Int /\ VideoBound' \in Int /\ VideoBound <= VideoBound'
    BY <1>5, <1>14
  <2>3. IF sent'[n + 1].type = "video" THEN /\ sent'[n + 1].ts >= VideoBound - Threshold
                                            /\ sent'[n + 1].ts <= VideoBound'
        ELSE VideoBound <= VideoBound'
    BY <2>1, <2>2
  <2> HIDE DEF t, cfg, n
  <2>4. QED
    BY <1>2, <1>8, <1>9, <2>2, <2>3, PutVideo
<1>16. WrapsOnlyAfterBackShift'
  <2>1. t < 0 => back_shift'
    BY <1>3, <1>5 DEF OffsetsForward
  <2>2. sent'[n + 1].ts = t /\ sent'[n + 1].type = "audio"
    BY <1>9
  <2> HIDE DEF t, cfg, n
  <2>3. QED
    BY <1>2, <1>5, <1>9, <2>1, <2>2, PutWraps
<1>17. FileOffset'
  <2>1. added = 0 /\ headless' = {} => t = 0
    BY <1>2, <1>3, <1>5 DEF Fresh
  <2> HIDE DEF t, cfg, n
  <2>2. QED
    BY <1>1, <1>2, <1>3, <1>5, <1>7, <2>1, PutFirst
<1>18. FileHasStreamTimes'
  BY <1>1, <1>2, <1>5, <1>9 DEF FileHasStreamTimes, file
<1>19. Fresh'
  BY <1>2, <1>9, BufferFacts DEF Fresh
<1>20. TypeOK'
  BY <1>1, <1>2, <1>3, <1>4, <1>5, <1>6, <1>9 DEF TypeOK, file, Stream
<1>21. QED
  BY <1>5, <1>9, <1>11, <1>12, <1>13, <1>15, <1>16, <1>17, <1>18, <1>19, <1>20 DEF HInv

(* The data packet that follows a configuration keeps the invariant. *)
LEMMA AfterConfigInv ==
    ASSUME HInv, AfterConfig
    PROVE  HInv'
<1>1. call \in [on : Stream, ts : Nat, step : {"cfg", "data"}]
  BY DEF AfterConfig, HInv, TypeOK, Idle
<1>2. PICK s \in Stream : s = call.on
  BY <1>1
<1> DEFINE n == Len(sent)
           t == call.ts + tm_offset[s]
<1>3. /\ call.step = "cfg"
      /\ need_cfg' = [need_cfg EXCEPT ![s] = FALSE]
      /\ lts' = [lts EXCEPT ![s] = call.ts]
      /\ epoch' = epoch
      /\ Put(s, t, FALSE)
      /\ call' = [call EXCEPT !.step = "data"]
      /\ UNCHANGED <<tm_offset, enc_ts, restarts, file, failed, headless, back_shift>>
  BY <1>2 DEF AfterConfig
<1>4. /\ TypeOK /\ BufferInv /\ NodesAreSent /\ LtsFollows /\ Configured
      /\ SentConfigFirst /\ LastVideoBounded /\ VideoNeverFarBack
      /\ OffsetsForward /\ WrapsOnlyAfterBackShift /\ Fresh
      /\ FileOffset /\ FileHasStreamTimes
  BY DEF HInv
<1>5. call.ts \in Nat
  BY <1>1
<1>6. /\ call' \in [on : Stream, ts : Nat, step : {"cfg", "data"}]
      /\ call'.step = "data" /\ call'.on = s
  BY <1>3, <1>1, <1>2
<1>7. /\ tm_offset \in [Stream -> Int] /\ lts \in [Stream -> Nat]
      /\ epoch \in [Stream -> Nat] /\ epoch' \in [Stream -> Nat]
      /\ sent \in Seq(Packet) /\ need_cfg \in [Stream -> BOOLEAN]
  BY <1>3, <1>4 DEF TypeOK
<1>8. t \in Int
  BY <1>5, <1>7
<1>9. enc_ts[s] = call.ts /\ enc_ts[s] # None
  BY <1>3, <1>4, <1>5, <1>2 DEF LtsFollows, None
<1>10. ConfigSent(s) /\ epoch'[s] = epoch[s]
  BY <1>2, <1>3, <1>4 DEF Configured
<1>11. /\ BufferInv' /\ NodesAreSent'
       /\ sent' \in Seq(Packet)
       /\ n \in Nat /\ DOMAIN sent = 1..n
       /\ Len(sent') = n + 1 /\ DOMAIN sent' = 1..(n + 1)
       /\ \A i \in DOMAIN sent : sent'[i] = sent[i]
       /\ sent'[n + 1] = [type |-> s, cfg |-> FALSE, ts |-> t, epoch |-> epoch'[s]]
       /\ out' = out /\ added' = added + 1
  <2> HIDE DEF t
  <2>1. Put(s, t, FALSE) /\ BufferInv /\ NodesAreSent
    BY <1>3, <1>4
  <2>2. epoch' \in [Stream -> Nat] /\ sent \in Seq(Packet)
    BY <1>7
  <2>3. QED
    BY <1>8, <2>1, <2>2, PutFacts
<1>12. /\ SentConfigFirst'
       /\ \A u \in Stream : ConfigSent(u) /\ epoch'[u] = epoch[u] => ConfigSent(u)'
  <2> HIDE DEF t, n
  <2>1. FALSE \/ (ConfigSent(s) /\ epoch'[s] = epoch[s]) \/ Headless(s)'
    BY <1>10
  <2>2. headless \subseteq headless'
    BY <1>3
  <2>3. QED
    BY <1>4, <1>11, <2>1, <2>2, PutConfig
<1>13. Configured'
  <2>1. \A u \in Stream : ConfigSent(u) => ConfigSent(u)'
    BY <1>3, <1>12
  <2>2. ~need_cfg'["video"] => ConfigSent("video")
    BY <1>3, <1>4, <1>7, <1>10 DEF Configured, Stream
  <2>3. \A u \in Stream : Headless(u) => Headless(u)'
    BY <1>3 DEF Headless
  <2>4. QED
    BY <1>3, <1>4, <1>6, <2>1, <2>2, <2>3 DEF Configured, Stream
<1>14. LtsFollows'
  <2>1. \A u \in Stream : enc_ts[u] # None => lts'[u] = enc_ts[u]
    BY <1>3, <1>4, <1>5, <1>7, <1>9, <1>2 DEF LtsFollows, InCfg
  <2>2. QED
    BY <1>3, <1>6, <2>1 DEF LtsFollows
<1>15. /\ VideoBound \in Int /\ VideoBound' = VideoBound
       /\ s = "video" => t = VideoBound
  <2>1. ~InCfg("video")'
    BY <1>6 DEF InCfg
  <2>2. /\ lts["video"] \in Nat /\ tm_offset["video"] \in Int
        /\ s = "video" => lts'["video"] = call.ts
        /\ s # "video" => lts'["video"] = lts["video"]
    BY <1>3, <1>5, <1>7 DEF Stream
  <2>3. InCfg("video") <=> s = "video"
    BY <1>3, <1>2 DEF InCfg
  <2>4. QED
    BY <1>3, <1>5, <2>1, <2>2, <2>3 DEF VideoBound
<1>16. LastVideoBounded' /\ VideoNeverFarBack'
  <2>1. sent'[n + 1].type = s /\ sent'[n + 1].ts = t
    BY <1>11
  <2>2. Threshold \in Nat
    BY HandlerAssumption
  <2>3. IF sent'[n + 1].type = "video" THEN /\ sent'[n + 1].ts >= VideoBound - Threshold
                                            /\ sent'[n + 1].ts <= VideoBound'
        ELSE VideoBound <= VideoBound'
    BY <1>15, <2>1, <2>2
  <2>4. VideoBound' \in Int
    BY <1>15
  <2> HIDE DEF t, n
  <2>5. QED
    BY <1>4, <1>7, <1>11, <1>15, <2>3, <2>4, PutVideo
<1>17. WrapsOnlyAfterBackShift'
  <2>1. t < 0 => s = "audio" /\ back_shift
    BY <1>4, <1>5, <1>7 DEF OffsetsForward, Stream
  <2>2. sent'[n + 1].ts = t /\ sent'[n + 1].type = s
    BY <1>11
  <2> HIDE DEF t, n
  <2>3. QED
    BY <1>3, <1>4, <1>11, <2>1, <2>2, PutWraps
<1>18. FileOffset'
  <2>1. added # 0 /\ headless \subseteq headless'
    BY <1>3, <1>4 DEF Fresh, Idle
  <2> HIDE DEF t, n
  <2>2. QED
    BY <1>3, <1>4, <1>5, <1>8, <2>1, PutFirst
<1>19. FileHasStreamTimes'
  BY <1>3, <1>4, <1>11 DEF FileHasStreamTimes, file
<1>20. Fresh'
  BY <1>4, <1>11, BufferFacts DEF Fresh
<1>21. TypeOK'
  BY <1>3, <1>4, <1>5, <1>6, <1>7, <1>11 DEF TypeOK, file
<1>22. OffsetsForward'
  BY <1>3, <1>4 DEF OffsetsForward
<1>23. QED
  BY <1>11, <1>12, <1>13, <1>14, <1>16, <1>17, <1>18, <1>19, <1>20, <1>21, <1>22 DEF HInv
-----------------------------------------------------------------------------
(* Of two numbers closer than W that differ by a multiple of W, the        *)
(* difference is 0.                                                        *)
LEMMA SmallMultiple ==
    ASSUME NEW W \in Nat \ {0}, NEW q \in Int, NEW r \in Int,
           W * q + r = 0, r > -W, r < W
    PROVE  r = 0
<1>1. CASE q = 0
  BY <1>1
<1>2. CASE q >= 1
  <2>1. W * q >= W
    BY <1>2
  <2>2. QED
    BY <2>1
<1>3. CASE q <= -1
  <2>1. W * q <= -W
    BY <1>3
  <2>2. QED
    BY <2>1
<1>4. QED
  BY <1>1, <1>2, <1>3

(* Quotient and remainder of an integer, which may be negative. *)
LEMMA DivisionFacts ==
    ASSUME NEW a \in Int, NEW W \in Nat \ {0}
    PROVE  /\ a \div W \in Int
           /\ a % W \in 0..(W - 1)
           /\ a = W * (a \div W) + (a % W)
<1>1. W \in Int /\ W > 0
  OBVIOUS
<1>2. a = W * (a \div W) + (a % W)
  BY <1>1, Z3
<1>3. QED
  BY <1>2

(* Subtracting a multiple of W leaves the remainder: the cast of uint32_t  *)
(* to int does not change the 24 bits that write_tag keeps of a time.      *)
LEMMA RemainderOfShifted ==
    ASSUME NEW a \in Int, NEW W \in Nat \ {0}, NEW U \in Int, U % W = 0
    PROVE  (a - U) % W = a % W
<1>1. PICK b \in Int : b = a - U
  OBVIOUS
<1> DEFINE q == a \div W
           u == U \div W
           v == b \div W
           r == a % W
           x == b % W
<1>2. q \in Int /\ r \in 0..(W - 1) /\ a = W * q + r
  BY DivisionFacts
<1>3. u \in Int /\ U = W * u
  <2>1. U = W * u + (U % W) /\ u \in Int
    BY DivisionFacts
  <2>2. W * u \in Int
    BY <2>1
  <2> HIDE DEF u
  <2>3. QED
    BY <2>1, <2>2
<1>4. v \in Int /\ x \in 0..(W - 1) /\ b = W * v + x
  BY DivisionFacts
<1> HIDE DEF q, u, v, r, x
<1> DEFINE m == q - u - v
           d == r - x
<1>5. W * m + d = 0
  BY <1>1, <1>2, <1>3, <1>4
<1>6. m \in Int /\ d \in Int /\ d > -W /\ d < W
  BY <1>2, <1>3, <1>4
<1>7. d = 0
  <2> HIDE DEF m, d
  <2>1. QED
    BY <1>5, <1>6, SmallMultiple
<1>8. QED
  BY <1>1, <1>2, <1>4, <1>7 DEF r, x

(* The ints that write_tag makes of two times are as far apart as these,   *)
(* modulo 2^24; only that of 1 is the negative of the unset offset.        *)
LEMMA IntTimes ==
    ASSUME NEW p \in 0..(U32 - 1), NEW q \in 0..(U32 - 1)
    PROVE  /\ AsInt(p) \in Int /\ AsInt(q) \in Int
           /\ (AsInt(p) - AsInt(q)) % W24 = (p - q) % W24
           /\ q # 1 => -AsInt(q) # -1
<1>1. U32 \in Nat /\ U32 > 1 /\ W24 \in Nat \ {0} /\ U32 % W24 = 0
  BY HandlerAssumption
<1> DEFINE d == p - q
           e == p - q + U32
<1>2. U32 \in Int /\ d \in Int /\ e \in Int
  BY <1>1
<1>3. (d - U32) % W24 = d % W24 /\ (e - U32) % W24 = e % W24
  BY <1>1, <1>2, RemainderOfShifted, Zenon
<1>4. e - U32 = d
  BY <1>1
<1>5. /\ AsInt(p) \in {p, p - U32} /\ AsInt(q) \in {q, q - U32}
      /\ AsInt(p) \in Int /\ AsInt(q) \in Int
      /\ q # 1 => -AsInt(q) # -1
  BY <1>1 DEF AsInt
<1>6. AsInt(p) - AsInt(q) \in {d, d - U32, e}
  BY <1>1, <1>5
<1> HIDE DEF d, e
<1>7. (AsInt(p) - AsInt(q)) % W24 = d % W24
  BY <1>3, <1>4, <1>6
<1>8. QED
  BY <1>5, <1>7 DEF d

(* packet_cb writes every packet to the file at its own time. *)
LEMMA PacketCbInv ==
    ASSUME HInv, NEW ok \in BOOLEAN, PacketCb(ok)
    PROVE  HInv'
<1> DEFINE n == Len(out)
           p == packet_buffer[1].pts
<1>1. /\ J!FlushHead(ok)
      /\ M!write_tag(AsInt(p))
      /\ UNCHANGED <<info, enc_ts, restarts, call, sent, epoch, headless, back_shift>>
  BY DEF PacketCb
<1>2. /\ TypeOK /\ BufferInv /\ NodesAreSent /\ LtsFollows /\ Configured
      /\ SentConfigFirst /\ LastVideoBounded /\ VideoNeverFarBack
      /\ OffsetsForward /\ WrapsOnlyAfterBackShift /\ Fresh
      /\ FileOffset /\ FileHasStreamTimes
  BY DEF HInv
<1>3. /\ BufferInv'
      /\ added' = added
      /\ 1 \in DOMAIN packet_buffer
      /\ \A j \in DOMAIN packet_buffer' :
            /\ j + 1 \in DOMAIN packet_buffer
            /\ packet_buffer'[j] = packet_buffer[j + 1]
      /\ Len(out') = n + 1
      /\ DOMAIN out' = 1..(n + 1)
      /\ \A i \in DOMAIN out : out'[i] = out[i]
      /\ out'[n + 1].id = packet_buffer[1].id
      /\ out'[n + 1].type = packet_buffer[1].type
      /\ out'[n + 1].pts = p
  BY <1>1, <1>2, BufferTake
<1>4. /\ n \in Nat /\ DOMAIN out = 1..n
      /\ out = <<>> <=> n = 0
      /\ packet_buffer # <<>>
      /\ p \in 0..(U32 - 1)
  <2>1. packet_buffer # <<>>
    BY <1>3
  <2>2. QED
    BY <1>2, <1>3, <2>1, BufferFacts
<1>5. /\ m_tm_offset' = IF M!Unset(m_tm_offset) THEN -AsInt(p) ELSE m_tm_offset
      /\ tags' = Append(tags, (AsInt(p) + m_tm_offset') % W24)
  BY <1>1 DEF M!write_tag, M!TagTime
<1> HIDE DEF p
<1> DEFINE q == out'[1].pts
<1>6. q \in 0..(U32 - 1) /\ (n = 0 => q = p) /\ (n # 0 => q = out[1].pts)
  BY <1>2, <1>3, <1>4, BufferFacts
<1> HIDE DEF q
<1>7. /\ AsInt(p) \in Int /\ m_tm_offset' \in Int
      /\ q # 1 => /\ m_tm_offset' = -AsInt(q)
                  /\ (AsInt(p) + m_tm_offset') % W24 = (p - q) % W24
  <2>1. /\ AsInt(p) \in Int /\ AsInt(q) \in Int
        /\ (AsInt(p) - AsInt(q)) % W24 = (p - q) % W24
        /\ q # 1 => -AsInt(q) # -1
    BY <1>4, <1>6, IntTimes
  <2>2. m_tm_offset' \in Int
    BY <1>2, <1>5, <2>1 DEF TypeOK
  <2>3. ASSUME q # 1
        PROVE  m_tm_offset' = -AsInt(q)
    <3>1. CASE n = 0
      <4>1. m_tm_offset = -1
        BY <1>2, <1>4, <3>1 DEF FileOffset
      <4>2. QED
        BY <1>5, <1>6, <3>1, <4>1 DEF M!Unset
    <3>2. CASE n # 0
      <4>1. m_tm_offset = -AsInt(q)
        BY <1>2, <1>4, <1>6, <2>3, <3>2 DEF FileOffset
      <4>2. QED
        BY <1>5, <2>1, <2>3, <4>1 DEF M!Unset
    <3>3. QED
      BY <3>1, <3>2
  <2>4. ASSUME q # 1
        PROVE  AsInt(p) + m_tm_offset' = AsInt(p) - AsInt(q)
    BY <2>1, <2>3, <2>4
  <2>5. QED
    BY <2>1, <2>2, <2>3, <2>4
<1>8. tags \in Seq(Int) /\ Len(tags) = n
  BY <1>2 DEF TypeOK, FileOffset
<1>9. /\ tags' \in Seq(Int) /\ Len(tags') = n + 1
      /\ \A i \in 1..n : tags'[i] = tags[i]
      /\ q # 1 => tags'[n + 1] = (p - q) % W24
  <2> DEFINE x == (AsInt(p) + m_tm_offset') % W24
  <2>1. W24 \in Nat \ {0}
    BY HandlerAssumption
  <2>2. x \in Int
    BY <1>7, <2>1
  <2>3. tags' = Append(tags, x) /\ (q # 1 => x = (p - q) % W24)
    BY <1>5, <1>7
  <2> HIDE DEF x
  <2>4. QED
    BY <1>4, <1>8, <2>2, <2>3
<1> HIDE DEF n
<1>10. out' # <<>>
  BY <1>3, <1>4
<1>11. FileOffset'
  <2>1. m_tm_offset' = -AsInt(q) \/ q = 1
    BY <1>7
  <2>2. headless' = headless /\ (headless = {} => q = 0)
    BY <1>1, <1>2, <1>4, <1>6 DEF FileOffset, p
  <2>3. QED
    BY <1>3, <1>9, <1>10, <2>1, <2>2 DEF FileOffset, q
<1>12. FileHasStreamTimes'
  <2>1. ASSUME NEW i \in DOMAIN out', q # 1
        PROVE  tags'[i] = (out'[i].pts - q) % W24
    <3>1. CASE i \in 1..n
      BY <1>2, <1>3, <1>4, <1>6, <1>9, <2>1, <3>1 DEF FileHasStreamTimes
    <3>2. CASE i = n + 1
      BY <1>3, <1>9, <2>1, <3>2
    <3>3. QED
      BY <1>3, <1>4, <3>1, <3>2
  <2>2. ASSUME NEW i \in DOMAIN out', headless' = {}
        PROVE  tags'[i] = out'[i].pts % W24
    <3>1. q = 0 /\ out'[i].pts \in 0..(U32 - 1)
      <4>1. q = 0
        BY <1>10, <1>11, <2>2 DEF FileOffset, q
      <4>2. CASE i \in 1..n
        BY <1>2, <1>3, <1>4, <4>1, <4>2, BufferFacts
      <4>3. CASE i = n + 1
        BY <1>3, <1>4, <4>1, <4>3
      <4>4. QED
        BY <1>3, <1>4, <4>2, <4>3
    <3>2. out'[i].pts - q = out'[i].pts
      BY <3>1, HandlerAssumption
    <3>3. QED
      BY <2>1, <3>1, <3>2
  <2>3. QED
    BY <2>1, <2>2 DEF FileHasStreamTimes, q
<1>13. sent' = sent /\ lts' = lts /\ tm_offset' = tm_offset /\ need_cfg' = need_cfg
  BY <1>1 DEF info
<1>14. NodesAreSent'
  <2>1. ASSUME NEW j \in DOMAIN packet_buffer'
        PROVE  /\ packet_buffer'[j].type = sent[packet_buffer'[j].id].type
               /\ packet_buffer'[j].pts = sent[packet_buffer'[j].id].ts % U32
    BY <1>2, <1>3 DEF NodesAreSent
  <2>2. ASSUME NEW i \in DOMAIN out'
        PROVE  out'[i].type = sent[out'[i].id].type
    <3>1. CASE i \in 1..n
      BY <1>2, <1>3, <1>4, <3>1 DEF NodesAreSent
    <3>2. CASE i = n + 1
      BY <1>2, <1>3, <3>2 DEF NodesAreSent
    <3>3. QED
      BY <1>3, <1>4, <3>1, <3>2
  <2>3. QED
    BY <1>2, <1>3, <1>13, <2>1, <2>2 DEF NodesAreSent
<1>15. TypeOK'
  BY <1>1, <1>2, <1>7, <1>9, <1>13 DEF TypeOK
<1>16. /\ LtsFollows' /\ Configured' /\ SentConfigFirst'
       /\ OffsetsForward' /\ WrapsOnlyAfterBackShift'
  BY <1>1, <1>2, <1>13 DEF LtsFollows, InCfg, Configured, ConfigSent, Headless,
     SentConfigFirst, OffsetsForward, WrapsOnlyAfterBackShift
<1>17. LastVideoBounded' /\ VideoNeverFarBack'
  BY <1>1, <1>2, <1>13 DEF LastVideoBounded, VideoBound, InCfg, VideoNeverFarBack, IsVideo
<1>18. Fresh'
  BY <1>1, <1>2, <1>3, <1>13 DEF Fresh
<1>19. QED
  BY <1>3, <1>11, <1>12, <1>14, <1>15, <1>16, <1>17, <1>18 DEF HInv

(* Steps that send nothing and take nothing from the list. *)
LEMMA QuietInv ==
    ASSUME HInv,
           \/ \E s \in Stream : Restart(s)
           \/ AfterData \/ AddPacketReturns \/ UNCHANGED vars
    PROVE  HInv'
<1>1. /\ TypeOK /\ BufferInv /\ NodesAreSent /\ LtsFollows /\ Configured
      /\ SentConfigFirst /\ LastVideoBounded /\ VideoNeverFarBack
      /\ OffsetsForward /\ WrapsOnlyAfterBackShift /\ Fresh
      /\ FileOffset /\ FileHasStreamTimes
  BY DEF HInv
<1>2. /\ J!Return \/ UNCHANGED jitter
      /\ UNCHANGED <<info, file, sent, headless, back_shift>>
  BY DEF Restart, AfterData, AddPacketReturns, vars, jitter, info, file
<1>3. BufferInv' /\ UNCHANGED <<packet_buffer, out, added>>
  BY <1>1, <1>2, BufferKept
<1>4. UNCHANGED <<lts, tm_offset, need_cfg, m_tm_offset, tags, sent, headless, back_shift>>
  BY <1>2 DEF info, file
<1>5. /\ NodesAreSent' /\ SentConfigFirst' /\ VideoNeverFarBack'
      /\ OffsetsForward' /\ WrapsOnlyAfterBackShift'
      /\ FileOffset' /\ FileHasStreamTimes'
  BY <1>1, <1>3, <1>4 DEF NodesAreSent, SentConfigFirst, VideoNeverFarBack, IsVideo,
     OffsetsForward, WrapsOnlyAfterBackShift, FileOffset, FileHasStreamTimes
<1>6. CASE \E s \in Stream : Restart(s)
  <2>1. PICK s \in Stream : Restart(s)
    BY <1>6
  <2>2. /\ call = Idle /\ call' = call
        /\ enc_ts[s] # None
        /\ enc_ts' = [enc_ts EXCEPT ![s] = None]
        /\ epoch' = IF s = "audio" THEN [epoch EXCEPT ![s] = @ + 1] ELSE epoch
    BY <2>1 DEF Restart
  <2>3. TypeOK'
    BY <1>1, <1>4, <2>2 DEF TypeOK
  <2>4. LtsFollows' /\ LastVideoBounded'
    BY <1>1, <1>4, <2>2 DEF LtsFollows, LastVideoBounded, VideoBound, InCfg, IsVideo,
       TypeOK, Idle
  <2>5. Configured'
    <3>1. \A u \in Stream : enc_ts'[u] # None => enc_ts[u] # None /\ epoch'[u] = epoch[u]
      BY <1>1, <2>2 DEF TypeOK
    <3>2. epoch'["video"] = epoch["video"]
      BY <1>1, <2>2 DEF TypeOK, Stream
    <3>3. QED
      BY <1>1, <1>4, <2>2, <3>1, <3>2 DEF Configured, ConfigSent, Headless, Idle
  <2>6. Fresh'
    BY <1>1, <1>3, <2>2 DEF Fresh
  <2>7. QED
    BY <1>3, <1>5, <2>3, <2>4, <2>5, <2>6 DEF HInv
<1>7. CASE AfterData
  <2>1. /\ call.step = "data" /\ call' = Idle /\ UNCHANGED <<enc_ts, epoch>>
    BY <1>7 DEF AfterData
  <2>2. TypeOK' /\ Configured' /\ Fresh'
    BY <1>1, <1>3, <1>4, <2>1 DEF TypeOK, Configured, ConfigSent, Headless, Fresh, Idle
  <2>3. LtsFollows' /\ LastVideoBounded'
    BY <1>1, <1>4, <2>1 DEF LtsFollows, LastVideoBounded, VideoBound, InCfg, IsVideo, Idle
  <2>4. QED
    BY <1>3, <1>5, <2>2, <2>3 DEF HInv
<1>8. CASE AddPacketReturns \/ UNCHANGED vars
  <2>1. UNCHANGED <<enc_ts, epoch, call>>
    BY <1>8 DEF AddPacketReturns, vars
  <2>2. TypeOK' /\ Configured' /\ Fresh'
    BY <1>1, <1>3, <1>4, <2>1 DEF TypeOK, Configured, ConfigSent, Headless, Fresh
  <2>3. LtsFollows' /\ LastVideoBounded'
    BY <1>1, <1>4, <2>1 DEF LtsFollows, LastVideoBounded, VideoBound, InCfg, IsVideo
  <2>4. QED
    BY <1>3, <1>5, <2>2, <2>3 DEF HInv
<1>9. QED
  BY <1>6, <1>7, <1>8
-----------------------------------------------------------------------------
(* The handler starts with nothing sent and both offsets at 0. *)
LEMMA HandlerInit == Init => HInv
<1> SUFFICES ASSUME Init PROVE HInv
  OBVIOUS
<1>1. BufferInv /\ packet_buffer = <<>> /\ out = <<>> /\ added = 0
  BY BufferInit DEF Init
<1>2. /\ lts = [s \in Stream |-> 0] /\ tm_offset = [s \in Stream |-> 0]
      /\ need_cfg = [s \in Stream |-> TRUE] /\ enc_ts = [s \in Stream |-> None]
      /\ call = Idle /\ sent = <<>> /\ epoch = [s \in Stream |-> 0]
      /\ headless = {} /\ back_shift = FALSE
      /\ m_tm_offset = -1 /\ tags = <<>>
  BY DEF Init, M!Init
<1>3. TypeOK
  <2>1. /\ lts \in [Stream -> Nat] /\ tm_offset \in [Stream -> Int]
        /\ enc_ts \in [Stream -> Nat \cup {None}] /\ epoch \in [Stream -> Nat]
    BY <1>2
  <2>2. need_cfg \in [Stream -> BOOLEAN] /\ back_shift \in BOOLEAN
    BY <1>2
  <2>3. sent \in Seq(Packet) /\ m_tm_offset \in Int /\ tags \in Seq(Int)
    BY <1>2
  <2>4. QED
    BY <1>2, <2>1, <2>2, <2>3 DEF TypeOK
<1>4. NodesAreSent /\ FileOffset /\ FileHasStreamTimes
  BY <1>1, <1>2 DEF NodesAreSent, FileOffset, FileHasStreamTimes
<1>5. LtsFollows /\ Configured /\ Fresh /\ OffsetsForward
  BY <1>2 DEF LtsFollows, Configured, Fresh, OffsetsForward, InCfg, Idle, Stream
<1>6. /\ SentConfigFirst /\ LastVideoBounded /\ VideoNeverFarBack
      /\ WrapsOnlyAfterBackShift
  BY <1>2 DEF SentConfigFirst, LastVideoBounded, VideoNeverFarBack,
     WrapsOnlyAfterBackShift
<1>7. QED
  BY <1>1, <1>3, <1>4, <1>5, <1>6 DEF HInv

(* Every step keeps the invariant. *)
LEMMA HandlerNext == HInv /\ [Next]_vars => HInv'
<1> SUFFICES ASSUME HInv, [Next]_vars PROVE HInv'
  OBVIOUS
<1>1. ASSUME NEW ts \in 0..MaxTs, SendAudio(ts)
      PROVE  HInv'
  BY <1>1, SendAudioInv
<1>2. ASSUME NEW ts \in 0..MaxTs, NEW key_frame \in BOOLEAN, NEW sps_pps_changed \in BOOLEAN,
             SendVideo(ts, key_frame, sps_pps_changed)
      PROVE  HInv'
  BY <1>2, SendVideoInv
<1>3. CASE AfterConfig
  BY <1>3, AfterConfigInv
<1>4. ASSUME NEW ok \in BOOLEAN, PacketCb(ok)
      PROVE  HInv'
  BY <1>4, PacketCbInv
<1>5. CASE \/ \E s \in Stream : Restart(s)
           \/ AfterData \/ AddPacketReturns \/ UNCHANGED vars
  BY <1>5, QuietInv
<1>6. QED
  BY <1>1, <1>2, <1>3, <1>4, <1>5 DEF Next

(* The invariant holds in every reachable state. *)
THEOREM HandlerInvariance == Spec => []HInv
  BY HandlerInit, HandlerNext, PTL DEF Spec

(* A data packet's configuration was sent before it; it left the list      *)
(* before it, for the list keeps each stream's order.                      *)
LEMMA ConfigFirstInOutput == HInv => ConfigBeforeData
<1> SUFFICES ASSUME HInv, NEW i \in DOMAIN out, ~sent[out[i].id].cfg,
                    <<sent[out[i].id].type, sent[out[i].id].epoch>> \notin headless
             PROVE  \E j \in 1..(i - 1) : /\ sent[out[j].id].cfg
                                          /\ out[j].type = out[i].type
                                          /\ sent[out[j].id].epoch = sent[out[i].id].epoch
  BY DEF ConfigBeforeData
<1>1. BufferInv /\ NodesAreSent /\ SentConfigFirst /\ TypeOK
  BY DEF HInv
<1>2. /\ added \in Nat /\ Len(out) \in Nat /\ DOMAIN out = 1..Len(out)
      /\ \A k \in DOMAIN out : out[k].id \in 1..added
      /\ \A k \in DOMAIN packet_buffer : packet_buffer[k].id \in 1..added
  BY <1>1, BufferFacts
<1>3. DOMAIN sent = 1..added
  BY <1>1 DEF NodesAreSent, TypeOK
<1>4. PICK c \in 1..(out[i].id - 1) : /\ sent[c].cfg
                                      /\ sent[c].type = sent[out[i].id].type
                                      /\ sent[c].epoch = sent[out[i].id].epoch
  BY <1>1, <1>2, <1>3 DEF SentConfigFirst
<1>5. c \in 1..added /\ c < out[i].id /\ out[i].type = sent[out[i].id].type
  BY <1>1, <1>2 DEF NodesAreSent
<1>6. /\ \A k, l \in DOMAIN out : k < l /\ out[k].type = out[l].type => out[k].id < out[l].id
      /\ \A k \in DOMAIN out, l \in DOMAIN packet_buffer :
            out[k].type = packet_buffer[l].type => out[k].id < packet_buffer[l].id
      /\ \A k \in 1..added : \/ \E l \in DOMAIN packet_buffer : packet_buffer[l].id = k
                             \/ \E l \in DOMAIN out : out[l].id = k
  BY <1>1 DEF BufferInv, JP!IInv, JP!StreamFIFO, JP!NoLossNoDuplicate
<1>7. ~\E l \in DOMAIN packet_buffer : packet_buffer[l].id = c
  <2>1. ASSUME NEW l \in DOMAIN packet_buffer, packet_buffer[l].id = c
        PROVE  FALSE
    <3>1. packet_buffer[l].type = out[i].type
      BY <1>1, <1>4, <1>5, <2>1 DEF NodesAreSent
    <3>2. out[i].id < c
      BY <1>6, <2>1, <3>1
    <3>3. QED
      BY <1>2, <1>5, <3>2
  <2>2. QED
    BY <2>1
<1>8. PICK j \in DOMAIN out : out[j].id = c
  BY <1>5, <1>6, <1>7
<1>9. out[j].type = out[i].type
  BY <1>1, <1>4, <1>5, <1>8 DEF NodesAreSent
<1>10. j < i
  <2>1. j # i /\ ~(i < j)
    BY <1>2, <1>5, <1>6, <1>8, <1>9
  <2>2. QED
    BY <1>2, <2>1
<1>11. QED
  BY <1>2, <1>4, <1>8, <1>9, <1>10

(* Whatever is restarted, held back or lost, no data packet reaches        *)
(* packet_cb before the configuration of its encoder run, unless that run  *)
(* lost its first frame.                                                   *)
THEOREM DataConfigured == Spec => []ConfigBeforeData
  BY HandlerInvariance, ConfigFirstInOutput, PTL

(* No rebase sends video back by more than the threshold that an encoder's *)
(* restart must exceed to be noticed.                                      *)
THEOREM VideoForward == Spec => []VideoNeverFarBack
<1>1. HInv => VideoNeverFarBack
  BY DEF HInv
<1>2. QED
  BY <1>1, HandlerInvariance, PTL

(* Only audio times wrap, and only once a rebase moved audio back.         *)
THEOREM WrapsExplained == Spec => []WrapsOnlyAfterBackShift
<1>1. HInv => WrapsOnlyAfterBackShift
  BY DEF HInv
<1>2. QED
  BY <1>1, HandlerInvariance, PTL

(* The file written beside the stream has the stream's times, by those of  *)
(* its first packet; these are 0 while no run has lost its first frame.    *)
THEOREM FileTimes == Spec => []FileHasStreamTimes
<1>1. HInv => FileHasStreamTimes
  BY DEF HInv
<1>2. QED
  BY <1>1, HandlerInvariance, PTL
=============================================================================
