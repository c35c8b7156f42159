------------------------- MODULE MCSharedJitterBuffer -------------------------
(* Two threads that send up to MaxPackets packets between them. *)
EXTENDS SharedJitterBuffer

MCPts == 0..2
=============================================================================
