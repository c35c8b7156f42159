---------------------------- MODULE MCRtmpHandler ----------------------------
(* Encoder timestamps 0..3, a restart noticed when time falls by more than *)
(* 1, streams aligned when they are at most 2 apart, one restart each.     *)
EXTENDS RtmpHandler
=============================================================================
