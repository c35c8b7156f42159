---------------------------- MODULE MCVideoEncoder ----------------------------
(* One encoder fed at most MaxFrames packets: enough for a queue of several *)
(* packets while one is being encoded and one more is popped.              *)
EXTENDS VideoEncoder
=============================================================================
