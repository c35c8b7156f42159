---------------------------- MODULE MCAudioEncoder ----------------------------
(* Frames of two units, callbacks that deliver 1 to 3 of them, so that a   *)
(* feed may fall short of a frame or leave a rest; 7/3 ms per frame.       *)
EXTENDS AudioEncoder
=============================================================================
