---------------------------- MODULE MCJitterBuffer ----------------------------
(* The instance of JitterBuffer that TLC checks: two streams, five packets *)
(* with timestamps 0..3 in any order, and a queue that may span 1 unit, so *)
(* that ordinary flushes, forced ones and unsigned wrap all happen.        *)
EXTENDS JitterBuffer

MCPts == 0..3
=============================================================================
