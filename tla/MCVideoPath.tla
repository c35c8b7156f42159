------------------------------ MODULE MCVideoPath ------------------------------
(***************************************************************************)
(* The stages a camera's frame passes on its way to the JitterBuffer that  *)
(* share no state with each other: the choice of frames to encode          *)
(* (FpsControl), the parsing of what the encoder gives (VideoParser), the  *)
(* memory pool of the packet's body (MemPool), and its timestamp           *)
(* (RacingSends).  Their product would only repeat the states of one in    *)
(* those of another: a behaviour is one of a single stage, and leaves the  *)
(* variables of the others as they are.                                    *)
(***************************************************************************)
EXTENDS FpsControl, MemPool, RacingSends, VideoParser

VARIABLE stage      \* the one that runs: "fps", "parser", "pool" or "sends"

(* A rebase is noticed when time falls by more than 1, and streams are     *)
(* aligned when at most 4 apart; timestamps 0..4, one restart each.  Three *)
(* payloads of up to 4 bytes from each thread share the pool.              *)
(*                                                                         *)
(* Units of a few bytes.  The parameter sets differ in a byte or in their  *)
(* length only; a slice holds the zeros x264 may leave in one.             *)
MCSps == {<<103, 0, 1>>, <<103, 0, 2>>, <<103, 0, 1, 2>>}
MCPps == {<<104, 1>>, <<104, 1, 0, 1>>}
MCSei == {<<6, 0, 0, 3>>}
MCSlice == {<<65, 0, 0, 3, 0, 1>>, <<33>>}
-----------------------------------------------------------------------------
(* A stage that does not run stays in one initial state; no frame was fed. *)
FpsOff == FpsInit /\ tgt_fps = 10 /\ orig_fps = 30 /\ get_frame = 0
ParserOff == ParserInit /\ enc = <<<<103, 0, 1>>, <<104, 1>>>>

MCInit ==
    /\ stage \in {"fps", "parser", "pool", "sends"}
    /\ IF stage = "fps" THEN FpsInit ELSE FpsOff
    /\ IF stage = "parser" THEN ParserInit ELSE ParserOff
    /\ PoolInit /\ SendsInit

MCNext ==
    /\ UNCHANGED stage
    /\ \/ stage = "fps" /\ FpsNext /\ UNCHANGED <<parserVars, poolVars, sendsVars>>
       \/ stage = "parser" /\ ParserNext /\ UNCHANGED <<fpsVars, poolVars, sendsVars>>
       \/ stage = "pool" /\ PoolNext /\ UNCHANGED <<fpsVars, parserVars, sendsVars>>
       \/ stage = "sends" /\ SendsNext /\ UNCHANGED <<fpsVars, parserVars, poolVars>>

allvars == <<stage, fpsVars, parserVars, poolVars, sendsVars>>

MCSpec == MCInit /\ [][MCNext]_allvars
-----------------------------------------------------------------------------
(* RateKept and DropsBounded are FpsControl's, FrameFaithful and           *)
(* ConfigCurrent VideoParser's, MisuseNeedsOverlap and                     *)
(* CapacityTrueUnlessTwoGrow MemPool's, FarBackNeedsOverlap and            *)
(* StartsWithinUnlessCrossed RacingSends'.                                 *)
=============================================================================
