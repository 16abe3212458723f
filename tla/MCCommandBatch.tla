--------------------------- MODULE MCCommandBatch ---------------------------
(***************************************************************************)
(* CommandBatch for model checking: all raw buffers of up to 12 bytes over *)
(* two values, which holds up to three commands, and all batches of up to  *)
(* four added commands, with a uint16_t of 16 values so that they wrap.    *)
(***************************************************************************)
EXTENDS CommandBatch
=============================================================================
