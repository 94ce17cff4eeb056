--------------------------- MODULE MCChunkConsumer ---------------------------
(* A small instance of ChunkConsumer.                                        *)
EXTENDS ChunkConsumer, TLC

CONSTANTS v1, p1, p2, k1, k2

OneOfTwo == (v1 :> 2)                \* one video of two chunks
=============================================================================
