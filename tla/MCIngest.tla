------------------------------- MODULE MCIngest -------------------------------
(* Small instances of Ingest.                                                  *)
EXTENDS Ingest, TLC

CONSTANTS v1, p1, k1, k2

OneOfTwo == (v1 :> 2)  \* one video of two chunks
=============================================================================
