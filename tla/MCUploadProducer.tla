--------------------------- MODULE MCUploadProducer ---------------------------
(* Small instances of UploadProducer.                                          *)
EXTENDS UploadProducer, TLC

CONSTANTS v1, v2, p1, p2
=============================================================================
