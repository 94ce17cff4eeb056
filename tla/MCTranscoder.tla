----------------------------- MODULE MCTranscoder -----------------------------
(* Small instances of Transcoder.                                              *)
EXTENDS Transcoder, TLC

CONSTANTS h240, h360, index, seg

\* One rung with a segment, and one of which only the playlist is looked at.
OneSegment == (h240 :> {seg}) @@ (h360 :> {})
=============================================================================
