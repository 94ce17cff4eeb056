------------------------------ MODULE MCDownloads -----------------------------
(* A small instance of Downloads.                                              *)
EXTENDS Downloads, TLC

CONSTANTS f1, f2, clean, explicit, q1, q2, q3

\* Two chunks, the second shorter; one full chunk.
MCSize == (explicit :> 3) @@ (clean :> 2)

\* The frame to find is in the last chunk.
MCExplicit == {<<explicit, 3>>}

Interchangeable == Permutations(Calls) \cup Permutations(Files)
=============================================================================
