----------------------------- MODULE MCVideoStore -----------------------------
(* Small instances of VideoStore.                                              *)
EXTENDS VideoStore, TLC

CONSTANTS v1, v2, d1, d2, q1, q2, q3, q4, u1, u2

\* Two videos are two users'.
MCOwner == [v \in Videos |-> IF v = v1 THEN u1 ELSE u2]

\* Calls and fresh ids are interchangeable.
Interchangeable == Permutations(Requests) \cup Permutations(RowIds)
=============================================================================
