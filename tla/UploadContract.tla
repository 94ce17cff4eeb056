---------------------------- MODULE UploadContract ----------------------------
(***************************************************************************)
(* What ingestion promises, without goroutines, partitions or offsets: an  *)
(* upload is accepted with a number of chunks, its chunks reach the topic  *)
(* one by one, and the video is processed only when all of them are there. *)
(***************************************************************************)
EXTENDS Integers

CONSTANT Videos

VARIABLES accepted,   \* uploads answered with 202
          chunkCount, \* how many chunks an accepted upload has
          arrived,    \* per video, the chunks in the topic
          done        \* videos processed

contractVars == <<accepted, chunkCount, arrived, done>>

Init ==
    /\ accepted = {}
    /\ chunkCount = [v \in Videos |-> 0]
    /\ arrived = [v \in Videos |-> {}]
    /\ done = {}

Accept(v) ==
    /\ v \notin accepted
    /\ accepted' = accepted \cup {v}
    /\ chunkCount'[v] \in Nat
    /\ chunkCount' = [chunkCount EXCEPT ![v] = chunkCount'[v]]
    /\ UNCHANGED <<arrived, done>>

Arrive(v) ==
    /\ v \in accepted
    /\ \E i \in 0..(chunkCount[v] - 1) : arrived' = [arrived EXCEPT ![v] = @ \cup {i}]
    /\ UNCHANGED <<accepted, chunkCount, done>>

Process(v) ==
    /\ v \in accepted
    /\ arrived[v] = 0..(chunkCount[v] - 1)
    /\ done' = done \cup {v}
    /\ UNCHANGED <<accepted, chunkCount, arrived>>

Next == \E v \in Videos : Accept(v) \/ Arrive(v) \/ Process(v)

Spec == Init /\ [][Next]_contractVars
=============================================================================
