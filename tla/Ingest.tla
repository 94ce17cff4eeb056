-------------------------------- MODULE Ingest --------------------------------
(***************************************************************************)
(* The gateway's upload path and vcodec's consumer group, composed: they   *)
(* share the log of the Kafka topic video-chunks and nothing else.  A step *)
(* of the system is a step of one of them; the records a producer writes   *)
(* twice are the duplicates the group meets.  The file a client uploads    *)
(* has Total[v] chunks, or none: an empty file is accepted like any other. *)
(***************************************************************************)
EXTENDS ChunkConsumer

CONSTANTS SemCap,
          MaxTotal,  \* bound: chunks of a video
          MaxDowns   \* bound: crashes of the gateway

ASSUME IngestAssumption ==
    /\ SemCap \in Nat \ {0}
    /\ MaxTotal \in Nat /\ \A v \in Videos : Total[v] <= MaxTotal
    /\ MaxDowns \in Nat

VARIABLES handler, proc, size, spawned, drained, flying, tmp, failed, downs

P == INSTANCE UploadProducer WITH Uploads <- Videos, MaxChunks <- MaxTotal,
                                  MaxRetries <- MaxDups, retries <- dups,
                                  MaxCrashes <- MaxDowns

producerVars == <<handler, proc, size, spawned, drained, flying, tmp, failed, downs>>
consumerVars == <<groupVars, memoryVars, historyVars, rebalances, crashes>>
ingestVars == <<producerVars, log, dups, consumerVars>>

IngestInit == P!Init /\ ConsumerInit

Gateway ==
    /\ \/ \E u \in Videos : \/ P!CreateTemp(u)
                            \/ \E n \in {0, Total[u]} : P!Accept(u, n)
                            \/ P!Progress(u)
                            \/ P!Failure(u)
       \/ P!Crash
    /\ UNCHANGED consumerVars

Vcodec == ConsumerNext /\ UNCHANGED producerVars

IngestNext == Gateway \/ Vcodec

IngestSpec == IngestInit /\ [][IngestNext]_ingestVars

FairIngestSpec == IngestSpec /\ P!Fairness /\ Fairness

-----------------------------------------------------------------------------
\* What the topic holds of each video.
Arrived == [v \in Videos |-> {i \in 0..(size[v] - 1) : InLog(v, i)}]

Contract == INSTANCE UploadContract
    WITH accepted <- {v \in Videos : handler[v] = "accepted"},
         chunkCount <- size,
         arrived <- Arrived,
         done <- {v \in Videos : processed[v] > 0}

\* The gateway and the consumer group together implement UploadContract: no
\* retry, reordering, rebalance or crash of either side makes vcodec process a
\* video that was not accepted or not completely in the topic.
ImplementsContract == Contract!Spec

\* A chunk the group will not read again although no map holds it: a crash took
\* it from a map after its offset had been committed.
Forgotten(v, i) ==
    /\ InLog(v, i)
    /\ \A c \in Consumers : i \notin chunks[c][v]
    /\ \A p \in Partitions : \A k \in DOMAIN log[p] :
          log[p][k].video = v /\ log[p][k].idx = i => k <= committed[p]

\* A chunk that will not get into the topic: its write was given up, or the
\* process that had to write it returned early or died.
NeverWritten(v, i) ==
    /\ ~InLog(v, i)
    /\ i \in failed[v] \/ proc[v] \in {"lost", "failed"}

\* Two members of the group each hold chunks of the video.
Divided(v) == \E c, d \in Consumers : chunks[c][v] # {} /\ chunks[d][v] # {} /\ c # d

\* A 202 for a file with content is kept: the video is processed, unless a chunk
\* of it never reached the topic, vcodec crashed after committing the offset of
\* one, or its chunks are divided over the maps of two processes.  Nothing else
\* loses an upload: no second write, no write reported as failed that was
\* appended all the same, no gateway that dies after its last write, no crash of
\* vcodec before the commit and no rebalance within a video that its old owner
\* had not begun.
AcceptedIsProcessed ==
    \A v \in Videos :
        (handler[v] = "accepted" /\ size[v] > 0)
            ~> \/ processed[v] > 0
               \/ Divided(v)
               \/ \E i \in 0..(size[v] - 1) :
                     NeverWritten(v, i) \/ (crashes > 0 /\ Forgotten(v, i))
=============================================================================
