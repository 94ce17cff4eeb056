---------------------------- MODULE UploadProducer ----------------------------
(***************************************************************************)
(* The gateway's upload path (gateway/internal/api/upload.go): the HTTP    *)
(* handler spools the form file to a temporary file and answers 202, then  *)
(* processFile, a goroutine of its own, cuts the file into chunks and      *)
(* starts one producer goroutine per chunk.  A buffered channel `sem`      *)
(* bounds the producers in flight; processFile waits for them by filling   *)
(* that channel itself and only then lets its deferred os.Remove run.      *)
(*                                                                         *)
(* processFile names the video with a fresh UUID, so a video is identified *)
(* with the upload that made it.  The topic is a log per partition: the    *)
(* LeastBytes balancer ignores the message key, so a chunk may go to any   *)
(* partition.                                                              *)
(***************************************************************************)
EXTENDS Integers, Sequences, FiniteSets

CONSTANTS Uploads,      \* upload requests, and the videos they make
          Partitions,   \* partitions of the topic video-chunks
          SemCap,       \* capacity of the channel sem
          MaxChunks,    \* bound: chunks in a file
          MaxRetries,   \* bound: chunks written to the log a second time
          MaxCrashes    \* bound: crashes of the gateway process

ASSUME ProducerAssumption ==
    /\ SemCap \in Nat \ {0}
    /\ MaxChunks \in Nat
    /\ MaxRetries \in Nat
    /\ MaxCrashes \in Nat

VARIABLES
    handler,   \* UploadFile: "idle", "saving", "refused" (500), "accepted" (202)
    proc,      \* processFile: "none", "reading", "spawning", "done", "failed", "lost"
    size,      \* totalChunks: chunks in the temporary file
    spawned,   \* chunks a producer goroutine was started for
    drained,   \* tokens the final loop of processFile put into sem
    flying,    \* chunks whose producer holds a token of sem
    tmp,       \* uploads whose temporary file is on disk
    log,       \* the topic: per partition, the sequence of records
    failed,    \* history: chunks whose WriteMessages returned an error
    retries,   \* second writes so far
    downs      \* crashes so far

fileVars == <<handler, size, tmp>>
taskVars == <<proc, spawned, drained, flying, failed>>
vars == <<fileVars, taskVars, log, retries, downs>>

\* A record: its headers chunk_index and total_chunks, and as its payload the
\* bytes at position `data` of the file, counted in chunks.
Record == [video : Uploads, idx : Nat, total : Nat, data : Nat]

\* The tokens in the channel sem of upload u.
Tokens(u) == Cardinality(flying[u]) + drained[u]

InLog(u, i) ==
    \E p \in Partitions : \E k \in DOMAIN log[p] :
        log[p][k].video = u /\ log[p][k].idx = i

-----------------------------------------------------------------------------
Init ==
    /\ handler = [u \in Uploads |-> "idle"]
    /\ proc = [u \in Uploads |-> "none"]
    /\ size = [u \in Uploads |-> 0]
    /\ spawned = [u \in Uploads |-> 0]
    /\ drained = [u \in Uploads |-> 0]
    /\ flying = [u \in Uploads |-> {}]
    /\ tmp = {}
    /\ log = [p \in Partitions |-> <<>>]
    /\ failed = [u \in Uploads |-> {}]
    /\ retries = 0
    /\ downs = 0

-----------------------------------------------------------------------------
(* UploadFile.  The refusals before CreateTemp change nothing.             *)

CreateTemp(u) ==
    /\ handler[u] = "idle"
    /\ handler' = [handler EXCEPT ![u] = "saving"]
    /\ tmp' = tmp \cup {u}
    /\ UNCHANGED <<size, taskVars, log, retries, downs>>

\* io.Copy succeeds with n chunks: 202 and go processFile.
Accept(u, n) ==
    /\ handler[u] = "saving"
    /\ handler' = [handler EXCEPT ![u] = "accepted"]
    /\ size' = [size EXCEPT ![u] = n]
    /\ proc' = [proc EXCEPT ![u] = "reading"]
    /\ UNCHANGED <<tmp, spawned, drained, flying, failed, log, retries, downs>>

\* io.Copy fails: 500, and nobody removes the temporary file.
Refuse(u) ==
    /\ handler[u] = "saving"
    /\ handler' = [handler EXCEPT ![u] = "refused"]
    /\ UNCHANGED <<size, tmp, taskVars, log, retries, downs>>

-----------------------------------------------------------------------------
(* processFile.                                                            *)

\* The whole file is read into memory.
ReadChunks(u) ==
    /\ proc[u] = "reading"
    /\ proc' = [proc EXCEPT ![u] = "spawning"]
    /\ UNCHANGED <<fileVars, spawned, drained, flying, failed, log, retries, downs>>

\* os.Open or Read fails: return, the deferred Remove runs, nothing is sent.
ReadFails(u) ==
    /\ proc[u] = "reading"
    /\ proc' = [proc EXCEPT ![u] = "failed"]
    /\ tmp' = tmp \ {u}
    /\ UNCHANGED <<handler, size, spawned, drained, flying, failed, log,
                   retries, downs>>

\* Whether `sem <- struct{}{}` does not block.
SemFree(u) == Tokens(u) < SemCap

\* The range of the loop over the chunks.
InRange(u) == spawned[u] < size[u]
InRangeLate(u) == spawned[u] <= size[u]       \* faulty: one iteration too many

MoreChunks(u) == InRange(u)

\* One iteration of that loop: take a token, start a producer.
Spawn(u) ==
    /\ proc[u] = "spawning"
    /\ MoreChunks(u)
    /\ SemFree(u)
    /\ flying' = [flying EXCEPT ![u] = @ \cup {spawned[u]}]
    /\ spawned' = [spawned EXCEPT ![u] = @ + 1]
    /\ UNCHANGED <<fileVars, proc, drained, failed, log, retries, downs>>

\* One iteration of the final loop: fill sem, token by token.
Drain(u) ==
    /\ proc[u] = "spawning"
    /\ spawned[u] = size[u]
    /\ drained[u] < SemCap
    /\ SemFree(u)
    /\ drained' = [drained EXCEPT ![u] = @ + 1]
    /\ UNCHANGED <<fileVars, proc, spawned, flying, failed, log, retries, downs>>

\* When processFile returns: after cap(sem) tokens of its own.
AllDrained(u) == spawned[u] = size[u] /\ drained[u] = SemCap
AllSpawned(u) == spawned[u] = size[u]         \* faulty: no final loop
DrainedTooMuch(u) == spawned[u] = size[u] /\ drained[u] = SemCap + 1  \* faulty: <= cap

Finished(u) == AllDrained(u)

Return(u) ==
    /\ proc[u] = "spawning"
    /\ Finished(u)
    /\ proc' = [proc EXCEPT ![u] = "done"]
    /\ tmp' = tmp \ {u}
    /\ UNCHANGED <<handler, size, spawned, drained, flying, failed, log,
                   retries, downs>>

-----------------------------------------------------------------------------
(* produceChunk, one goroutine per chunk.                                  *)

\* The record produceChunk builds for chunk i of upload u.
ChunkRecord(u, i) == [video |-> u, idx |-> i, total |-> size[u], data |-> i]
\* faulty: the goroutine reads the variable of the range loop, which is the
\* index of the chunk started last, instead of its argument idx
SharedIndexRecord(u, i) == [ChunkRecord(u, i) EXCEPT !.idx = spawned[u] - 1]

RecordOf(u, i) == ChunkRecord(u, i)

\* The broker appends the chunk.  kafka-go writes it again when it missed
\* the acknowledgement.
Write(u, i, p) ==
    /\ i \in flying[u]
    /\ InLog(u, i) => retries < MaxRetries
    /\ retries' = IF InLog(u, i) THEN retries + 1 ELSE retries
    /\ log' = [log EXCEPT ![p] = Append(@, RecordOf(u, i))]
    /\ UNCHANGED <<fileVars, taskVars, downs>>

\* WriteMessages returns nil; the deferred <-sem gives the token back.
Sent(u, i) ==
    /\ i \in flying[u]
    /\ InLog(u, i)
    /\ flying' = [flying EXCEPT ![u] = @ \ {i}]
    /\ UNCHANGED <<fileVars, proc, spawned, drained, failed, log, retries, downs>>

\* It returns an error after its attempts: the error is only logged.
GiveUp(u, i) ==
    /\ i \in flying[u]
    /\ flying' = [flying EXCEPT ![u] = @ \ {i}]
    /\ failed' = [failed EXCEPT ![u] = @ \cup {i}]
    /\ UNCHANGED <<fileVars, proc, spawned, drained, log, retries, downs>>

-----------------------------------------------------------------------------
\* The gateway dies (or shuts down: server.go does not wait for processFile)
\* and starts again.  Temporary files stay on disk.
Crash ==
    /\ downs < MaxCrashes
    /\ downs' = downs + 1
    /\ handler' = [u \in Uploads |-> IF handler[u] = "saving" THEN "refused"
                                     ELSE handler[u]]
    /\ proc' = [u \in Uploads |-> IF proc[u] \in {"reading", "spawning"}
                                  THEN "lost" ELSE proc[u]]
    /\ flying' = [u \in Uploads |-> {}]
    /\ UNCHANGED <<size, tmp, spawned, drained, failed, log, retries>>

Progress(u) ==
    \/ ReadChunks(u) \/ Spawn(u) \/ Drain(u) \/ Return(u)
    \/ \E i \in flying[u] : Sent(u, i) \/ \E p \in Partitions : Write(u, i, p)

Failure(u) == Refuse(u) \/ ReadFails(u) \/ \E i \in flying[u] : GiveUp(u, i)

Next ==
    \/ \E u \in Uploads : \/ CreateTemp(u)
                          \/ \E n \in 0..MaxChunks : Accept(u, n)
                          \/ Progress(u)
                          \/ Failure(u)
    \/ Crash

Spec == Init /\ [][Next]_vars

(***************************************************************************)
(* Goroutines are scheduled, and a produce request is answered in the end  *)
(* (kafka-go bounds its attempts and its timeouts): it is appended, or it  *)
(* fails.  Clients, read errors and crashes are not fair.                  *)
(***************************************************************************)
Answered(u, i) ==
    Sent(u, i) \/ GiveUp(u, i) \/ \E p \in Partitions : Write(u, i, p)

Fairness ==
    \A u \in Uploads :
        /\ WF_vars(ReadChunks(u) \/ ReadFails(u))
        /\ WF_vars(Spawn(u) \/ Drain(u) \/ Return(u))
        /\ \A i \in 0..(MaxChunks - 1) : WF_vars(Answered(u, i))

FairSpec == Spec /\ Fairness

-----------------------------------------------------------------------------
\* The loops over the chunks and over sem stay within their bounds, and the topic
\* holds records only.
TypeOK ==
    /\ handler \in [Uploads -> {"idle", "saving", "refused", "accepted"}]
    /\ proc \in [Uploads -> {"none", "reading", "spawning", "done", "failed", "lost"}]
    /\ size \in [Uploads -> 0..MaxChunks]
    /\ spawned \in [Uploads -> 0..MaxChunks]
    /\ drained \in [Uploads -> 0..SemCap]
    /\ flying \in [Uploads -> SUBSET Nat]
    /\ tmp \subseteq Uploads
    /\ log \in [Partitions -> Seq(Record)]
    /\ failed \in [Uploads -> SUBSET Nat]
    /\ retries \in 0..MaxRetries
    /\ downs \in 0..MaxCrashes

\* The producers of one upload never outnumber the capacity of sem, not even
\* while the final loop competes with them for tokens.
ProducersBounded == \A u \in Uploads : Tokens(u) <= SemCap

\* upload.go:110 "Wait for all goroutines to finish": once processFile has
\* returned and removed the file, no producer of that upload is running and
\* every chunk was written or reported as failed.
ReturnWaitsForProducers ==
    \A u \in Uploads :
        proc[u] = "done" =>
            /\ flying[u] = {}
            /\ \A i \in 0..(size[u] - 1) : InLog(u, i) \/ i \in failed[u]

\* upload.go:104-107: every record in the topic belongs to an accepted upload,
\* counts the chunks the file really has, and carries the index of the very
\* bytes it holds, however far the loop has run on since its goroutine was
\* started: a consumer that sorts by chunk_index gets the file back.
LogIsTruthful ==
    \A p \in Partitions : \A k \in DOMAIN log[p] :
        LET r == log[p][k] IN
        /\ handler[r.video] = "accepted"
        /\ r.total = size[r.video]
        /\ r.idx < r.total
        /\ r.idx = r.data

\* processFile always returns and takes its temporary file along, whatever
\* becomes of its chunks, unless the process dies: sem never wedges.
AcceptedFileIsRemoved ==
    \A u \in Uploads :
        (handler[u] = "accepted") ~> (u \notin tmp \/ proc[u] = "lost")
=============================================================================
