----------------------------- MODULE ChunkConsumer -----------------------------
(***************************************************************************)
(* vcodec's Kafka consumer (consume_video_chunks in vcodec/src/            *)
(* processor.rs and save_video in vcodec/src/video.rs).  Each vcodec       *)
(* process is one member of the group video-consumer-group; it collects    *)
(* the chunks of every video in an in-memory map and processes a video,    *)
(* inside its receive loop, when the map holds as many chunks as the       *)
(* record's total_chunks header says.                                      *)
(*                                                                         *)
(* The consumer keeps rdkafka's defaults: an offset is stored when its     *)
(* record is handed to the loop and committed in the background, so a      *)
(* record may be committed before its video is processed.  What the map    *)
(* held is lost with the process.                                          *)
(*                                                                         *)
(* The processing of a video is one busy interval here; Transcoder models  *)
(* what happens inside it.                                                 *)
(***************************************************************************)
EXTENDS Integers, Sequences, FiniteSets

CONSTANTS Videos,         \* video ids, the keys of the records
          Total,          \* number of chunks of each video
          Partitions,     \* partitions of the topic video-chunks
          Consumers,      \* vcodec processes in the group
          None,           \* no video
          MaxDups,        \* bound: records written to the log twice
          MaxRebalances,  \* bound: rebalances of the group
          MaxCrashes      \* bound: crashes of vcodec processes

ASSUME ConsumerAssumption ==
    /\ Total \in [Videos -> Nat \ {0}]
    /\ None \notin Videos
    /\ IsFiniteSet(Consumers)
    /\ MaxDups \in Nat
    /\ MaxRebalances \in Nat
    /\ MaxCrashes \in Nat

VARIABLES
    log,         \* the topic: per partition, the sequence of records
    owner,       \* per partition, the member it is assigned to
    position,    \* per partition, records handed to a receive loop so far
    committed,   \* per partition, the committed offset
    chunks,      \* video_map of each process: indexes received per video
    busy,        \* the video each process is processing, or None
    processed,   \* history: how often each video was processed to the end
    got,         \* history: how often each chunk was handed to a loop
    dups, rebalances, crashes

groupVars == <<owner, position, committed>>
memoryVars == <<chunks, busy>>
historyVars == <<processed, got>>
countVars == <<dups, rebalances, crashes>>
vars == <<log, groupVars, memoryVars, historyVars, countVars>>

Record == [video : Videos, idx : Nat, total : Nat, data : Nat]
Indexes(v) == 0..(Total[v] - 1)

InLog(v, i) ==
    \E p \in Partitions : \E k \in DOMAIN log[p] :
        log[p][k].video = v /\ log[p][k].idx = i

\* What a partition assignor may answer: no member without a partition if
\* there are enough.
Assignments ==
    {f \in [Partitions -> Consumers] :
        Cardinality(Consumers) <= Cardinality(Partitions)
            => \A c \in Consumers : \E p \in Partitions : f[p] = c}

-----------------------------------------------------------------------------
\* The group at its start, reading every partition from its beginning
\* (auto.offset.reset = earliest), with empty maps.
ConsumerInit ==
    /\ owner \in Assignments
    /\ position = [p \in Partitions |-> 0]
    /\ committed = [p \in Partitions |-> 0]
    /\ chunks = [c \in Consumers |-> [v \in Videos |-> {}]]
    /\ busy = [c \in Consumers |-> None]
    /\ processed = [v \in Videos |-> 0]
    /\ got = [v \in Videos |-> [i \in Indexes(v) |-> 0]]
    /\ dups = 0
    /\ rebalances = 0
    /\ crashes = 0

Init == ConsumerInit /\ log = [p \in Partitions |-> <<>>]

\* The gateway: chunk i of v is appended to any partition, perhaps again.
Arrive(v, i, p) ==
    /\ InLog(v, i) => dups < MaxDups
    /\ dups' = IF InLog(v, i) THEN dups + 1 ELSE dups
    /\ log' = [log EXCEPT ![p] =
                  Append(@, [video |-> v, idx |-> i, total |-> Total[v], data |-> i])]
    /\ UNCHANGED <<groupVars, memoryVars, historyVars, rebalances, crashes>>

-----------------------------------------------------------------------------
(* The receive loop.                                                       *)

\* entry.0.insert(index, payload): a HashMap keyed by the chunk index.
InsertKeyed(c, r) == chunks[c][r.video] \cup {r.idx}
InsertCounted(c, r) ==                \* faulty: a list, duplicates counted
    IF r.idx \in chunks[c][r.video] THEN chunks[c][r.video] \cup {r.total + r.idx}
    ELSE chunks[c][r.video] \cup {r.idx}
InsertShifted(c, r) == chunks[c][r.video] \cup {r.idx - 1}  \* faulty: one-based

Inserted(c, r) == InsertKeyed(c, r)

\* entry.0.len() == total
AllReceived(held, r) == Cardinality(held) = r.total
AlmostReceived(held, r) == Cardinality(held) >= r.total - 1  \* faulty: off by one
NeverReceived(held, r) == Cardinality(held) = r.total + 1    \* faulty: off by one

Complete(held, r) == AllReceived(held, r)

\* The loop takes the next record of a partition and starts processing its
\* video when that was the last chunk missing.
Deliver(c, p) ==
    /\ owner[p] = c
    /\ busy[c] = None
    /\ position[p] < Len(log[p])
    /\ LET r == log[p][position[p] + 1]
           held == Inserted(c, r)
       IN  /\ chunks' = [chunks EXCEPT ![c][r.video] = held]
           /\ busy' = [busy EXCEPT ![c] = IF Complete(held, r) THEN r.video ELSE None]
           /\ got' = [got EXCEPT ![r.video][r.idx] = @ + 1]
    /\ position' = [position EXCEPT ![p] = @ + 1]
    /\ UNCHANGED <<log, owner, committed, processed, countVars>>

\* map.remove(&video_id), after both tasks of the video were joined.
Finish(c) ==
    /\ busy[c] # None
    /\ processed' = [processed EXCEPT ![busy[c]] = @ + 1]
    /\ chunks' = [chunks EXCEPT ![c][busy[c]] = {}]
    /\ busy' = [busy EXCEPT ![c] = None]
    /\ UNCHANGED <<log, groupVars, got, countVars>>

-----------------------------------------------------------------------------
(* The group and its faults (rdkafka and the broker).                      *)

\* Background commit of the stored offset, also while a video is processed.
Commit(p) ==
    /\ committed[p] < position[p]
    /\ committed' = [committed EXCEPT ![p] = position[p]]
    /\ UNCHANGED <<log, owner, position, memoryVars, historyVars, countVars>>

\* All partitions are revoked and assigned anew; the stored offsets of those
\* in `saved` are committed in time.  Reading resumes at the committed offset.
Rebalance ==
    /\ rebalances < MaxRebalances
    /\ rebalances' = rebalances + 1
    /\ \E saved \in SUBSET Partitions, f \in Assignments :
          LET resume == [p \in Partitions |-> IF p \in saved THEN position[p]
                                              ELSE committed[p]]
          IN  /\ owner' = f
              /\ position' = resume
              /\ committed' = resume
    /\ UNCHANGED <<log, memoryVars, historyVars, dups, crashes>>

\* A vcodec process dies (panic = "abort") and is started again: its map is
\* empty and its partitions resume at the committed offset.
Crash(c) ==
    /\ crashes < MaxCrashes
    /\ crashes' = crashes + 1
    /\ chunks' = [chunks EXCEPT ![c] = [v \in Videos |-> {}]]
    /\ busy' = [busy EXCEPT ![c] = None]
    /\ position' = [p \in Partitions |-> IF owner[p] = c THEN committed[p]
                                         ELSE position[p]]
    /\ UNCHANGED <<log, owner, committed, historyVars, dups, rebalances>>

-----------------------------------------------------------------------------
Consume == \E c \in Consumers : Finish(c) \/ \E p \in Partitions : Deliver(c, p)
Group == Rebalance \/ \E p \in Partitions : Commit(p)
ConsumerNext == Consume \/ Group \/ \E c \in Consumers : Crash(c)

Next ==
    \/ \E v \in Videos, p \in Partitions : \E i \in Indexes(v) : Arrive(v, i, p)
    \/ ConsumerNext

Spec == Init /\ [][Next]_vars

(***************************************************************************)
(* A process keeps polling every partition it owns, and processing a video *)
(* ends (see Transcoder).  The gateway, commits and faults are not fair.   *)
(***************************************************************************)
Fairness ==
    \A c \in Consumers :
        /\ WF_vars(Finish(c))
        /\ \A p \in Partitions : WF_vars(Deliver(c, p))

FairSpec == Spec /\ Fairness

-----------------------------------------------------------------------------
\* The variables of the group, the maps of its members and the topic keep their
\* types: an index in a map is a chunk number, an offset is a natural number.
TypeOK ==
    /\ log \in [Partitions -> Seq(Record)]
    /\ owner \in [Partitions -> Consumers]
    /\ position \in [Partitions -> Nat]
    /\ committed \in [Partitions -> Nat]
    /\ chunks \in [Consumers -> [Videos -> SUBSET Nat]]
    /\ busy \in [Consumers -> Videos \cup {None}]
    /\ processed \in [Videos -> Nat]
    /\ dups \in 0..MaxDups
    /\ rebalances \in 0..MaxRebalances
    /\ crashes \in 0..MaxCrashes

\* A video is processed only with every one of its chunks at hand: save_video
\* never meets a "Missing chunk", under any duplication, order or rebalance.
ProcessedWhole ==
    \A c \in Consumers : busy[c] # None => chunks[c][busy[c]] = Indexes(busy[c])

\* Processing a video once more takes a further delivery of each of its
\* chunks: a few redelivered chunks never process a video twice.
EveryRunIsPaidFor ==
    \A v \in Videos : \A i \in Indexes(v) :
        processed[v] + Cardinality({c \in Consumers : i \in chunks[c][v]}) <= got[v][i]

\* A video whose chunks are all in the topic is eventually processed.
EveryVideoIsProcessed ==
    \A v \in Videos :
        (\A i \in Indexes(v) : InLog(v, i)) ~> (processed[v] > 0)
=============================================================================
