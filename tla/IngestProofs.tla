------------------------------ MODULE IngestProofs ------------------------------
(***************************************************************************)
(* The consumer group, and its composition with the gateway, for any       *)
(* number of processes, partitions and videos, any number of chunks per    *)
(* video, and any sequence of duplicates, rebalances and crashes.          *)
(*                                                                         *)
(* Of the group: that a video is only processed whole rests on the headers *)
(* in the topic being right (Truthful) and on a map holding nothing but    *)
(* chunk numbers of its video (Inside): the code compares COUNTS, and a    *)
(* set of chunk numbers with as many elements as there are chunks is the   *)
(* set of all of them.                                                     *)
(*                                                                         *)
(* Of the composition: the gateway is an environment the group can trust   *)
(* (GatewayFeedsTheGroup), so what is proved of the group holds in it, and *)
(* with what the gateway says of its uploads (Uploading, Sourced) the two  *)
(* implement UploadContract.                                               *)
(***************************************************************************)
EXTENDS Ingest, FiniteSetTheorems, TLAPS

-----------------------------------------------------------------------------
(* The consumer group.                                                     *)

Truthful ==
    \A p \in Partitions : \A k \in DOMAIN log[p] :
        /\ log[p][k].total = Total[log[p][k].video]
        /\ log[p][k].idx \in Indexes(log[p][k].video)

Inside == \A c \in Consumers, v \in Videos : chunks[c][v] \subseteq Indexes(v)

\* A video's chunk numbers are as many as its chunks.
LEMMA IndexesCount ==
    ASSUME NEW v \in Videos
    PROVE  /\ IsFiniteSet(Indexes(v))
           /\ Cardinality(Indexes(v)) = Total[v]
           /\ Indexes(v) \subseteq Nat
<1>1. Total[v] \in Nat \ {0}
  BY ConsumerAssumption
<1>2. 0 \in Int /\ Total[v] - 1 \in Int
  BY <1>1
<1>3. /\ IsFiniteSet(0..(Total[v] - 1))
      /\ Cardinality(0..(Total[v] - 1)) = IF 0 > Total[v] - 1 THEN 0 ELSE (Total[v] - 1) - 0 + 1
  BY <1>2, FS_Interval, Zenon
<1>4. Indexes(v) \subseteq Nat
  BY <1>1 DEF Indexes
<1> QED
  BY <1>1, <1>3, <1>4 DEF Indexes

\* The next record of a partition that has one is a record of the topic.
LEMMA NextRecord ==
    ASSUME TypeOK, NEW p \in Partitions, position[p] < Len(log[p])
    PROVE  /\ position[p] + 1 \in DOMAIN log[p]
           /\ log[p][position[p] + 1] \in Record
  BY DEF TypeOK

\* The type invariant of the group, the maps and the topic.
THEOREM TypeSafety == Spec => []TypeOK
<1> USE ConsumerAssumption
<1>1. Init => TypeOK
  <2> SUFFICES ASSUME Init PROVE TypeOK
    OBVIOUS
  <2>1. <<>> \in Seq(Record)
    OBVIOUS
  <2>2. [c \in Consumers |-> [v \in Videos |-> {}]]
            \in [Consumers -> [Videos -> SUBSET Nat]]
    OBVIOUS
  <2>3. owner \in [Partitions -> Consumers]
    BY DEF Init, ConsumerInit, Assignments
  <2> QED
    BY <2>1, <2>2, <2>3 DEF Init, ConsumerInit, TypeOK
<1>2. TypeOK /\ [Next]_vars => TypeOK'
  <2> SUFFICES ASSUME TypeOK, [Next]_vars PROVE TypeOK'
    OBVIOUS
  <2> USE DEF groupVars, memoryVars, historyVars, countVars
  <2>1. ASSUME NEW v \in Videos, NEW p \in Partitions, NEW i \in Indexes(v),
               Arrive(v, i, p)
        PROVE  TypeOK'
    <3>1. [video |-> v, idx |-> i, total |-> Total[v], data |-> i] \in Record
      BY IndexesCount DEF Record
    <3>2. log' \in [Partitions -> Seq(Record)]
      BY <2>1, <3>1 DEF Arrive, TypeOK
    <3>3. dups' \in 0..MaxDups
      BY <2>1 DEF Arrive, TypeOK
    <3> QED
      BY <2>1, <3>2, <3>3 DEF Arrive, TypeOK
  <2>2. ASSUME NEW c \in Consumers, NEW p \in Partitions, Deliver(c, p)
        PROVE  TypeOK'
    <3> DEFINE r == log[p][position[p] + 1]
               held == chunks[c][r.video] \cup {r.idx}
    <3>1. r \in Record
      BY <2>2, NextRecord DEF Deliver
    <3>2. held \in SUBSET Nat /\ r.video \in Videos
      BY SMTT(30), <3>1 DEF TypeOK, Record
    <3>3. /\ chunks' = [chunks EXCEPT ![c][r.video] = held]
          /\ busy' \in {[busy EXCEPT ![c] = r.video], [busy EXCEPT ![c] = None]}
          /\ position' = [position EXCEPT ![p] = @ + 1]
          /\ UNCHANGED <<log, owner, committed, processed, countVars>>
      BY <2>2 DEF Deliver, Inserted, InsertKeyed
    <3> HIDE DEF r, held
    <3>4. chunks' \in [Consumers -> [Videos -> SUBSET Nat]]
      <4>1. [chunks[c] EXCEPT ![r.video] = held] \in [Videos -> SUBSET Nat]
        BY <3>2 DEF TypeOK
      <4> QED
        BY <3>3, <4>1 DEF TypeOK
    <3>5. busy' \in [Consumers -> Videos \cup {None}]
      BY <3>2, <3>3 DEF TypeOK
    <3>6. position' \in [Partitions -> Nat]
      BY <3>3 DEF TypeOK
    <3> QED
      BY <3>3, <3>4, <3>5, <3>6 DEF TypeOK
  <2>3. ASSUME NEW c \in Consumers, Finish(c) PROVE TypeOK'
    <3>1. busy[c] \in Videos
      BY <2>3 DEF Finish, TypeOK
    <3> QED
      BY <2>3, <3>1 DEF Finish, TypeOK
  <2>4. ASSUME NEW p \in Partitions, Commit(p) PROVE TypeOK'
    BY <2>4 DEF Commit, TypeOK
  <2>5. CASE Rebalance
    BY <2>5 DEF Rebalance, Assignments, TypeOK
  <2>6. ASSUME NEW c \in Consumers, Crash(c) PROVE TypeOK'
    BY <2>6 DEF Crash, TypeOK
  <2>7. CASE UNCHANGED vars
    BY <2>7 DEF vars, TypeOK
  <2> QED
    BY <2>1, <2>2, <2>3, <2>4, <2>5, <2>6, <2>7
       DEF Next, ConsumerNext, Consume, Group
<1> QED
  BY <1>1, <1>2, PTL DEF Spec

Whole == Truthful /\ Inside /\ ProcessedWhole

\* What Deliver does, with the record it takes and the chunks it then holds.
LEMMA DeliverEffect ==
    ASSUME TypeOK, Truthful, Inside,
           NEW c \in Consumers, NEW p \in Partitions, Deliver(c, p)
    PROVE  \E v \in Videos : \E i \in Indexes(v) :
              LET held == chunks[c][v] \cup {i} IN
              /\ busy[c] = None
              /\ chunks' = [chunks EXCEPT ![c][v] = held]
              /\ busy' = [busy EXCEPT ![c] = IF held = Indexes(v) THEN v ELSE None]
              /\ got' = [got EXCEPT ![v][i] = @ + 1]
              /\ UNCHANGED <<log, processed>>
<1> DEFINE r == log[p][position[p] + 1]
           v == r.video
           i == r.idx
           held == chunks[c][v] \cup {i}
<1>1. position[p] + 1 \in DOMAIN log[p] /\ r \in Record
  BY NextRecord DEF Deliver
<1>2. v \in Videos
  BY <1>1 DEF Record
<1>3. i \in Indexes(v) /\ r.total = Total[v]
  BY <1>1 DEF Truthful
<1>4. held \subseteq Indexes(v)
  BY <1>2, <1>3 DEF Inside
<1>5. IsFiniteSet(Indexes(v)) /\ Cardinality(Indexes(v)) = Total[v]
  BY <1>2, IndexesCount
<1>6. Cardinality(held) = Total[v] <=> held = Indexes(v)
  BY <1>4, <1>5, FS_Subset
<1>7. /\ busy[c] = None
      /\ chunks' = [chunks EXCEPT ![c][v] = held]
      /\ busy' = [busy EXCEPT ![c] = IF Cardinality(held) = r.total THEN v ELSE None]
      /\ got' = [got EXCEPT ![v][i] = @ + 1]
      /\ UNCHANGED <<log, processed>>
  BY DEF Deliver, Inserted, InsertKeyed, Complete, AllReceived
<1>8. busy' = [busy EXCEPT ![c] = IF held = Indexes(v) THEN v ELSE None]
  BY <1>3, <1>6, <1>7
<1> HIDE DEF r
<1> QED
  BY <1>2, <1>3, <1>7, <1>8

LEMMA WholeInvariant == Spec => []Whole
<1> USE ConsumerAssumption DEF Whole
<1>1. Init => Whole
  BY DEF Init, ConsumerInit, Truthful, Inside, ProcessedWhole
<1>2. TypeOK /\ Whole /\ [Next]_vars => Whole'
  <2> SUFFICES ASSUME TypeOK, Whole, [Next]_vars PROVE Whole'
    OBVIOUS
  <2>a. ASSUME UNCHANGED log PROVE Truthful'
    BY <2>a DEF Truthful
  <2>b. ASSUME UNCHANGED <<log, memoryVars>> PROVE Whole'
    BY <2>a, <2>b DEF Inside, ProcessedWhole, memoryVars
  <2>1. ASSUME NEW v \in Videos, NEW p \in Partitions, NEW i \in Indexes(v),
               Arrive(v, i, p)
        PROVE  Whole'
    <3> DEFINE r == [video |-> v, idx |-> i, total |-> Total[v], data |-> i]
    <3>1. log' = [log EXCEPT ![p] = Append(@, r)] /\ UNCHANGED <<chunks, busy>>
      BY <2>1 DEF Arrive, memoryVars
    <3>2. r.total = Total[r.video] /\ r.idx \in Indexes(r.video)
      OBVIOUS
    <3>3. \A k \in DOMAIN Append(log[p], r) :
             \/ k \in DOMAIN log[p] /\ Append(log[p], r)[k] = log[p][k]
             \/ Append(log[p], r)[k] = r
      <4>1. r \in Record
        BY IndexesCount DEF Record
      <4> HIDE DEF r
      <4> QED
        BY <4>1 DEF TypeOK
    <3> HIDE DEF r
    <3>4. \A q \in Partitions : log'[q] = IF q = p THEN Append(log[p], r) ELSE log[q]
      BY <3>1 DEF TypeOK
    <3>5. Truthful'
      <4> SUFFICES ASSUME NEW q \in Partitions, NEW k \in DOMAIN log'[q]
                   PROVE  /\ log'[q][k].total = Total[log'[q][k].video]
                          /\ log'[q][k].idx \in Indexes(log'[q][k].video)
        BY DEF Truthful, Indexes
      <4>1. (k \in DOMAIN log[q] /\ log'[q][k] = log[q][k]) \/ log'[q][k] = r
        BY <3>3, <3>4
      <4> QED
        BY <4>1, <3>2 DEF Truthful
    <3> QED
      BY <3>1, <3>5 DEF Inside, ProcessedWhole
  <2>2. ASSUME NEW c \in Consumers, NEW p \in Partitions, Deliver(c, p)
        PROVE  Whole'
    <3>0. PICK v \in Videos : \E i \in Indexes(v) :
              LET held == chunks[c][v] \cup {i} IN
              /\ busy[c] = None
              /\ chunks' = [chunks EXCEPT ![c][v] = held]
              /\ busy' = [busy EXCEPT ![c] = IF held = Indexes(v) THEN v ELSE None]
              /\ UNCHANGED <<log, processed>>
      BY <2>2, DeliverEffect
    <3>1. PICK i \in Indexes(v) :
              LET held == chunks[c][v] \cup {i} IN
              /\ busy[c] = None
              /\ chunks' = [chunks EXCEPT ![c][v] = held]
              /\ busy' = [busy EXCEPT ![c] = IF held = Indexes(v) THEN v ELSE None]
              /\ UNCHANGED <<log, processed>>
      BY <3>0
    <3>2. \A d \in Consumers, w \in Videos :
              chunks'[d][w] = IF d = c /\ w = v THEN chunks[c][v] \cup {i}
                              ELSE chunks[d][w]
      BY <3>1 DEF TypeOK
    <3>3. \A d \in Consumers : d # c => busy'[d] = busy[d]
      BY <3>1 DEF TypeOK
    <3>4. busy'[c] = None \/ (busy'[c] = v /\ chunks'[c][v] = Indexes(v))
      BY <3>1, <3>2 DEF TypeOK
    <3>5. Inside'
      BY <3>2 DEF Inside, Indexes
    <3>6. ProcessedWhole'
      <4> SUFFICES ASSUME NEW d \in Consumers, busy'[d] # None
                   PROVE  chunks'[d][busy'[d]] = Indexes(busy'[d])
        BY DEF ProcessedWhole, Indexes
      <4>1. CASE d = c
        BY <3>4, <4>1
      <4>2. CASE d # c
        <5>1. busy'[d] = busy[d] /\ busy[d] \in Videos /\ chunks[d][busy[d]] = Indexes(busy[d])
          BY <3>3, <4>2 DEF ProcessedWhole, TypeOK
        <5> QED
          BY <3>2, <4>2, <5>1
      <4> QED
        BY <4>1, <4>2
    <3> QED
      BY <2>a, <3>1, <3>5, <3>6
  <2>3. ASSUME NEW c \in Consumers, Finish(c) PROVE Whole'
    <3>1. /\ UNCHANGED log
          /\ busy[c] \in Videos
          /\ busy' = [busy EXCEPT ![c] = None]
          /\ chunks' = [chunks EXCEPT ![c][busy[c]] = {}]
      BY <2>3 DEF Finish, TypeOK
    <3>2. \A d \in Consumers, w \in Videos :
              chunks'[d][w] = IF d = c /\ w = busy[c] THEN {} ELSE chunks[d][w]
      BY <3>1 DEF TypeOK
    <3>3. Inside'
      BY <3>2 DEF Inside, Indexes
    <3>4. ProcessedWhole'
      BY <3>1, <3>2 DEF ProcessedWhole, TypeOK, Indexes
    <3> QED
      BY <2>a, <3>1, <3>3, <3>4
  <2>4. ASSUME NEW p \in Partitions, Commit(p) PROVE Whole'
    BY <2>4, <2>b DEF Commit
  <2>5. CASE Rebalance
    BY <2>5, <2>b DEF Rebalance
  <2>6. ASSUME NEW c \in Consumers, Crash(c) PROVE Whole'
    BY <2>6, <2>a DEF Crash, Inside, ProcessedWhole, TypeOK
  <2>7. CASE UNCHANGED vars
    BY <2>7, <2>b DEF vars
  <2> QED
    BY <2>1, <2>2, <2>3, <2>4, <2>5, <2>6, <2>7
       DEF Next, ConsumerNext, Consume, Group
<1> QED
  BY <1>1, <1>2, TypeSafety, PTL DEF Spec

\* A video is processed only with every one of its chunks at hand, whatever was
\* duplicated, reordered, reassigned or lost with a process.
THEOREM OnlyWholeVideos == Spec => []ProcessedWhole
  BY WholeInvariant, PTL DEF Whole

\* The processes whose map `held` has chunk i of v.
Holders(held, v, i) == {c \in Consumers : i \in held[c][v]}

\* `got` counts the deliveries of each chunk of each video.
GotTyped ==
    /\ DOMAIN got = Videos
    /\ \A v \in Videos : got[v] \in [Indexes(v) -> Nat]

\* Only finitely many processes can hold a chunk.
LEMMA HoldersCount ==
    ASSUME NEW H \in SUBSET Consumers
    PROVE  IsFiniteSet(H) /\ Cardinality(H) \in Nat
  BY ConsumerAssumption, FS_Subset, FS_CardinalityType

\* Every delivery of a chunk pays for one copy of it in one map, and a run
\* consumes the copy of each chunk of its video: a few redelivered chunks never
\* make a video be processed again.
THEOREM RunsArePaidFor == Spec => []EveryRunIsPaidFor
<1> DEFINE IInv == GotTyped /\ EveryRunIsPaidFor
<1> USE ConsumerAssumption
<1>1. Init => IInv
  <2> SUFFICES ASSUME Init PROVE IInv
    OBVIOUS
  <2>1. \A v \in Videos : \A i \in Indexes(v) : Holders(chunks, v, i) = {}
    BY DEF Init, ConsumerInit, Holders
  <2>2. GotTyped
    BY DEF Init, ConsumerInit, GotTyped
  <2>3. \A v \in Videos : \A i \in Indexes(v) :
            processed[v] = 0 /\ got[v][i] = 0 /\ Cardinality(Holders(chunks, v, i)) = 0
    BY <2>1, FS_EmptySet DEF Init, ConsumerInit
  <2> QED
    BY <2>2, <2>3 DEF EveryRunIsPaidFor, Holders
<1>2. TypeOK /\ Whole /\ IInv /\ [Next]_vars => IInv'
  <2> SUFFICES ASSUME TypeOK, Whole, IInv, [Next]_vars PROVE IInv'
    OBVIOUS
  <2>0. \A v \in Videos : processed[v] \in Nat /\ \A i \in Indexes(v) :
            /\ got[v][i] \in Nat
            /\ Cardinality(Holders(chunks, v, i)) \in Nat
            /\ processed[v] + Cardinality(Holders(chunks, v, i)) <= got[v][i]
    BY HoldersCount DEF TypeOK, GotTyped, EveryRunIsPaidFor, Holders
  <2>a. ASSUME UNCHANGED <<chunks, processed, got>> PROVE IInv'
    BY <2>a DEF GotTyped, EveryRunIsPaidFor, Indexes
  <2>b. ASSUME \A v \in Videos : \A i \in Indexes(v) :
                   processed'[v] + Cardinality(Holders(chunks', v, i)) <= got'[v][i]
        PROVE  EveryRunIsPaidFor'
    BY <2>b DEF EveryRunIsPaidFor, Holders, Indexes
  <2>1. ASSUME NEW c \in Consumers, NEW p \in Partitions, Deliver(c, p) PROVE IInv'
    <3>0. PICK v \in Videos : \E i \in Indexes(v) :
              /\ chunks' = [chunks EXCEPT ![c][v] = chunks[c][v] \cup {i}]
              /\ got' = [got EXCEPT ![v][i] = @ + 1]
              /\ UNCHANGED processed
      BY <2>1, DeliverEffect DEF Whole
    <3>1. PICK i \in Indexes(v) :
              /\ chunks' = [chunks EXCEPT ![c][v] = chunks[c][v] \cup {i}]
              /\ got' = [got EXCEPT ![v][i] = @ + 1]
              /\ UNCHANGED processed
      BY <3>0
    <3>2. \A d \in Consumers, w \in Videos :
              chunks'[d][w] = IF d = c /\ w = v THEN chunks[d][w] \cup {i}
                              ELSE chunks[d][w]
      BY <3>1 DEF TypeOK
    <3>a. /\ DOMAIN got' = Videos
          /\ \A w \in Videos : got'[w] = IF w = v THEN [got[v] EXCEPT ![i] = @ + 1]
                                         ELSE got[w]
      BY <3>1 DEF GotTyped
    <3>b. got[v] \in [Indexes(v) -> Nat] /\ got[v][i] + 1 \in Nat
      BY <2>0 DEF GotTyped
    <3>c. [got[v] EXCEPT ![i] = @ + 1] \in [Indexes(v) -> Nat]
      BY <3>b
    <3>d. \A w \in Videos : got'[w] \in [Indexes(w) -> Nat]
      BY <3>a, <3>c DEF GotTyped
    <3>3. GotTyped'
      BY <3>a, <3>d DEF GotTyped, Indexes
    <3>4. \A w \in Videos : \A j \in Indexes(w) :
              got'[w][j] = IF w = v /\ j = i THEN got[w][j] + 1 ELSE got[w][j]
      BY <3>a, <3>b DEF GotTyped
    <3>5. ASSUME NEW w \in Videos, NEW j \in Indexes(w)
          PROVE  /\ w = v /\ j = i => Holders(chunks', w, j) = Holders(chunks, w, j) \cup {c}
                 /\ ~(w = v /\ j = i) => Holders(chunks', w, j) = Holders(chunks, w, j)
      <4>1. \A d \in Consumers : d \in Holders(chunks', w, j) <=> j \in chunks'[d][w]
        BY DEF Holders
      <4>2. \A d \in Consumers : d \in Holders(chunks, w, j) <=> j \in chunks[d][w]
        BY DEF Holders
      <4>3. Holders(chunks', w, j) \subseteq Consumers /\ Holders(chunks, w, j) \subseteq Consumers
        BY DEF Holders
      <4>4. CASE w = v /\ j = i
        <5>1. c \in Holders(chunks', w, j)
          BY <3>2, <4>1, <4>4
        <5>2. \A d \in Consumers : d # c =>
                  (d \in Holders(chunks', w, j) <=> d \in Holders(chunks, w, j))
          BY ZenonT(60), <3>2, <4>1, <4>2, <4>4
        <5>3. \A d \in Consumers : d \in Holders(chunks, w, j)
                                  => d \in Holders(chunks', w, j)
          BY <5>1, <5>2
        <5> QED
          BY <4>3, <4>4, <5>1, <5>2, <5>3
      <4>5. CASE ~(w = v /\ j = i)
        <5>1. \A d \in Consumers : j \in chunks'[d][w] <=> j \in chunks[d][w]
          BY <3>2, <4>5
        <5> QED
          BY <4>1, <4>2, <4>3, <4>5, <5>1
      <4> QED
        BY <4>4, <4>5
    <3>6. Cardinality(Holders(chunks, v, i) \cup {c})
              \in {Cardinality(Holders(chunks, v, i)), Cardinality(Holders(chunks, v, i)) + 1}
      BY HoldersCount, FS_AddElement DEF Holders
    <3>7. ASSUME NEW w \in Videos, NEW j \in Indexes(w)
          PROVE  processed'[w] + Cardinality(Holders(chunks', w, j)) <= got'[w][j]
      <4>1. CASE w = v /\ j = i
        <5>1. Cardinality(Holders(chunks', w, j))
                  \in {Cardinality(Holders(chunks, w, j)),
                       Cardinality(Holders(chunks, w, j)) + 1}
          BY <3>5, <3>6, <4>1
        <5>2. got'[w][j] = got[w][j] + 1 /\ processed'[w] = processed[w]
          BY <3>1, <3>4, <4>1
        <5> QED
          BY <2>0, <5>1, <5>2
      <4>2. CASE ~(w = v /\ j = i)
        <5>1. Holders(chunks', w, j) = Holders(chunks, w, j) /\ got'[w][j] = got[w][j]
          BY <3>4, <3>5, <4>2
        <5> QED
          BY <2>0, <3>1, <5>1
      <4> QED
        BY <4>1, <4>2
    <3> QED
      BY <2>b, <3>3, <3>7
  <2>2. ASSUME NEW c \in Consumers, Finish(c) PROVE IInv'
    <3>0. PICK v \in Videos : v = busy[c]
      BY <2>2 DEF Finish, TypeOK
    <3>1. /\ processed' = [processed EXCEPT ![v] = @ + 1]
          /\ chunks' = [chunks EXCEPT ![c][v] = {}]
          /\ UNCHANGED got
          /\ chunks[c][v] = Indexes(v)
      BY <2>2, <3>0 DEF Finish, TypeOK, Whole, ProcessedWhole
    <3>2. \A d \in Consumers, w \in Videos :
              chunks'[d][w] = IF d = c /\ w = v THEN {} ELSE chunks[d][w]
      BY <3>1 DEF TypeOK
    <3>3. \A w \in Videos : processed'[w] = IF w = v THEN processed[w] + 1
                                            ELSE processed[w]
      BY <3>1 DEF TypeOK
    <3>4. \A j \in Indexes(v) : /\ Holders(chunks', v, j) = Holders(chunks, v, j) \ {c}
                                /\ c \in Holders(chunks, v, j)
      BY <3>1, <3>2 DEF Holders
    <3>5. \A w \in Videos : w # v =>
              \A j \in Indexes(w) : Holders(chunks', w, j) = Holders(chunks, w, j)
      BY <3>2 DEF Holders
    <3>6. ASSUME NEW w \in Videos, NEW j \in Indexes(w)
          PROVE  processed'[w] + Cardinality(Holders(chunks', w, j)) <= got'[w][j]
      <4>1. CASE w = v
        <5>0. IsFiniteSet(Holders(chunks, v, j)) /\ c \in Holders(chunks, v, j)
          BY <3>4, <4>1, HoldersCount DEF Holders
        <5>1. Cardinality(Holders(chunks, v, j) \ {c}) = Cardinality(Holders(chunks, v, j)) - 1
          BY <5>0, FS_RemoveElement
        <5>2. Cardinality(Holders(chunks', w, j)) = Cardinality(Holders(chunks, w, j)) - 1
          BY <3>4, <4>1, <5>1
        <5>3. got'[w][j] = got[w][j] /\ processed'[w] = processed[w] + 1
          BY <3>1, <3>3, <4>1
        <5> QED
          BY <2>0, <5>2, <5>3
      <4>2. CASE w # v
        BY <2>0, <3>1, <3>3, <3>5, <4>2
      <4> QED
        BY <4>1, <4>2
    <3> QED
      BY <2>b, <3>1, <3>6 DEF GotTyped, Indexes
  <2>3. ASSUME NEW c \in Consumers, Crash(c) PROVE IInv'
    <3>1. /\ chunks' = [chunks EXCEPT ![c] = [v \in Videos |-> {}]]
          /\ UNCHANGED <<processed, got>>
      BY <2>3 DEF Crash, historyVars
    <3>2. \A w \in Videos : \A j \in Indexes(w) :
              Holders(chunks', w, j) \in SUBSET Holders(chunks, w, j)
      <4>1. \A d \in Consumers, w \in Videos : chunks'[d][w] \subseteq chunks[d][w]
        BY <3>1 DEF TypeOK
      <4> QED
        BY <4>1 DEF Holders
    <3>3. \A w \in Videos : \A j \in Indexes(w) :
              /\ Cardinality(Holders(chunks', w, j)) <= Cardinality(Holders(chunks, w, j))
              /\ Cardinality(Holders(chunks', w, j)) \in Nat
      <4> TAKE w \in Videos
      <4> TAKE j \in Indexes(w)
      <4>1. IsFiniteSet(Holders(chunks, w, j))
        BY HoldersCount DEF Holders
      <4>2. Holders(chunks', w, j) \in SUBSET Holders(chunks, w, j)
        BY <3>2
      <4>3. Cardinality(Holders(chunks', w, j)) <= Cardinality(Holders(chunks, w, j))
        BY <4>1, <4>2, FS_Subset
      <4>4. Cardinality(Holders(chunks', w, j)) \in Nat
        BY <4>1, <4>2, FS_Subset, FS_CardinalityType
      <4> QED
        BY <4>3, <4>4
    <3>4. ASSUME NEW w \in Videos, NEW j \in Indexes(w)
          PROVE  processed'[w] + Cardinality(Holders(chunks', w, j)) <= got'[w][j]
      <4>1. /\ Cardinality(Holders(chunks', w, j)) <= Cardinality(Holders(chunks, w, j))
            /\ Cardinality(Holders(chunks', w, j)) \in Nat
        BY <3>3
      <4>2. processed'[w] = processed[w] /\ got'[w][j] = got[w][j]
        BY <3>1
      <4> QED
        BY <2>0, <4>1, <4>2
    <3> QED
      BY <2>b, <3>1, <3>4 DEF GotTyped, Indexes
  <2>4. ASSUME NEW v \in Videos, NEW p \in Partitions, NEW i \in Indexes(v),
               Arrive(v, i, p)
        PROVE  IInv'
    BY <2>4, <2>a DEF Arrive, memoryVars, historyVars
  <2>5. ASSUME NEW p \in Partitions, Commit(p) PROVE IInv'
    BY <2>5, <2>a DEF Commit, memoryVars, historyVars
  <2>6. CASE Rebalance
    BY <2>6, <2>a DEF Rebalance, memoryVars, historyVars
  <2>7. CASE UNCHANGED vars
    BY <2>7, <2>a DEF vars, memoryVars, historyVars
  <2> QED
    BY <2>1, <2>2, <2>3, <2>4, <2>5, <2>6, <2>7
       DEF Next, ConsumerNext, Consume, Group
<1> QED
  BY <1>1, <1>2, TypeSafety, WholeInvariant, PTL DEF Spec

-----------------------------------------------------------------------------
(* The composition.  Of the gateway the group needs to know who writes to  *)
(* the topic and what.                                                     *)

GatewayTypes ==
    /\ handler \in [Videos -> {"idle", "saving", "refused", "accepted"}]
    /\ proc \in [Videos -> {"none", "reading", "spawning", "done", "failed", "lost"}]
    /\ size \in [Videos -> Nat]
    /\ spawned \in [Videos -> Nat]
    /\ flying \in [Videos -> SUBSET Nat]

\* Only accepted uploads have producers, those have chunks of their file, and an
\* empty file has none.
Uploading == \A u \in Videos :
    /\ handler[u] = "accepted" => size[u] \in {0, Total[u]}
    /\ flying[u] # {} => size[u] = Total[u]
    /\ handler[u] # "accepted" => proc[u] = "none" /\ flying[u] = {}
    /\ flying[u] \subseteq Indexes(u)

Producing == GatewayTypes /\ Uploading

Accepted == {v \in Videos : handler[v] = "accepted"}

LEMMA SameLog == \A v, i : P!InLog(v, i) <=> InLog(v, i)
  BY DEF P!InLog, InLog

\* What the gateway's steps do to its uploads, and to the topic: nothing, but for
\* the writes.
LEMMA GatewayProduces ==
    ASSUME Producing, Gateway
    PROVE  /\ Producing'
           /\ \/ \E u \in Videos : \E n \in {0, Total[u]} : P!Accept(u, n)
              \/ UNCHANGED <<size, log, dups>> /\ Accepted' = Accepted
              \/ \E u \in Videos : \E i \in flying[u] : \E p \in Partitions : P!Write(u, i, p)
<1> USE ConsumerAssumption DEF P!fileVars, P!taskVars
<1>1. ASSUME NEW u \in Videos, P!CreateTemp(u) \/ P!Refuse(u)
      PROVE  Producing' /\ UNCHANGED <<size, log, dups>> /\ Accepted' = Accepted
  <2>1. PICK state \in {"saving", "refused"} :
            /\ handler' = [handler EXCEPT ![u] = state] /\ handler[u] # "accepted"
            /\ UNCHANGED <<proc, size, spawned, flying, log, dups>>
    BY <1>1 DEF P!CreateTemp, P!Refuse
  <2>2. Producing'
    BY <2>1 DEF Producing, GatewayTypes, Uploading, Indexes
  <2>3. Accepted' = Accepted
    BY <2>1 DEF Accepted, Producing, GatewayTypes
  <2> QED
    BY <2>1, <2>2, <2>3
<1>2. ASSUME NEW u \in Videos, NEW n \in {0, Total[u]}, P!Accept(u, n) PROVE Producing'
  BY <1>2 DEF Producing, GatewayTypes, Uploading, Indexes, P!Accept
<1>3. ASSUME NEW u \in Videos, P!ReadChunks(u) \/ P!ReadFails(u) \/ P!Return(u)
      PROVE  Producing' /\ UNCHANGED <<handler, size, log, dups>>
  <2>1. PICK state \in {"spawning", "failed", "done"} :
            /\ proc' = [proc EXCEPT ![u] = state] /\ proc[u] # "none"
            /\ UNCHANGED <<handler, size, spawned, flying, log, dups>>
    BY <1>3 DEF P!ReadChunks, P!ReadFails, P!Return
  <2> QED
    BY <2>1 DEF Producing, GatewayTypes, Uploading, Indexes
<1>4. ASSUME NEW u \in Videos, P!Spawn(u)
      PROVE  Producing' /\ UNCHANGED <<handler, size, log, dups>>
  <2>1. /\ flying' = [flying EXCEPT ![u] = @ \cup {spawned[u]}]
        /\ spawned' = [spawned EXCEPT ![u] = @ + 1]
        /\ proc[u] = "spawning" /\ spawned[u] < size[u]
        /\ UNCHANGED <<handler, size, proc, log, dups>>
    BY <1>4 DEF P!Spawn, P!MoreChunks, P!InRange
  <2>2. handler[u] = "accepted" /\ size[u] = Total[u] /\ spawned[u] \in Indexes(u)
    BY <2>1 DEF Producing, GatewayTypes, Uploading, Indexes
  <2>3. GatewayTypes'
    BY <2>1 DEF Producing, GatewayTypes
  <2>4. Uploading'
    BY <2>1, <2>2 DEF Producing, GatewayTypes, Uploading, Indexes
  <2> QED
    BY <2>1, <2>3, <2>4 DEF Producing
<1>5. ASSUME NEW u \in Videos, P!Drain(u)
      PROVE  Producing' /\ UNCHANGED <<handler, size, log, dups>>
  <2>1. UNCHANGED <<handler, size, proc, spawned, flying, log, dups>>
    BY <1>5 DEF P!Drain
  <2> QED
    BY <2>1 DEF Producing, GatewayTypes, Uploading, Indexes
<1>6. ASSUME NEW u \in Videos, NEW i \in flying[u], P!Sent(u, i) \/ P!GiveUp(u, i)
      PROVE  Producing' /\ UNCHANGED <<handler, size, log, dups>>
  <2>1. /\ flying' = [flying EXCEPT ![u] = @ \ {i}]
        /\ UNCHANGED <<handler, size, proc, spawned, log, dups>>
    BY <1>6 DEF P!Sent, P!GiveUp
  <2> QED
    BY <2>1 DEF Producing, GatewayTypes, Uploading, Indexes
<1>7. ASSUME NEW u \in Videos, NEW i \in flying[u], NEW p \in Partitions, P!Write(u, i, p)
      PROVE  Producing'
  <2>1. UNCHANGED <<handler, size, proc, spawned, flying>>
    BY <1>7 DEF P!Write
  <2> QED
    BY <2>1 DEF Producing, GatewayTypes, Uploading, Indexes
<1>8. ASSUME P!Crash
      PROVE  Producing' /\ UNCHANGED <<size, log, dups>> /\ Accepted' = Accepted
  <2>1. /\ UNCHANGED <<size, spawned, log, dups>>
        /\ handler' = [u \in Videos |-> IF handler[u] = "saving" THEN "refused" ELSE handler[u]]
        /\ proc' = [u \in Videos |-> IF proc[u] \in {"reading", "spawning"} THEN "lost"
                                     ELSE proc[u]]
        /\ flying' = [u \in Videos |-> {}]
    BY <1>8 DEF P!Crash
  <2>2. Producing'
    BY <2>1 DEF Producing, GatewayTypes, Uploading, Indexes
  <2>3. Accepted' = Accepted
    BY <2>1 DEF Accepted
  <2> QED
    BY <2>1, <2>2, <2>3
<1> QED
  BY <1>1, <1>2, <1>3, <1>4, <1>5, <1>6, <1>7, <1>8 DEF Gateway, P!Progress, P!Failure, Accepted

\* A step of the composition is a step of the group in its environment: a write
\* is an arrival, for the producers write what the group takes on trust, the
\* chunk numbers and the count of a file of that many chunks.
LEMMA WriteIsArrival ==
    ASSUME Producing, NEW u \in Videos, NEW i \in flying[u], NEW p \in Partitions,
           P!Write(u, i, p), UNCHANGED consumerVars
    PROVE  i \in Indexes(u) /\ handler[u] = "accepted" /\ handler' = handler /\ size' = size
           /\ Arrive(u, i, p)
<1>1. handler[u] = "accepted" /\ i \in Indexes(u) /\ size[u] = Total[u]
  BY DEF Producing, Uploading
<1>2. /\ log' = [log EXCEPT ![p] = Append(@, [video |-> u, idx |-> i, total |-> Total[u], data |-> i])]
      /\ InLog(u, i) => dups < MaxDups
      /\ dups' = IF InLog(u, i) THEN dups + 1 ELSE dups
      /\ UNCHANGED <<handler, size>>
  BY <1>1, SameLog DEF P!Write, P!RecordOf, P!ChunkRecord, P!fileVars, P!taskVars
<1> QED
  BY <1>1, <1>2 DEF Arrive, consumerVars

LEMMA GroupSteps ==
    ASSUME Producing, [IngestNext]_ingestVars
    PROVE  [Next]_vars
<1> USE DEF groupVars, memoryVars, historyVars, countVars
<1>1. CASE Gateway
  <2>1. CASE UNCHANGED <<log, dups>>
    BY <1>1, <2>1 DEF Gateway, consumerVars, vars
  <2>2. ASSUME NEW u \in Videos, NEW i \in flying[u], NEW p \in Partitions, P!Write(u, i, p)
        PROVE  Next
    BY <1>1, <2>2, WriteIsArrival DEF Gateway, Next
  <2>3. ASSUME NEW u \in Videos, NEW n \in {0, Total[u]}, P!Accept(u, n) PROVE UNCHANGED <<log, dups>>
    BY <2>3 DEF P!Accept
  <2> QED
    BY <1>1, <2>1, <2>2, <2>3, GatewayProduces
<1>2. CASE Vcodec
  BY <1>2 DEF Vcodec, Next
<1>3. CASE UNCHANGED ingestVars
  BY <1>3 DEF ingestVars, consumerVars, vars
<1> QED
  BY <1>1, <1>2, <1>3 DEF IngestNext

LEMMA ProducingInvariant == IngestSpec => []Producing
<1>1. IngestInit => Producing
  BY DEF IngestInit, P!Init, Producing, GatewayTypes, Uploading
<1>2. Producing /\ [IngestNext]_ingestVars => Producing'
  <2>1. ASSUME Producing, Vcodec \/ UNCHANGED ingestVars PROVE Producing'
    BY <2>1 DEF Vcodec, ingestVars, producerVars, Producing, GatewayTypes, Uploading, Indexes
  <2> QED
    BY <2>1, GatewayProduces DEF IngestNext
<1> QED
  BY <1>1, <1>2, PTL DEF IngestSpec

\* Next to the gateway the group behaves as ChunkConsumer says of any topic whose
\* records tell the truth: the producers of upload.go are such an environment.
THEOREM GatewayFeedsTheGroup == IngestSpec => Spec
<1>1. IngestInit => Init
  BY DEF IngestInit, Init, P!Init
<1>2. Producing /\ [IngestNext]_ingestVars => [Next]_vars
  BY GroupSteps
<1> QED
  BY <1>1, <1>2, ProducingInvariant, PTL DEF IngestSpec, Spec

\* And the gateway behaves as UploadProducer says: vcodec reads the topic and
\* leaves everything the gateway looks at as it was.
THEOREM VcodecLeavesTheGatewayAlone == IngestSpec => P!Spec
<1>1. IngestInit => P!Init
  BY DEF IngestInit
<1>2. ASSUME [IngestNext]_ingestVars PROVE [P!Next]_P!vars
  <2> USE DEF producerVars, P!vars, P!fileVars, P!taskVars
  <2>1. CASE Gateway
    <3>1. ASSUME NEW u \in Videos PROVE {0, Total[u]} \subseteq 0..MaxTotal
      BY ConsumerAssumption, IngestAssumption
    <3> QED
      BY <2>1, <3>1 DEF Gateway, P!Next
  <2>2. CASE Vcodec
    <3>1. UNCHANGED <<log, dups>>
      BY <2>2 DEF Vcodec, ConsumerNext, Consume, Group, Finish, Deliver, Rebalance, Commit,
                  Crash, countVars
    <3> QED
      BY <2>2, <3>1 DEF Vcodec
  <2>3. CASE UNCHANGED ingestVars
    BY <2>3 DEF ingestVars
  <2> QED
    BY <1>2, <2>1, <2>2, <2>3 DEF IngestNext
<1> QED
  BY <1>1, <1>2, PTL DEF IngestSpec, P!Spec

\* So what is proved of the group holds behind the gateway: vcodec processes
\* whole videos only, and no video twice for a few records written twice.
THEOREM UploadsAreProcessedWhole == IngestSpec => []ProcessedWhole /\ []EveryRunIsPaidFor
BY GatewayFeedsTheGroup, OnlyWholeVideos, RunsArePaidFor, PTL

-----------------------------------------------------------------------------
(* Where the records and the chunks in the maps come from.                 *)

\* Uploads that were accepted with a file that is not empty.
Fed == {v \in Accepted : size[v] = Total[v]}

Sourced == \A p \in Partitions : \A k \in DOMAIN log[p] : log[p][k].video \in Fed

Held == \A c \in Consumers, v \in Videos :
    chunks[c][v] \subseteq {i \in Indexes(v) : InLog(v, i)}

\* An arrival appends one record.
LEMMA ArrivalEffect ==
    ASSUME TypeOK, NEW u \in Videos, NEW i \in Indexes(u), NEW p \in Partitions, Arrive(u, i, p)
    PROVE  /\ \A q \in Partitions : \A k \in DOMAIN log[q] :
                 k \in DOMAIN log'[q] /\ log'[q][k] = log[q][k]
           /\ \A q \in Partitions : \A k \in DOMAIN log'[q] :
                 \/ k \in DOMAIN log[q] /\ log'[q][k] = log[q][k]
                 \/ log'[q][k] = [video |-> u, idx |-> i, total |-> Total[u], data |-> i]
           /\ \E k \in DOMAIN log'[p] : log'[p][k] = [video |-> u, idx |-> i, total |-> Total[u], data |-> i]
<1> DEFINE r == [video |-> u, idx |-> i, total |-> Total[u], data |-> i]
<1>1. log' = [log EXCEPT ![p] = Append(@, r)]
  BY DEF Arrive
<1>2. r \in Record
  BY IndexesCount, ConsumerAssumption DEF Record
<1> HIDE DEF r
<1>3. log[p] \in Seq(Record)
  BY DEF TypeOK
<1>4. /\ Len(log[p]) + 1 \in DOMAIN Append(log[p], r)
      /\ Append(log[p], r)[Len(log[p]) + 1] = r
      /\ \A k \in DOMAIN log[p] : k \in DOMAIN Append(log[p], r)
                                  /\ Append(log[p], r)[k] = log[p][k]
      /\ \A k \in DOMAIN Append(log[p], r) :
            \/ k \in DOMAIN log[p] /\ Append(log[p], r)[k] = log[p][k]
            \/ Append(log[p], r)[k] = r
  BY <1>2, <1>3
<1>5. \A q \in Partitions : log'[q] = IF q = p THEN Append(log[p], r) ELSE log[q]
  BY <1>1 DEF TypeOK
<1> QED
  BY <1>4, <1>5 DEF r

\* What is in the topic stays there, and the record written is.
LEMMA TopicGrows ==
    ASSUME TypeOK, NEW u \in Videos, NEW i \in Indexes(u), NEW p \in Partitions, Arrive(u, i, p),
           NEW v \in Videos, NEW j
    PROVE  InLog(v, j)' <=> InLog(v, j) \/ (v = u /\ j = i)
<1>1. ASSUME InLog(v, j) PROVE InLog(v, j)'
  <2>1. PICK q \in Partitions : \E k \in DOMAIN log[q] : log[q][k].video = v /\ log[q][k].idx = j
    BY <1>1 DEF InLog
  <2>2. PICK k \in DOMAIN log[q] : log[q][k].video = v /\ log[q][k].idx = j
    BY <2>1
  <2>3. k \in DOMAIN log'[q] /\ log'[q][k] = log[q][k]
    BY <2>2, ArrivalEffect
  <2> QED
    BY <2>2, <2>3 DEF InLog
<1>2. InLog(u, i)'
  <2>1. PICK k \in DOMAIN log'[p] :
                log'[p][k] = [video |-> u, idx |-> i, total |-> Total[u], data |-> i]
    BY ArrivalEffect
  <2>2. log'[p][k].video = u /\ log'[p][k].idx = i
    BY <2>1
  <2> QED
    BY <2>2 DEF InLog
<1>3. ASSUME InLog(v, j)', ~InLog(v, j) PROVE v = u /\ j = i
  <2>1. PICK q \in Partitions : \E k \in DOMAIN log'[q] :
                log'[q][k].video = v /\ log'[q][k].idx = j
    BY <1>3 DEF InLog
  <2>2. PICK k \in DOMAIN log'[q] : log'[q][k].video = v /\ log'[q][k].idx = j
    BY <2>1
  <2>3. ~(k \in DOMAIN log[q] /\ log'[q][k] = log[q][k])
    BY <1>3, <2>2 DEF InLog
  <2>4. log'[q][k] = [video |-> u, idx |-> i, total |-> Total[u], data |-> i]
    BY <2>2, <2>3, ArrivalEffect
  <2> QED
    BY <2>2, <2>4
<1> QED
  BY <1>1, <1>2, <1>3

LEMMA SourcedInvariant == IngestSpec => []Sourced
<1>1. IngestInit => Sourced
  BY DEF IngestInit, ConsumerInit, P!Init, Sourced
<1>2. Producing /\ TypeOK /\ Sourced /\ [IngestNext]_ingestVars => Sourced'
  <2> SUFFICES ASSUME Producing, TypeOK, Sourced, [IngestNext]_ingestVars PROVE Sourced'
    OBVIOUS
  <2>1. ASSUME log' = log, Fed \subseteq Fed' PROVE Sourced'
    BY <2>1 DEF Sourced
  <2>2. CASE Vcodec \/ UNCHANGED ingestVars
    <3>1. log' = log /\ handler' = handler /\ size' = size
      BY <2>2 DEF Vcodec, ConsumerNext, Consume, Group, Finish, Deliver, Rebalance, Commit, Crash,
                  ingestVars, producerVars
    <3> QED
      BY <2>1, <3>1 DEF Fed, Accepted
  <2>3. ASSUME NEW u \in Videos, NEW i \in flying[u], NEW p \in Partitions, P!Write(u, i, p), Gateway
        PROVE  Sourced'
    <3>1. i \in Indexes(u) /\ u \in Fed /\ Fed' = Fed /\ Arrive(u, i, p)
      BY <2>3, WriteIsArrival DEF Gateway, Fed, Accepted, Producing, Uploading
    <3>2. \A q \in Partitions : \A k \in DOMAIN log'[q] :
             \/ k \in DOMAIN log[q] /\ log'[q][k] = log[q][k]
             \/ log'[q][k] = [video |-> u, idx |-> i, total |-> Total[u], data |-> i]
      BY <3>1, ArrivalEffect
    <3>3. \A q \in Partitions : \A k \in DOMAIN log'[q] : log'[q][k].video \in Fed
      BY <3>1, <3>2 DEF Sourced
    <3> QED
      BY <3>1, <3>3 DEF Sourced
  <2>4. ASSUME NEW u \in Videos, NEW n \in {0, Total[u]}, P!Accept(u, n) PROVE Sourced'
    <3>1. log' = log /\ Fed \subseteq Fed'
      BY <2>4 DEF P!Accept, Fed, Accepted, Producing, GatewayTypes
    <3> QED
      BY <2>1, <3>1
  <2>5. CASE UNCHANGED <<size, log, dups>> /\ Accepted' = Accepted
    BY <2>1, <2>5 DEF Fed
  <2> QED
    BY <2>2, <2>3, <2>4, <2>5, GatewayProduces DEF IngestNext
<1> QED
  BY <1>1, <1>2, ProducingInvariant, GatewayFeedsTheGroup, TypeSafety, PTL DEF IngestSpec

\* What a map holds came out of the topic: a fact of the group alone.
LEMMA HeldInvariant == Spec => []Held
<1>1. Init => Held
  BY DEF Init, ConsumerInit, Held
<1>2. TypeOK /\ Whole /\ Held /\ [Next]_vars => Held'
  <2> SUFFICES ASSUME TypeOK, Whole, Held, [Next]_vars PROVE Held'
    OBVIOUS
  <2>1. ASSUME log' = log,
               \A c \in Consumers, v \in Videos : \A i \in chunks'[c][v] :
                  i \in Indexes(v) /\ (i \in chunks[c][v] \/ InLog(v, i))
        PROVE  Held'
    <3>1. \A v, i : InLog(v, i)' <=> InLog(v, i)
      BY <2>1 DEF InLog
    <3> QED
      BY <2>1, <3>1 DEF Held, Indexes
  <2>2. \A c \in Consumers, v \in Videos : \A i \in chunks[c][v] : i \in Indexes(v)
    BY DEF Held
  <2>3. ASSUME NEW u \in Videos, NEW p \in Partitions, NEW i \in Indexes(u), Arrive(u, i, p)
        PROVE  Held'
    <3>1. \A v \in Videos : \A j : InLog(v, j) => InLog(v, j)'
      BY <2>3, TopicGrows
    <3>2. chunks' = chunks
      BY <2>3 DEF Arrive, memoryVars
    <3> QED
      BY <3>1, <3>2 DEF Held, Indexes
  <2>4. ASSUME NEW c \in Consumers, NEW p \in Partitions, Deliver(c, p) PROVE Held'
    <3> DEFINE r == log[p][position[p] + 1]
    <3>1. position[p] + 1 \in DOMAIN log[p] /\ r \in Record
      BY <2>4, NextRecord DEF Deliver
    <3>2. InLog(r.video, r.idx)
      BY <3>1 DEF InLog
    <3>3. chunks' = [chunks EXCEPT ![c][r.video] = @ \cup {r.idx}] /\ log' = log
      BY <2>4 DEF Deliver, Inserted, InsertKeyed
    <3>4. r.video \in Videos /\ r.idx \in Indexes(r.video)
      BY <3>1 DEF Record, Whole, Truthful
    <3> HIDE DEF r
    <3>5. \A d \in Consumers, w \in Videos :
             chunks'[d][w] = IF d = c /\ w = r.video THEN chunks[d][w] \cup {r.idx}
                             ELSE chunks[d][w]
      BY <3>3, <3>4 DEF TypeOK
    <3> QED
      BY <2>1, <2>2, <3>2, <3>3, <3>4, <3>5
  <2>5. ASSUME NEW c \in Consumers, Finish(c) PROVE Held'
    <3>1. log' = log /\ chunks' = [chunks EXCEPT ![c][busy[c]] = {}]
      BY <2>5 DEF Finish
    <3>2. \A d \in Consumers, w \in Videos : chunks'[d][w] \subseteq chunks[d][w]
      BY <3>1 DEF TypeOK
    <3> QED
      BY <2>1, <2>2, <3>1, <3>2
  <2>6. ASSUME NEW c \in Consumers, Crash(c) PROVE Held'
    <3>1. log' = log /\ chunks' = [chunks EXCEPT ![c] = [v \in Videos |-> {}]]
      BY <2>6 DEF Crash
    <3>2. \A d \in Consumers, w \in Videos : chunks'[d][w] \subseteq chunks[d][w]
      BY <3>1 DEF TypeOK
    <3> QED
      BY <2>1, <2>2, <3>1, <3>2
  <2>7. CASE Group \/ UNCHANGED vars
    <3>1. log' = log /\ chunks' = chunks
      BY <2>7 DEF Group, Commit, Rebalance, vars, memoryVars
    <3> QED
      BY <2>1, <2>2, <3>1
  <2> QED
    BY <2>3, <2>4, <2>5, <2>6, <2>7 DEF Next, ConsumerNext, Consume
<1> QED
  BY <1>1, <1>2, TypeSafety, WholeInvariant, PTL DEF Spec

IngestInv == Producing /\ TypeOK /\ ProcessedWhole /\ Sourced /\ Held

LEMMA IngestInvariant == IngestSpec => []IngestInv
BY ProducingInvariant, GatewayFeedsTheGroup, TypeSafety, OnlyWholeVideos, SourcedInvariant,
   HeldInvariant, PTL DEF IngestInv

-----------------------------------------------------------------------------
(* The refinement of UploadContract.                                       *)

Done == {v \in Videos : processed[v] > 0}

\* A record in the topic belongs to an accepted upload of a file with content.
LEMMA RecordsAreAccepted ==
    ASSUME IngestInv, NEW v, NEW i, InLog(v, i)
    PROVE  v \in Fed
<1>1. PICK p \in Partitions : \E k \in DOMAIN log[p] : log[p][k].video = v /\ log[p][k].idx = i
  BY DEF InLog
<1> QED
  BY <1>1 DEF IngestInv, Sourced

\* A step that accepts, writes and processes nothing is a stutter.
LEMMA Stutter ==
    ASSUME UNCHANGED <<size, log, processed>>, Accepted' = Accepted
    PROVE  UNCHANGED Contract!contractVars
<1>1. Arrived' = Arrived
  BY DEF Arrived, InLog
<1> QED
  BY <1>1 DEF Contract!contractVars, Accepted

LEMMA RefinesInit ==
    ASSUME IngestInit PROVE Contract!Init
<1>1. Arrived = [v \in Videos |-> {}]
  BY DEF IngestInit, P!Init, Arrived
<1> QED
  BY <1>1 DEF IngestInit, P!Init, ConsumerInit, Contract!Init

\* The 202: nothing of the upload is in the topic yet.
LEMMA AcceptRefines ==
    ASSUME IngestInv, NEW u \in Videos, NEW n \in {0, Total[u]}, P!Accept(u, n), UNCHANGED consumerVars
    PROVE  Contract!Accept(u)
<1> USE DEF IngestInv, Producing
<1>1. /\ handler[u] = "saving" /\ handler' = [handler EXCEPT ![u] = "accepted"]
      /\ size' = [size EXCEPT ![u] = n] /\ log' = log /\ processed' = processed
  BY DEF P!Accept, consumerVars, historyVars
<1>2. u \notin Accepted /\ Accepted' = Accepted \cup {u}
  BY <1>1 DEF Accepted, GatewayTypes
<1>3. size'[u] \in Nat /\ size' = [size EXCEPT ![u] = size'[u]]
  <2>1. n \in Nat
    <3>1. Total[u] \in Nat
      BY ConsumerAssumption
    <3> QED
      BY <3>1
  <2>2. size'[u] = n
    BY <1>1 DEF GatewayTypes
  <2> QED
    BY <1>1, <2>1, <2>2
<1>4. Arrived' = Arrived
  <2>1. \A v \in Videos : \A i : InLog(v, i)' <=> InLog(v, i)
    BY <1>1 DEF InLog
  <2>2. \A i : ~InLog(u, i)
    BY <1>2, RecordsAreAccepted DEF Fed
  <2>3. \A v \in Videos : v # u => size'[v] = size[v]
    BY <1>1 DEF GatewayTypes
  <2>4. \A v \in Videos : {i \in 0..(size'[v] - 1) : InLog(v, i)'}
                          = {i \in 0..(size[v] - 1) : InLog(v, i)}
    BY <2>1, <2>2, <2>3
  <2> QED
    BY <2>4 DEF Arrived
<1> QED
  BY <1>1, <1>2, <1>3, <1>4 DEF Contract!Accept, Accepted

\* A write is an arrival, be it the first of its chunk or not.
LEMMA WriteRefines ==
    ASSUME IngestInv, NEW u \in Videos, NEW i \in flying[u], NEW p \in Partitions,
           P!Write(u, i, p), UNCHANGED consumerVars
    PROVE  Contract!Arrive(u)
<1> USE DEF IngestInv, Producing
<1>1. /\ handler[u] = "accepted" /\ i \in Indexes(u) /\ size[u] = Total[u]
      /\ UNCHANGED <<handler, size, processed>> /\ Arrive(u, i, p)
  BY WriteIsArrival DEF Uploading, consumerVars, historyVars
<1>2. i \in 0..(size[u] - 1)
  BY <1>1 DEF Indexes
<1>3. \A v \in Videos : \A j : InLog(v, j)' <=> InLog(v, j) \/ (v = u /\ j = i)
  BY <1>1, TopicGrows
<1>4. \A v \in Videos : Arrived'[v] = IF v = u THEN Arrived[v] \cup {i} ELSE Arrived[v]
  BY <1>1, <1>2, <1>3 DEF Arrived
<1>5. Arrived' = [Arrived EXCEPT ![u] = @ \cup {i}]
  BY <1>4 DEF Arrived
<1> QED
  BY <1>1, <1>2, <1>5 DEF Contract!Arrive

\* The end of a run: the map held every chunk, and they were all in the topic.
LEMMA FinishRefines ==
    ASSUME IngestInv, NEW c \in Consumers, Finish(c), UNCHANGED <<handler, size>>
    PROVE  \E v \in Videos : Contract!Process(v)
<1> USE DEF IngestInv, Producing
<1>0. PICK v \in Videos : v = busy[c]
  BY DEF TypeOK, Finish
<1>1. /\ processed' = [processed EXCEPT ![v] = @ + 1] /\ log' = log
      /\ chunks[c][v] = Indexes(v)
  BY <1>0 DEF ProcessedWhole, Finish
<1>2. \A i \in Indexes(v) : InLog(v, i)
  BY <1>1 DEF Held
<1>3. 0 \in Indexes(v)
  BY <1>1, ConsumerAssumption DEF Indexes
<1>4. handler[v] = "accepted" /\ size[v] = Total[v]
  BY <1>2, <1>3, RecordsAreAccepted DEF Fed, Accepted
<1>5. Arrived[v] = 0..(size[v] - 1)
  BY <1>1, <1>2, <1>4 DEF Arrived, Indexes
<1>6. Done' = Done \cup {v}
  BY <1>1 DEF Done, TypeOK
<1>7. Arrived' = Arrived
  BY <1>1 DEF Arrived, InLog
<1> QED
  BY <1>1, <1>4, <1>5, <1>6, <1>7 DEF Contract!Process, Done

LEMMA GatewayRefines ==
    ASSUME IngestInv, Gateway PROVE Contract!Next \/ UNCHANGED Contract!contractVars
<1>1. UNCHANGED consumerVars /\ processed' = processed
  BY DEF Gateway, consumerVars, historyVars
<1>2. ASSUME NEW u \in Videos, NEW n \in {0, Total[u]}, P!Accept(u, n) PROVE Contract!Next
  BY <1>1, <1>2, AcceptRefines DEF Contract!Next
<1>3. ASSUME NEW u \in Videos, NEW i \in flying[u], NEW p \in Partitions, P!Write(u, i, p)
      PROVE  Contract!Next
  BY <1>1, <1>3, WriteRefines DEF Contract!Next
<1> QED
  BY <1>1, <1>2, <1>3, GatewayProduces, Stutter DEF IngestInv

LEMMA VcodecRefines ==
    ASSUME IngestInv, Vcodec PROVE Contract!Next \/ UNCHANGED Contract!contractVars
<1>1. UNCHANGED <<handler, size>>
  BY DEF Vcodec, producerVars
<1>2. ASSUME NEW c \in Consumers, Finish(c) PROVE Contract!Next
  BY <1>1, <1>2, FinishRefines DEF Contract!Next
<1>3. ASSUME Group \/ \E c \in Consumers : Crash(c) \/ \E p \in Partitions : Deliver(c, p)
      PROVE  UNCHANGED Contract!contractVars
  <2>1. UNCHANGED <<log, processed>>
    BY <1>3 DEF Group, Commit, Rebalance, Crash, Deliver, historyVars
  <2> QED
    BY <1>1, <2>1, Stutter DEF Accepted
<1> QED
  BY <1>2, <1>3 DEF Vcodec, ConsumerNext, Consume

\* The gateway and the consumer group, over the log they share, implement
\* UploadContract (upload.go with consume_video_chunks in processor.rs): every
\* step is an acceptance, an arrival, a processing of a whole accepted video, or
\* invisible.
THEOREM IngestImplementsContract == IngestSpec => ImplementsContract
<1>1. IngestInit => Contract!Init
  BY RefinesInit
<1>2. IngestInv /\ [IngestNext]_ingestVars => [Contract!Next]_(Contract!contractVars)
  <2>1. ASSUME UNCHANGED ingestVars PROVE UNCHANGED Contract!contractVars
    BY <2>1, Stutter DEF ingestVars, producerVars, consumerVars, historyVars, Accepted
  <2> QED
    BY <2>1, GatewayRefines, VcodecRefines DEF IngestNext
<1> QED
  BY <1>1, <1>2, IngestInvariant, PTL DEF IngestSpec, ImplementsContract, Contract!Spec
=============================================================================
