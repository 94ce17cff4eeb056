------------------------ MODULE UploadProducerProofs ------------------------
(***************************************************************************)
(* The upload path for any number of uploads, partitions, chunks, retries  *)
(* and crashes and any capacity of sem.  That processFile has waited for   *)
(* its producers when it returns is not inductive: it needs to know that   *)
(* a token is held for exactly the producers in flight (TokensCount), that *)
(* only a processFile in its loops has producers (Phases), and that every  *)
(* chunk handed to a producer is in flight, in the topic, or reported as   *)
(* failed (Accounted).                                                     *)
(***************************************************************************)
EXTENDS UploadProducer, FiniteSetTheorems, TLAPS

\* The type invariant of the handlers, tasks, temporary files and the topic.
THEOREM TypeSafety == Spec => []TypeOK
<1> USE ProducerAssumption
<1>1. Init => TypeOK
  <2> SUFFICES ASSUME Init PROVE TypeOK
    OBVIOUS
  <2>1. <<>> \in Seq(Record)
    OBVIOUS
  <2> QED
    BY <2>1 DEF Init, TypeOK
<1>2. TypeOK /\ [Next]_vars => TypeOK'
  <2> SUFFICES ASSUME TypeOK, [Next]_vars PROVE TypeOK'
    OBVIOUS
  <2> USE DEF TypeOK, fileVars, taskVars
  <2>1. ASSUME NEW u \in Uploads, CreateTemp(u) \/ Refuse(u) \/ ReadChunks(u)
                                    \/ ReadFails(u) \/ Return(u)
        PROVE  TypeOK'
    BY <2>1 DEF CreateTemp, Refuse, ReadChunks, ReadFails, Return
  <2>2. ASSUME NEW u \in Uploads, NEW n \in 0..MaxChunks, Accept(u, n)
        PROVE  TypeOK'
    BY <2>2 DEF Accept
  <2>3. ASSUME NEW u \in Uploads, Spawn(u) PROVE TypeOK'
    <3>1. /\ spawned[u] + 1 \in 0..MaxChunks
          /\ flying[u] \cup {spawned[u]} \in SUBSET Nat
      BY <2>3 DEF Spawn, MoreChunks, InRange
    <3> QED
      BY <2>3, <3>1 DEF Spawn
  <2>4. ASSUME NEW u \in Uploads, Drain(u) PROVE TypeOK'
    BY <2>4 DEF Drain
  <2>5. ASSUME NEW u \in Uploads, NEW i \in flying[u], Sent(u, i) \/ GiveUp(u, i)
        PROVE  TypeOK'
    <3>1. flying[u] \ {i} \in SUBSET Nat /\ failed[u] \cup {i} \in SUBSET Nat
      BY <2>5
    <3> QED
      BY <2>5, <3>1 DEF Sent, GiveUp
  <2>6. ASSUME NEW u \in Uploads, NEW i \in flying[u], NEW p \in Partitions,
               Write(u, i, p)
        PROVE  TypeOK'
    <3>1. RecordOf(u, i) \in Record
      BY DEF RecordOf, ChunkRecord, Record
    <3>2. Append(log[p], RecordOf(u, i)) \in Seq(Record)
      BY <3>1
    <3>3. log' \in [Partitions -> Seq(Record)]
      BY <2>6, <3>2 DEF Write
    <3>4. retries' \in 0..MaxRetries
      BY <2>6 DEF Write
    <3> QED
      BY <2>6, <3>3, <3>4 DEF Write
  <2>7. CASE Crash
    BY <2>7 DEF Crash
  <2>8. CASE UNCHANGED vars
    BY <2>8 DEF vars
  <2> QED
    BY <2>1, <2>2, <2>3, <2>4, <2>5, <2>6, <2>7, <2>8 DEF Next, Progress, Failure
<1> QED
  BY <1>1, <1>2, PTL DEF Spec

Phases ==
    \A u \in Uploads :
        /\ handler[u] # "accepted" => proc[u] = "none"
        /\ proc[u] \in {"none", "reading"} => spawned[u] = 0
        /\ proc[u] # "spawning" => flying[u] = {}
        /\ proc[u] = "done" => spawned[u] = size[u]
        /\ spawned[u] <= size[u]
        /\ flying[u] \subseteq 0..(spawned[u] - 1)

\* The producers in flight are finitely many, so the tokens in sem can be counted.
LEMMA TokensCount ==
    ASSUME TypeOK, Phases, NEW u \in Uploads
    PROVE  /\ IsFiniteSet(flying[u])
           /\ Cardinality(flying[u]) \in Nat
           /\ Tokens(u) = Cardinality(flying[u]) + drained[u]
           /\ Tokens(u) \in Nat
<1>1. IsFiniteSet(0..(spawned[u] - 1))
  BY FS_Interval DEF TypeOK
<1>2. IsFiniteSet(flying[u])
  BY <1>1, FS_Subset DEF Phases
<1> QED
  BY <1>2, FS_CardinalityType DEF Tokens, TypeOK

\* A token of sem is held for every producer in flight; once processFile has put
\* cap(sem) tokens of its own into sem there is room for no other.
LEMMA ProducersInvariant == Spec => [](Phases /\ ProducersBounded)
<1> USE ProducerAssumption
<1>1. Init => Phases /\ ProducersBounded
  <2> SUFFICES ASSUME Init PROVE Phases /\ ProducersBounded
    OBVIOUS
  <2>1. \A u \in Uploads : Tokens(u) = 0
    BY FS_EmptySet DEF Init, Tokens
  <2> QED
    BY <2>1 DEF Init, Phases, ProducersBounded
<1>2. TypeOK /\ Phases /\ ProducersBounded /\ [Next]_vars
        => Phases' /\ ProducersBounded'
  <2> SUFFICES ASSUME TypeOK, Phases, ProducersBounded, [Next]_vars
               PROVE  Phases' /\ ProducersBounded'
    OBVIOUS
  <2>0. \A u \in Uploads : /\ IsFiniteSet(flying[u])
                           /\ Cardinality(flying[u]) \in Nat
                           /\ drained[u] \in Nat
                           /\ Cardinality(flying[u]) + drained[u] <= SemCap
                           /\ Tokens(u) = Cardinality(flying[u]) + drained[u]
    BY TokensCount DEF ProducersBounded, TypeOK
  <2>a. ASSUME UNCHANGED <<flying, drained>> PROVE ProducersBounded'
    BY <2>a DEF ProducersBounded, Tokens
  <2>b. ASSUME \A u \in Uploads : Cardinality(flying'[u]) + drained'[u] <= SemCap
        PROVE  ProducersBounded'
    BY <2>b DEF ProducersBounded, Tokens
  <2>1. ASSUME NEW u \in Uploads, CreateTemp(u) \/ Refuse(u) \/ ReadChunks(u)
                                    \/ ReadFails(u)
        PROVE  Phases' /\ ProducersBounded'
    <3>1. CASE CreateTemp(u)
      BY <3>1, <2>a DEF CreateTemp, Phases, TypeOK, taskVars
    <3>2. CASE Refuse(u)
      BY <3>2, <2>a DEF Refuse, Phases, TypeOK, taskVars
    <3>3. CASE ReadChunks(u)
      BY <3>3, <2>a DEF ReadChunks, Phases, TypeOK, fileVars
    <3>4. CASE ReadFails(u)
      BY <3>4, <2>a DEF ReadFails, Phases, TypeOK
    <3> QED
      BY <2>1, <3>1, <3>2, <3>3, <3>4
  <2>2. ASSUME NEW u \in Uploads, NEW n \in 0..MaxChunks, Accept(u, n)
        PROVE  Phases' /\ ProducersBounded'
    BY <2>2, <2>a DEF Accept, Phases, TypeOK
  <2>3. ASSUME NEW u \in Uploads, Spawn(u) PROVE Phases' /\ ProducersBounded'
    <3>1. /\ flying' = [flying EXCEPT ![u] = @ \cup {spawned[u]}]
          /\ spawned' = [spawned EXCEPT ![u] = @ + 1]
          /\ UNCHANGED <<handler, size, proc, drained>>
          /\ proc[u] = "spawning" /\ spawned[u] < size[u] /\ Tokens(u) < SemCap
      BY <2>3 DEF Spawn, MoreChunks, InRange, SemFree, fileVars
    <3>2. Cardinality(flying[u] \cup {spawned[u]})
              \in {Cardinality(flying[u]), Cardinality(flying[u]) + 1}
      BY <2>0, FS_AddElement
    <3>3. \A w \in Uploads : Cardinality(flying'[w]) + drained'[w] <= SemCap
      <4> TAKE w \in Uploads
      <4>1. CASE w = u
        BY <2>0, <3>1, <3>2, <4>1 DEF TypeOK
      <4>2. CASE w # u
        BY <2>0, <3>1, <4>2 DEF TypeOK
      <4> QED
        BY <4>1, <4>2
    <3>4. Phases'
      BY <3>1 DEF Phases, TypeOK
    <3> QED
      BY <2>b, <3>3, <3>4
  <2>4. ASSUME NEW u \in Uploads, Drain(u) PROVE Phases' /\ ProducersBounded'
    <3>1. /\ drained' = [drained EXCEPT ![u] = @ + 1]
          /\ UNCHANGED <<handler, size, proc, spawned, flying>>
          /\ Tokens(u) < SemCap
      BY <2>4 DEF Drain, SemFree, fileVars
    <3>2. \A w \in Uploads : Cardinality(flying'[w]) + drained'[w] <= SemCap
      <4> TAKE w \in Uploads
      <4>1. CASE w = u
        BY <2>0, <3>1, <4>1 DEF TypeOK
      <4>2. CASE w # u
        BY <2>0, <3>1, <4>2 DEF TypeOK
      <4> QED
        BY <4>1, <4>2
    <3>3. Phases'
      BY <3>1 DEF Phases
    <3> QED
      BY <2>b, <3>2, <3>3
  <2>5. ASSUME NEW u \in Uploads, Return(u) PROVE Phases' /\ ProducersBounded'
    <3>1. /\ proc' = [proc EXCEPT ![u] = "done"]
          /\ UNCHANGED <<handler, size, spawned, drained, flying>>
          /\ proc[u] = "spawning" /\ spawned[u] = size[u] /\ drained[u] = SemCap
      BY <2>5 DEF Return, Finished, AllDrained
    <3>2. Cardinality(flying[u]) = 0
      BY <2>0, <3>1
    <3>3. flying[u] = {}
      BY <2>0, <3>2, FS_EmptySet
    <3> QED
      BY <2>a, <3>1, <3>3 DEF Phases, TypeOK
  <2>6. ASSUME NEW u \in Uploads, NEW i \in flying[u], Sent(u, i) \/ GiveUp(u, i)
        PROVE  Phases' /\ ProducersBounded'
    <3>1. /\ flying' = [flying EXCEPT ![u] = @ \ {i}]
          /\ UNCHANGED <<handler, size, proc, spawned, drained>>
      BY <2>6 DEF Sent, GiveUp, fileVars
    <3>2. Cardinality(flying[u] \ {i}) = Cardinality(flying[u]) - 1
      BY <2>0, <2>6, FS_RemoveElement
    <3>3. \A w \in Uploads : Cardinality(flying'[w]) + drained'[w] <= SemCap
      <4> TAKE w \in Uploads
      <4>1. CASE w = u
        BY <2>0, <3>1, <3>2, <4>1 DEF TypeOK
      <4>2. CASE w # u
        BY <2>0, <3>1, <4>2 DEF TypeOK
      <4> QED
        BY <4>1, <4>2
    <3>4. Phases'
      BY <3>1 DEF Phases, TypeOK
    <3> QED
      BY <2>b, <3>3, <3>4
  <2>7. ASSUME NEW u \in Uploads, NEW i \in flying[u], NEW p \in Partitions,
               Write(u, i, p)
        PROVE  Phases' /\ ProducersBounded'
    BY <2>7, <2>a DEF Write, Phases, fileVars, taskVars
  <2>8. CASE Crash
    <3>1. \A w \in Uploads : Cardinality(flying'[w]) + drained'[w] <= SemCap
      BY <2>0, <2>8, FS_EmptySet DEF Crash, TypeOK
    <3>2. Phases'
      BY <2>8 DEF Crash, Phases, TypeOK
    <3> QED
      BY <2>b, <3>1, <3>2
  <2>9. CASE UNCHANGED vars
    BY <2>9, <2>a DEF vars, fileVars, taskVars, Phases
  <2> QED
    BY <2>1, <2>2, <2>3, <2>4, <2>5, <2>6, <2>7, <2>8, <2>9
       DEF Next, Progress, Failure
<1> QED
  BY <1>1, <1>2, TypeSafety, PTL DEF Spec

\* However many chunks a file has, the channel sem keeps the producers of one
\* upload, together with the final loop, within its capacity.
THEOREM SemBoundsProducers == Spec => []ProducersBounded
  BY ProducersInvariant, PTL

Accounted ==
    \A u \in Uploads : proc[u] \in {"spawning", "done"} =>
        \A i \in 0..(spawned[u] - 1) :
            i \in flying[u] \/ InLog(u, i) \/ i \in failed[u]

\* What a producer of a chunk writes is a record.
LEMMA RecordType ==
    ASSUME TypeOK, NEW u \in Uploads, NEW i \in flying[u]
    PROVE  RecordOf(u, i) \in Record
<1>1. i \in Nat /\ size[u] \in Nat
  BY ProducerAssumption DEF TypeOK
<1> QED
  BY <1>1 DEF RecordOf, ChunkRecord, Record

\* A write appends one record and disturbs no other.
LEMMA WriteAppends ==
    ASSUME TypeOK, NEW u \in Uploads, NEW i \in flying[u], NEW p \in Partitions,
           Write(u, i, p)
    PROVE  \A q \in Partitions : \A k \in DOMAIN log'[q] :
              \/ k \in DOMAIN log[q] /\ log'[q][k] = log[q][k]
              \/ log'[q][k] = RecordOf(u, i)
<1>1. log' = [log EXCEPT ![p] = Append(@, RecordOf(u, i))]
  BY DEF Write
<1>2. log[p] \in Seq(Record) /\ RecordOf(u, i) \in Record
  BY RecordType DEF TypeOK
<1>3. \A k \in DOMAIN Append(log[p], RecordOf(u, i)) :
          \/ k \in DOMAIN log[p] /\ Append(log[p], RecordOf(u, i))[k] = log[p][k]
          \/ Append(log[p], RecordOf(u, i))[k] = RecordOf(u, i)
  BY <1>2
<1> DEFINE r == RecordOf(u, i)
<1> HIDE DEF r
<1>4. \A q \in Partitions : log'[q] = IF q = p THEN Append(log[p], r) ELSE log[q]
  BY <1>1 DEF TypeOK, r
<1> QED
  BY <1>3, <1>4 DEF r

\* A record that is in the topic stays there.
LEMMA LogGrows ==
    ASSUME TypeOK, NEW u \in Uploads, NEW i \in flying[u], NEW p \in Partitions,
           Write(u, i, p)
    PROVE  \A w, j : InLog(w, j) => InLog(w, j)'
<1> SUFFICES ASSUME NEW w, NEW j, InLog(w, j) PROVE InLog(w, j)'
  OBVIOUS
<1>1. log' = [log EXCEPT ![p] = Append(@, RecordOf(u, i))]
  BY DEF Write
<1>a. PICK q \in Partitions :
          \E k \in DOMAIN log[q] : log[q][k].video = w /\ log[q][k].idx = j
  BY DEF InLog
<1>2. PICK k \in DOMAIN log[q] : log[q][k].video = w /\ log[q][k].idx = j
  BY <1>a
<1>3. log[p] \in Seq(Record) /\ RecordOf(u, i) \in Record
  BY RecordType DEF TypeOK
<1>4. \A n \in DOMAIN log[p] :
          /\ n \in DOMAIN Append(log[p], RecordOf(u, i))
          /\ Append(log[p], RecordOf(u, i))[n] = log[p][n]
  BY <1>3
<1> DEFINE r == RecordOf(u, i)
<1> HIDE DEF r
<1>b. log'[q] = IF q = p THEN Append(log[p], r) ELSE log[q]
  BY <1>1 DEF TypeOK, r
<1>5. k \in DOMAIN log'[q] /\ log'[q][k] = log[q][k]
  BY <1>2, <1>4, <1>b DEF r
<1> QED
  BY <1>2, <1>5 DEF InLog

\* No chunk falls between the loop, its producer and the topic: what processFile
\* handed to a goroutine is still in flight, written, or reported as failed.
LEMMA AccountedInvariant == Spec => []Accounted
<1> USE ProducerAssumption
<1>1. Init => Accounted
  BY DEF Init, Accounted
<1>2. TypeOK /\ Phases /\ Accounted /\ [Next]_vars => Accounted'
  <2> SUFFICES ASSUME TypeOK, Phases, Accounted, [Next]_vars PROVE Accounted'
    OBVIOUS
  <2>a. ASSUME UNCHANGED log PROVE \A w, i : InLog(w, i)' <=> InLog(w, i)
    BY <2>a DEF InLog
  <2>1. ASSUME NEW u \in Uploads, CreateTemp(u) \/ Refuse(u) \/ Drain(u)
        PROVE  Accounted'
    BY <2>1 DEF CreateTemp, Refuse, Drain, Accounted, InLog, fileVars, taskVars
  <2>2. ASSUME NEW u \in Uploads, ReadChunks(u) \/ ReadFails(u) \/ Return(u)
        PROVE  Accounted'
    <3>1. /\ UNCHANGED <<spawned, flying, failed, log>>
          /\ \E to \in {"spawning", "failed", "done"} : proc' = [proc EXCEPT ![u] = to]
          /\ spawned[u] = 0 \/ proc[u] = "spawning"
      BY <2>2 DEF ReadChunks, ReadFails, Return, Phases
    <3>2. SUFFICES ASSUME NEW w \in Uploads, proc'[w] \in {"spawning", "done"},
                          NEW i \in 0..(spawned[w] - 1)
                   PROVE  i \in flying[w] \/ InLog(w, i) \/ i \in failed[w]
      BY <2>a, <3>1 DEF Accounted
    <3>3. proc[w] \in {"spawning", "done"}
      BY <3>1, <3>2 DEF TypeOK
    <3> QED
      BY <3>3 DEF Accounted
  <2>3. ASSUME NEW u \in Uploads, NEW n \in 0..MaxChunks, Accept(u, n)
        PROVE  Accounted'
    BY <2>3 DEF Accept, Accounted, InLog, TypeOK
  <2>4. ASSUME NEW u \in Uploads, Spawn(u) PROVE Accounted'
    <3>1. /\ flying' = [flying EXCEPT ![u] = @ \cup {spawned[u]}]
          /\ spawned' = [spawned EXCEPT ![u] = @ + 1]
          /\ UNCHANGED <<proc, failed, log>>
      BY <2>4 DEF Spawn
    <3>3. SUFFICES ASSUME NEW w \in Uploads, proc[w] \in {"spawning", "done"},
                          NEW i \in 0..(spawned'[w] - 1)
                   PROVE  i \in flying'[w] \/ InLog(w, i) \/ i \in failed[w]
      BY <2>a, <3>1 DEF Accounted
    <3>2. flying[w] \subseteq flying'[w]
      BY <3>1 DEF TypeOK
    <3>4. CASE i \in 0..(spawned[w] - 1)
      BY <3>2, <3>3, <3>4 DEF Accounted
    <3>5. CASE w = u /\ i = spawned[u]
      BY <3>1, <3>5 DEF TypeOK
    <3> QED
      BY <3>1, <3>4, <3>5 DEF TypeOK
  <2>5. ASSUME NEW u \in Uploads, NEW i \in flying[u], Sent(u, i) \/ GiveUp(u, i)
        PROVE  Accounted'
    <3>1. /\ flying' = [flying EXCEPT ![u] = @ \ {i}]
          /\ UNCHANGED <<proc, spawned, log>>
          /\ \/ InLog(u, i) /\ UNCHANGED failed
             \/ failed' = [failed EXCEPT ![u] = @ \cup {i}]
      BY <2>5 DEF Sent, GiveUp
    <3> QED
      BY <3>1 DEF Accounted, InLog, TypeOK
  <2>6. ASSUME NEW u \in Uploads, NEW i \in flying[u], NEW p \in Partitions,
               Write(u, i, p)
        PROVE  Accounted'
    <3>1. UNCHANGED <<proc, spawned, flying, failed>>
      BY <2>6 DEF Write, taskVars
    <3> QED
      BY <2>6, <3>1, LogGrows DEF Accounted
  <2>7. CASE Crash
    <3>1. /\ UNCHANGED <<spawned, failed, log>>
          /\ \A w \in Uploads : proc'[w] \in {"spawning", "done"} => proc[w] = "done"
      BY <2>7 DEF Crash, TypeOK
    <3> QED
      BY <2>a, <3>1 DEF Accounted, Phases
  <2>8. CASE UNCHANGED vars
    BY <2>8 DEF vars, fileVars, taskVars, Accounted, InLog
  <2> QED
    BY <2>1, <2>2, <2>3, <2>4, <2>5, <2>6, <2>7, <2>8 DEF Next, Progress, Failure
<1> QED
  BY <1>1, <1>2, TypeSafety, ProducersInvariant, PTL DEF Spec

\* When processFile returns it has really waited: no producer of the upload is
\* running, and each chunk is in the topic or was reported as failed.
THEOREM ReturnIsJoin == Spec => []ReturnWaitsForProducers
<1>1. Phases /\ Accounted => ReturnWaitsForProducers
  BY DEF Phases, Accounted, ReturnWaitsForProducers
<1> QED
  BY <1>1, ProducersInvariant, AccountedInvariant, PTL

\* The headers of a record are right for as long as it is in the topic: its chunk
\* number is below the number of chunks, which is that of the accepted file, and
\* it is the number of the bytes the record carries.
THEOREM TopicIsTruthful == Spec => []LogIsTruthful
<1> USE ProducerAssumption
<1>1. Init => LogIsTruthful
  BY DEF Init, LogIsTruthful
<1>2. TypeOK /\ Phases /\ LogIsTruthful /\ [Next]_vars => LogIsTruthful'
  <2> SUFFICES ASSUME TypeOK, Phases, LogIsTruthful, [Next]_vars
               PROVE  LogIsTruthful'
    OBVIOUS
  <2>0. \A q \in Partitions : \A k \in DOMAIN log[q] : log[q][k] \in Record
    BY DEF TypeOK
  <2>1. ASSUME UNCHANGED log,
               \A w \in Uploads : handler[w] = "accepted" =>
                   handler'[w] = "accepted" /\ size'[w] = size[w]
        PROVE  LogIsTruthful'
    BY <2>0, <2>1 DEF LogIsTruthful, Record
  <2>2. ASSUME NEW u \in Uploads, CreateTemp(u) \/ Refuse(u) PROVE LogIsTruthful'
    BY <2>1, <2>2 DEF CreateTemp, Refuse, TypeOK
  <2>3. ASSUME NEW u \in Uploads, NEW n \in 0..MaxChunks, Accept(u, n)
        PROVE  LogIsTruthful'
    BY <2>1, <2>3 DEF Accept, TypeOK
  <2>4. ASSUME NEW u \in Uploads, ReadChunks(u) \/ ReadFails(u) \/ Spawn(u)
                                    \/ Drain(u) \/ Return(u)
        PROVE  LogIsTruthful'
    BY <2>1, <2>4 DEF ReadChunks, ReadFails, Spawn, Drain, Return, fileVars
  <2>5. ASSUME NEW u \in Uploads, NEW i \in flying[u], Sent(u, i) \/ GiveUp(u, i)
        PROVE  LogIsTruthful'
    BY <2>1, <2>5 DEF Sent, GiveUp, fileVars
  <2>6. ASSUME NEW u \in Uploads, NEW i \in flying[u], NEW p \in Partitions,
               Write(u, i, p)
        PROVE  LogIsTruthful'
    <3>1. UNCHANGED <<handler, size>>
      BY <2>6 DEF Write, fileVars
    <3>2. handler[u] = "accepted" /\ i < size[u]
      BY <2>6 DEF Phases, TypeOK
    <3>3. LET r == RecordOf(u, i)
          IN  /\ handler[r.video] = "accepted" /\ r.total = size[r.video]
              /\ r.idx < r.total /\ r.idx = r.data
      BY <3>2 DEF RecordOf, ChunkRecord
    <3> QED
      BY <2>6, <3>1, <3>3, WriteAppends DEF LogIsTruthful
  <2>7. CASE Crash
    BY <2>1, <2>7 DEF Crash, TypeOK
  <2>8. CASE UNCHANGED vars
    BY <2>1, <2>8 DEF vars, fileVars, taskVars
  <2> QED
    BY <2>2, <2>3, <2>4, <2>5, <2>6, <2>7, <2>8 DEF Next, Progress, Failure
<1> QED
  BY <1>1, <1>2, TypeSafety, ProducersInvariant, PTL DEF Spec
=============================================================================
