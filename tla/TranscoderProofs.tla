--------------------------- MODULE TranscoderProofs ---------------------------
(***************************************************************************)
(* The transcoding of a video for any ladder, any files per rung and any   *)
(* number of permits.  The hazards are about what has ended when: Joined   *)
(* says which encoders and uploads are over at each point of the two       *)
(* tasks, Uploads which files have been given to an upload and are still   *)
(* there to be opened.  TypeOK needs that the permits and the encoders at  *)
(* work add up (PermitsBalance), or a count could leave its range.         *)
(***************************************************************************)
EXTENDS Transcoder, FiniteSetTheorems, TLAPS

Encoding(g) == {r \in Res : g[r] = "encoding"}

\* At most MaxPermits ladder encoders run at a time, and a permit is never lost
\* or made up on a path through a rung's task.
PermitsBalance == permits + Cardinality(Encoding(rung)) = MaxPermits

Over == {"joined", "announced", "removing", "done"}

\* What each task has waited for.
Joined ==
    /\ resTask # "generating" => \A h \in Pre : pre[h] # "encoding"
    /\ resTask \in {"generating", "waiting"} => up[Orig] = "none"
    /\ resTask \in {"original", "done"} => \A f \in PreFiles : Settled(f)
    /\ resTask = "done" => Settled(Orig)
    /\ segTask \notin {"spawning", "joining"} => \A r \in Res : rung[r] # "encoding"
    /\ segTask # "spawning" => \A r \in Res : rung[r] # "todo"
    /\ segTask \notin {"waiting", "done"} => up[Master] = "none" /\ listed = {}
    /\ segTask = "done" => \A f \in DirFiles \cup {Master} : Settled(f)
    /\ stage \in Over => resTask = "done" /\ segTask \in {"done", "panicked"}

\* Which uploads were spawned, and what they are to find.
Spawned ==
    /\ \A h \in Pre : pre[h] = "ok" => up[PreFile(h)] # "none"
    /\ \A r \in Res : rung[r] = "ok" => up[PartFile(r, Playlist)] # "none"
    /\ \A r \in listed : rung[r] = "ok"
    /\ stage = "working" => Orig \in disk

\* The message to verify_nsfw is about an upload that has ended.
Ended == {"stored", "cut", "failed"}

Verified ==
    /\ stage \in {"working", "joined"} => verify = None
    /\ verify \notin {None, Orig} => \E h \in Pre : verify = PreFile(h) /\ up[verify] \in Ended

Inv == TypeOK /\ PermitsBalance /\ Joined /\ Spawned /\ Verified /\ UploadFindsItsFile

-----------------------------------------------------------------------------
\* The kinds of files are told apart by their names.
LEMMA FilesDiffer ==
    /\ Orig # Master
    /\ \A h \in Pre : PreFile(h) # Orig /\ PreFile(h) # Master /\ PreFile(h) \notin DirFiles
    /\ \A g, h \in Pre : PreFile(g) = PreFile(h) => g = h
    /\ Orig \notin DirFiles /\ Master \notin DirFiles
    /\ Orig \notin PreFiles /\ Master \notin PreFiles
    /\ {Orig, Master} \subseteq Files /\ PreFiles \subseteq Files /\ DirFiles \subseteq Files
    /\ \A r \in Res : RungFiles(r) \subseteq DirFiles
    /\ \A r \in Res : PartFile(r, Playlist) \in RungFiles(r) \ Segments(r)
    /\ \A h \in Pre : PreFile(h) \in PreFiles
    /\ \A f \in PreFiles : \E h \in Pre : f = PreFile(h)
<1>1. Orig # Master
  BY DEF Orig, Master
<1>2. ASSUME NEW h \in Pre
      PROVE  PreFile(h) # Orig /\ PreFile(h) # Master /\ PreFile(h) \notin DirFiles
  <2>1. \A r, k : PreFile(h) # PartFile(r, k)
    BY DEF PreFile, PartFile
  <2>2. PreFile(h) # Orig /\ PreFile(h) # Master
    BY DEF PreFile, Orig, Master
  <2> QED
    BY <2>1, <2>2 DEF DirFiles, RungFiles, Segments
<1>3. \A g, h \in Pre : PreFile(g) = PreFile(h) => g = h
  BY DEF PreFile
<1>4. Orig \notin DirFiles /\ Master \notin DirFiles
  <2>1. \A r, k : Orig # PartFile(r, k) /\ Master # PartFile(r, k)
    BY DEF Orig, Master, PartFile
  <2> QED
    BY <2>1 DEF DirFiles, RungFiles, Segments
<1>5. Orig \notin PreFiles /\ Master \notin PreFiles
  BY <1>2 DEF PreFiles
<1>6. /\ {Orig, Master} \subseteq Files /\ PreFiles \subseteq Files /\ DirFiles \subseteq Files
      /\ \A r \in Res : RungFiles(r) \subseteq DirFiles
  BY DEF Files, DirFiles
<1>7. /\ \A h \in Pre : PreFile(h) \in PreFiles
      /\ \A f \in PreFiles : \E h \in Pre : f = PreFile(h)
  BY DEF PreFiles
<1>8. \A r \in Res : PartFile(r, Playlist) \in RungFiles(r) \ Segments(r)
  BY TranscoderAssumption DEF RungFiles, Segments, PartFile
<1> QED
  BY <1>1, <1>2, <1>3, <1>4, <1>5, <1>6, <1>7, <1>8

\* When both tasks were joined and the ladder's did not panic, every upload is over.
LEMMA AllSettled ==
    ASSUME Inv, stage \in Over, segTask # "panicked"
    PROVE  \A f \in Files : Settled(f)
BY DEF Inv, Joined, Files

\* Taking a permit and giving it back.
LEMMA PermitTaken ==
    ASSUME NEW r \in Res, NEW g \in [Res -> {"todo", "encoding", "ok", "failed"}],
           g[r] # "encoding"
    PROVE  /\ Cardinality(Encoding([g EXCEPT ![r] = "encoding"])) = Cardinality(Encoding(g)) + 1
           /\ Cardinality(Encoding(g)) \in Nat
<1>1. IsFiniteSet(Encoding(g)) /\ r \notin Encoding(g)
  BY FS_Subset, TranscoderAssumption DEF Encoding
<1>2. Encoding([g EXCEPT ![r] = "encoding"]) = Encoding(g) \cup {r}
  BY DEF Encoding
<1> QED
  BY <1>1, <1>2, FS_AddElement, FS_CardinalityType

LEMMA PermitGivenBack ==
    ASSUME NEW r \in Res, NEW g \in [Res -> {"todo", "encoding", "ok", "failed"}],
           g[r] = "encoding", NEW s \in {"ok", "failed"}
    PROVE  /\ Cardinality(Encoding([g EXCEPT ![r] = s])) = Cardinality(Encoding(g)) - 1
           /\ Cardinality(Encoding(g)) \in Nat
           /\ Cardinality(Encoding([g EXCEPT ![r] = s])) \in Nat
<1>1. IsFiniteSet(Encoding(g)) /\ r \in Encoding(g)
  BY FS_Subset, TranscoderAssumption DEF Encoding
<1>2. Encoding([g EXCEPT ![r] = s]) = Encoding(g) \ {r}
  BY DEF Encoding
<1>3. IsFiniteSet(Encoding(g) \ {r})
  BY <1>1, FS_Subset
<1> QED
  BY <1>1, <1>2, <1>3, FS_RemoveElement, FS_CardinalityType

-----------------------------------------------------------------------------
\* The steps of an upload.
LEMMA UploadSteps ==
    ASSUME Inv, NEW f \in Files, Open(f) \/ Send(f) \/ CutShort(f)
    PROVE  Inv'
<1> USE DEF Inv, taskVars, cleanVars
<1>1. PICK result \in Ended \cup {"sending"} :
        /\ up' = [up EXCEPT ![f] = result]
        /\ up[f] \in {"starting", "sending"}
        /\ result = "sending" => up[f] = "starting"
  BY DEF Open, Send, CutShort, Ended
<1>2. /\ UNCHANGED <<pre, resTask, rung, permits, segTask, listed, stage, verify,
                     pending, stuck, disk>>
  BY DEF Open, Send, CutShort
<1>3. TypeOK' /\ PermitsBalance'
  BY <1>1, <1>2 DEF TypeOK, PermitsBalance, Encoding, Ended
<1>4. /\ \A g \in Files : up[g] = "none" <=> up'[g] = "none"
      /\ \A g \in Files : Settled(g) => up'[g] = up[g]
      /\ \A g \in Files : up'[g] = "starting" => up[g] = "starting"
  BY <1>1 DEF TypeOK, Settled, Reported, Ended
<1>5. \A g \in Files : Settled(g) => Settled(g)'
  BY <1>4 DEF Settled, Reported
<1>6. Joined'
  BY <1>2, <1>4, <1>5, FilesDiffer DEF Joined
<1>7. Spawned'
  BY <1>2, <1>4, FilesDiffer DEF Spawned
<1>8. Verified'
  <2>1. ASSUME NEW g \in Files, up[g] \in Ended PROVE up'[g] = up[g]
    BY <1>4, <2>1 DEF Settled, Reported, Ended
  <2> QED
    BY <1>2, <2>1, FilesDiffer DEF Verified
<1>9. UploadFindsItsFile'
  BY <1>2, <1>4 DEF UploadFindsItsFile
<1> QED
  BY <1>3, <1>6, <1>7, <1>8, <1>9

\* The steps of the two tasks that only move a task on.
LEMMA PreSteps ==
    ASSUME Inv, NEW h \in Pre, PreEncoded(h) \/ PreFailed(h)
    PROVE  Inv'
<1> USE DEF Inv, taskVars, cleanVars
<1>1. /\ stage = "working" /\ pre[h] = "encoding"
      /\ UNCHANGED <<resTask, rung, permits, segTask, listed, stage, verify, pending, stuck>>
  BY DEF PreEncoded, PreFailed
<1>2. /\ disk \subseteq disk' /\ disk' \subseteq disk \cup {PreFile(h)}
      /\ \/ /\ pre' = [pre EXCEPT ![h] = "failed"] /\ up' = up
         \/ /\ pre' = [pre EXCEPT ![h] = "ok"] /\ PreFile(h) \in disk'
            /\ up' = [up EXCEPT ![PreFile(h)] = "starting"]
  BY DEF PreEncoded, PreFailed
<1>3. PreFile(h) \in Files
  BY FilesDiffer
<1>4. TypeOK' /\ PermitsBalance'
  BY <1>1, <1>2, <1>3 DEF TypeOK, PermitsBalance, Encoding
<1>5. resTask = "generating"
  BY <1>1 DEF Joined, TypeOK
<1>6. /\ \A f \in DirFiles \cup {Orig, Master} : up'[f] = up[f]
      /\ \A f \in Files : up'[f] = "none" => up[f] = "none"
      /\ \A f \in Files : up'[f] = up[f] \/ (f = PreFile(h) /\ f \in disk')
      /\ \A g \in Pre : g # h => up'[PreFile(g)] = up[PreFile(g)] /\ pre'[g] = pre[g]
      /\ pre'[h] = "ok" => up'[PreFile(h)] = "starting"
  BY <1>2, <1>3, FilesDiffer DEF TypeOK
<1>7. Joined'
  BY <1>1, <1>5, <1>6 DEF Joined, Settled, Reported, Over
<1>8. Spawned'
  BY <1>1, <1>2, <1>6, FilesDiffer DEF Spawned
<1>9. Verified'
  BY <1>1 DEF Verified
<1>a. UploadFindsItsFile'
  BY <1>1, <1>2, <1>6 DEF UploadFindsItsFile
<1> QED
  BY <1>4, <1>7, <1>8, <1>9, <1>a

LEMMA ResJoinStep ==
    ASSUME Inv, ResJoin
    PROVE  Inv'
<1> USE DEF Inv, taskVars, cleanVars
<1>1. /\ stage = "working"
      /\ UNCHANGED <<pre, rung, permits, segTask, listed, stage, verify, pending, stuck, disk>>
      /\ resTask # "done"
  BY DEF ResJoin
<1>2. Orig \in Files /\ Orig \in disk
  BY <1>1, FilesDiffer DEF Spawned
<1>3. TypeOK' /\ PermitsBalance'
  BY <1>1, <1>2 DEF TypeOK, PermitsBalance, Encoding, ResJoin
<1>4. \A f \in Files \ {Orig} : up'[f] = up[f]
  BY <1>2 DEF ResJoin, TypeOK
<1>5. \A f \in Files \ {Orig} : Settled(f) => Settled(f)'
  BY <1>4 DEF Settled, Reported
<1>6. /\ resTask' # "generating" => \A h \in Pre : pre[h] # "encoding"
      /\ resTask' \in {"generating", "waiting"} => up'[Orig] = "none"
      /\ resTask' \in {"original", "done"} => \A f \in PreFiles : Settled(f)'
      /\ resTask' = "done" => Settled(Orig)'
  <2>1. CASE resTask = "generating"
    BY <2>1 DEF ResJoin, Joined
  <2>2. CASE resTask = "waiting"
    BY <1>5, <2>2, FilesDiffer DEF ResJoin, Joined, PreUploadsDone, PreUploadsJoined
  <2>3. CASE resTask = "original"
    BY <1>5, <2>3, FilesDiffer DEF ResJoin, Joined, Settled, Reported
  <2> QED
    BY <1>1, <2>1, <2>2, <2>3 DEF TypeOK
<1>7. Joined'
  BY <1>1, <1>4, <1>5, <1>6, FilesDiffer DEF Joined, Over
<1>8. Spawned'
  BY <1>1, <1>4, FilesDiffer DEF Spawned
<1>9. Verified'
  BY <1>1 DEF Verified
<1>a. UploadFindsItsFile'
  BY <1>1, <1>2, <1>4 DEF UploadFindsItsFile
<1> QED
  BY <1>3, <1>7, <1>8, <1>9, <1>a

\* The steps of the ladder.
LEMMA RungSteps ==
    ASSUME Inv, NEW r \in Res, StartRung(r) \/ RungEncoded(r) \/ RungFailed(r)
    PROVE  Inv'
<1> USE DEF Inv, taskVars, cleanVars
<1> DEFINE States == {"todo", "encoding", "ok", "failed"}
<1>1. /\ stage = "working"
      /\ UNCHANGED <<pre, resTask, segTask, listed, stage, verify, pending, stuck>>
  BY DEF StartRung, RungEncoded, RungFailed
<1>2. /\ rung \in [Res -> States] /\ permits \in Int
  BY DEF TypeOK
<1>3. PICK s \in {"encoding", "ok", "failed"} :
        /\ rung' = [rung EXCEPT ![r] = s]
        /\ s = "encoding" => rung[r] = "todo" /\ permits > 0 /\ permits' = permits - 1
        /\ s # "encoding" => rung[r] = "encoding" /\ permits' = permits + 1
        /\ s = "encoding" => segTask = "spawning"
        /\ s = "ok" => \E shown \in SUBSET Segments(r) :
              up' = [f \in Files |-> IF f \in shown \cup {PartFile(r, Playlist)}
                                    THEN "starting" ELSE up[f]]
        /\ s # "ok" => up' = up
        /\ disk \subseteq disk' /\ disk' \subseteq disk \cup RungFiles(r)
        /\ s = "ok" => RungFiles(r) \subseteq disk'
  BY DEF StartRung, RungEncoded, RungFailed, MayEncode, PermitFree, Dropped, DroppedAlways
<1>4. PermitsBalance' /\ permits' \in 0..MaxPermits
  <2>1. CASE s = "encoding"
    <3>1. /\ Cardinality(Encoding(rung')) = Cardinality(Encoding(rung)) + 1
          /\ Cardinality(Encoding(rung)) \in Nat
      <4>1. rung[r] # "encoding" /\ rung' = [rung EXCEPT ![r] = "encoding"]
        BY <1>3, <2>1
      <4> QED
        BY <1>2, <4>1, PermitTaken
    <3> QED
      BY <1>2, <1>3, <2>1, <3>1, TranscoderAssumption DEF PermitsBalance, TypeOK
  <2>2. CASE s # "encoding"
    <3>1. s \in {"ok", "failed"}
      BY <2>2
    <3>2. /\ Cardinality(Encoding(rung')) = Cardinality(Encoding(rung)) - 1
          /\ Cardinality(Encoding(rung)) \in Nat /\ Cardinality(Encoding(rung')) \in Nat
      BY <1>2, <1>3, <2>2, <3>1, PermitGivenBack
    <3> QED
      BY <1>2, <1>3, <2>2, <3>2, TranscoderAssumption DEF PermitsBalance, TypeOK
  <2> QED
    BY <2>1, <2>2
<1>5. RungFiles(r) \subseteq Files
  BY FilesDiffer
<1>6. TypeOK'
  <2>1. disk' \subseteq Files /\ rung' \in [Res -> States]
    BY <1>2, <1>3, <1>5 DEF TypeOK
  <2>2. up' \in [Files -> {"none", "starting", "sending", "stored", "cut", "failed"}]
    BY <1>3 DEF TypeOK
  <2> QED
    BY <1>1, <1>4, <2>1, <2>2 DEF TypeOK
<1>7. /\ \A f \in PreFiles \cup {Orig, Master} : up'[f] = up[f]
      /\ \A f \in Files : up'[f] = "none" => up[f] = "none"
      /\ \A f \in Files : up'[f] = up[f] \/ f \in disk'
      /\ \A q \in Res : q # r => rung'[q] = rung[q]
      /\ rung'[r] = "ok" => up'[PartFile(r, Playlist)] # "none"
  <2>1. PartFile(r, Playlist) \in RungFiles(r) /\ Segments(r) \subseteq RungFiles(r)
    BY FilesDiffer DEF RungFiles
  <2>2. \A f \in PreFiles \cup {Orig, Master} : f \in Files /\ f \notin RungFiles(r)
    BY FilesDiffer
  <2>3. \A q \in Res : q # r => rung'[q] = rung[q]
    BY <1>2, <1>3
  <2>4. CASE s = "ok"
    <3>1. PICK shown \in SUBSET Segments(r) :
            up' = [f \in Files |-> IF f \in shown \cup {PartFile(r, Playlist)}
                                  THEN "starting" ELSE up[f]]
      BY <1>3, <2>4
    <3>2. shown \cup {PartFile(r, Playlist)} \subseteq RungFiles(r)
      BY <2>1
    <3>3. RungFiles(r) \subseteq disk'
      BY <1>3, <2>4
    <3> QED
      BY <1>5, <2>1, <2>2, <2>3, <3>1, <3>2, <3>3
  <2>5. CASE s # "ok"
    BY <1>2, <1>3, <2>3, <2>5
  <2> QED
    BY <2>4, <2>5
<1>8. segTask \in {"spawning", "joining"}
  BY <1>1, <1>2, <1>3 DEF Joined, TypeOK
<1>9. Joined'
  <2>1. segTask = "joining" => rung'[r] # "todo"
    BY <1>2, <1>3
  <2> QED
    BY <1>1, <1>3, <1>7, <1>8, <2>1, FilesDiffer DEF Joined, Settled, Reported, Over
<1>a. Spawned'
  <2>1. r \notin listed
    BY <1>3, <1>2 DEF Spawned
  <2>2. ASSUME NEW q \in Res, rung'[q] = "ok" PROVE up'[PartFile(q, Playlist)] # "none"
    <3>1. PartFile(q, Playlist) \in Files
      BY FilesDiffer
    <3> QED
      BY <1>7, <2>2, <3>1 DEF Spawned
  <2>3. \A h \in Pre : up'[PreFile(h)] = up[PreFile(h)]
    BY <1>7, FilesDiffer
  <2> QED
    BY <1>1, <1>3, <1>7, <2>1, <2>2, <2>3 DEF Spawned, TypeOK
<1>b. Verified'
  BY <1>1 DEF Verified
<1>c. UploadFindsItsFile'
  BY <1>1, <1>3, <1>7 DEF UploadFindsItsFile
<1> QED
  BY <1>4, <1>6, <1>9, <1>a, <1>b, <1>c

LEMMA SegSteps ==
    ASSUME Inv, SegJoin \/ SegPanic
    PROVE  Inv'
<1> USE DEF Inv, taskVars, cleanVars
<1>1. /\ stage = "working"
      /\ UNCHANGED <<pre, resTask, rung, permits, stage, verify, pending, stuck>>
      /\ segTask \in {"spawning", "joining", "waiting"}
  BY DEF SegJoin, SegPanic
<1>2. Master \in Files
  BY FilesDiffer
<1>3. /\ disk \subseteq disk' /\ disk' \subseteq disk \cup {Master}
      /\ listed' \in {listed, RungsEncoded}
      /\ segTask' \in {"joining", "waiting", "done", "panicked"}
      /\ up' = up \/ (up' = [up EXCEPT ![Master] = "starting"] /\ Master \in disk'
                      /\ segTask' = "waiting" /\ segTask = "joining")
  BY DEF SegJoin, SegPanic, MasterEntries
<1>4. TypeOK' /\ PermitsBalance'
  BY <1>1, <1>2, <1>3 DEF TypeOK, PermitsBalance, Encoding, RungsEncoded
<1>5. \A f \in Files \ {Master} : up'[f] = up[f]
  BY <1>2, <1>3 DEF TypeOK
<1>6. /\ segTask' \notin {"spawning", "joining"} => \A r \in Res : rung[r] # "encoding"
      /\ \A r \in Res : rung[r] # "todo"
      /\ segTask' \notin {"waiting", "done"} => up'[Master] = "none" /\ listed' = {}
      /\ segTask' = "done" => \A f \in DirFiles \cup {Master} : Settled(f)'
  <2>1. CASE SegPanic
    BY <1>1, <2>1 DEF SegPanic, Joined
  <2>2. CASE SegJoin /\ segTask = "spawning"
    BY <2>2 DEF SegJoin, Joined
  <2>3. CASE SegJoin /\ segTask = "joining"
    BY <2>3 DEF SegJoin, Joined
  <2>4. CASE SegJoin /\ segTask = "waiting"
    BY <2>4 DEF SegJoin, Joined, SegUploadsDone, UploadsJoined, Settled, Reported
  <2> QED
    BY <1>1, <2>1, <2>2, <2>3, <2>4
<1>7. Joined'
  BY <1>1, <1>3, <1>5, <1>6, FilesDiffer DEF Joined, Over, Settled, Reported
<1>8. Spawned'
  <2>1. \A r \in Res : up'[PartFile(r, Playlist)] = up[PartFile(r, Playlist)]
    BY <1>5, FilesDiffer
  <2>2. \A h \in Pre : up'[PreFile(h)] = up[PreFile(h)]
    BY <1>5, FilesDiffer
  <2> QED
    BY <1>1, <1>3, <2>1, <2>2 DEF Spawned, RungsEncoded
<1>9. Verified'
  BY <1>1 DEF Verified
<1>a. UploadFindsItsFile'
  BY <1>1, <1>2, <1>3, <1>5 DEF UploadFindsItsFile
<1> QED
  BY <1>4, <1>7, <1>8, <1>9, <1>a

\* The receive loop: no file is removed while an upload of the two tasks that
\* were joined could still want to open it.
LEMMA LoopSteps ==
    ASSUME Inv, Join \/ Cleanup \/ Crash
    PROVE  Inv'
<1> USE DEF Inv, taskVars, cleanVars
<1>1. UNCHANGED <<pre, resTask, rung, permits, segTask, listed, up>>
  BY DEF Join, Cleanup, Announce, RemoveDir, Done, RemoveFile, Crash
<1>2. stage' \in Over \cup {"crashed"} /\ disk' \subseteq disk
  BY DEF Join, Cleanup, Announce, RemoveDir, Done, RemoveFile, Crash, Over
<1>3. Orig \in Files /\ Master \in Files /\ PreFile(H360) \in Files /\ \A h \in Pre : PreFile(h) \in Files
  BY FilesDiffer, TranscoderAssumption
<1>4. TypeOK'
  <2>1. CASE Join \/ Crash \/ Done
    BY <2>1 DEF Join, Crash, Done, TypeOK
  <2>2. CASE Announce
    BY <1>3, <2>2 DEF Announce, TypeOK
  <2>3. CASE RemoveDir
    <3>1. pending' \subseteq Files
      BY <1>3, <2>3 DEF RemoveDir, CleanupList, NamedFiles
    <3> QED
      BY <2>3, <3>1 DEF RemoveDir, TypeOK
  <2>4. ASSUME NEW f \in pending, RemoveFile(f) PROVE TypeOK'
    BY <2>4 DEF RemoveFile, TypeOK
  <2> QED
    BY <2>1, <2>2, <2>3, <2>4 DEF Cleanup
<1>5. PermitsBalance'
  BY <1>1 DEF PermitsBalance, Encoding
<1>6. stage' \in Over => resTask = "done" /\ segTask \in {"done", "panicked"}
  BY DEF Join, Cleanup, Announce, RemoveDir, Done, RemoveFile, Crash, Joined, Over
<1>7. Joined'
  BY <1>1, <1>6 DEF Joined, Settled, Reported
<1>8. Spawned'
  BY <1>1, <1>2 DEF Spawned, Over
<1>9. Verified'
  <2>1. CASE Announce
    <3>1. \A h \in Pre : pre[h] = "ok" => up[PreFile(h)] \in Ended
      <4>1. ASSUME NEW h \in Pre, pre[h] = "ok" PROVE up[PreFile(h)] \in Ended
        <5>1. resTask = "done"
          BY <2>1 DEF Announce, Joined, Over
        <5>2. Settled(PreFile(h)) /\ up[PreFile(h)] # "none"
          BY <4>1, <5>1, FilesDiffer DEF Joined, Spawned
        <5> QED
          BY <5>2 DEF Settled, Reported, Ended
      <4> QED
        BY <4>1
    <3> QED
      BY <1>1, <2>1, <3>1 DEF Announce, Verified
  <2>2. CASE Join \/ RemoveDir \/ Done \/ Crash \/ \E f \in pending : RemoveFile(f)
    <3>1. verify' = verify /\ (stage' = "joined" => stage = "working") /\ stage' # "working"
      BY <2>2 DEF Join, RemoveDir, Done, Crash, RemoveFile
    <3> QED
      BY <1>1, <3>1 DEF Verified
  <2> QED
    BY <2>1, <2>2 DEF Cleanup
<1>a. UploadFindsItsFile'
  <2>1. CASE disk' = disk
    BY <1>1, <2>1 DEF UploadFindsItsFile
  <2>2. CASE disk' # disk
    <3>1. stage \in Over
      BY <2>2 DEF Join, Cleanup, Announce, RemoveDir, Done, RemoveFile, Crash, Over
    <3>2. segTask # "panicked" => \A f \in Files : up[f] # "starting"
      BY <3>1, AllSettled DEF Settled, Reported
    <3> QED
      BY <1>1, <3>2 DEF UploadFindsItsFile
  <2> QED
    BY <2>1, <2>2
<1> QED
  BY <1>4, <1>5, <1>7, <1>8, <1>9, <1>a

\* The invariant the theorems follow from.
LEMMA Invariant == Spec => []Inv
<1>1. Init => Inv
  <2> SUFFICES ASSUME Init PROVE Inv
    OBVIOUS
  <2>1. TypeOK /\ UploadFindsItsFile
    BY FilesDiffer, TranscoderAssumption DEF Init, TypeOK, UploadFindsItsFile
  <2>2. PermitsBalance
    <3>1. Encoding(rung) = {}
      BY DEF Init, Encoding
    <3>2. Cardinality(Encoding(rung)) = 0 /\ MaxPermits \in Nat
      BY <3>1, FS_EmptySet, TranscoderAssumption
    <3> QED
      BY <3>2 DEF Init, PermitsBalance
  <2>3. Joined
    BY FilesDiffer DEF Init, Joined, Settled, Over
  <2>4. Spawned /\ Verified
    BY DEF Init, Spawned, Verified
  <2> QED
    BY <2>1, <2>2, <2>3, <2>4 DEF Inv
<1>2. Inv /\ [Next]_vars => Inv'
  <2> SUFFICES ASSUME Inv, [Next]_vars PROVE Inv'
    OBVIOUS
  <2>1. CASE Encode
    BY <2>1, PreSteps, RungSteps DEF Encode
  <2>2. CASE Tasks
    BY <2>2, ResJoinStep, SegSteps, RungSteps DEF Tasks
  <2>3. CASE Upload
    BY <2>3, UploadSteps DEF Upload
  <2>4. CASE Join \/ Cleanup \/ Crash
    BY <2>4, LoopSteps
  <2>5. CASE UNCHANGED vars
    BY <2>5 DEF vars, taskVars, cleanVars, Inv, TypeOK, PermitsBalance, Encoding, Joined,
                Settled, Reported, Spawned, Verified, UploadFindsItsFile
  <2> QED
    BY <2>1, <2>2, <2>3, <2>4, <2>5 DEF Next
<1> QED
  BY <1>1, <1>2, PTL DEF Spec

-----------------------------------------------------------------------------
\* Tasks, uploads and permits stay in their ranges, for any ladder.
THEOREM TypeSafety == Spec => []TypeOK
BY Invariant, PTL DEF Inv

\* A permit is held for exactly the ladder encoders at work.
THEOREM PermitsAreReturned == Spec => []PermitsBalance
BY Invariant, PTL DEF Inv

\* The joins keep the clean-up behind every upload that has a file to open.
THEOREM UploadsComeFirst == Spec => []UploadFindsItsFile
BY Invariant, PTL DEF Inv

\* When the two tasks were joined, every file of a listed rung is stored, or its
\* upload reported an error, or it is a segment nobody was shown.
THEOREM LadderIsUploaded == Spec => []ListedRungsAreUploaded
<1>1. Inv => ListedRungsAreUploaded
  <2> SUFFICES ASSUME Inv, stage \in Over, NEW r \in listed, NEW f \in RungFiles(r)
               PROVE  \/ up[f] = "stored"
                      \/ Reported(f)
                      \/ f \in Segments(r) /\ up[f] = "none"
    BY DEF ListedRungsAreUploaded, Over
  <2> USE DEF Inv
  <2>1. segTask = "done"
    BY DEF Joined
  <2>2. r \in Res /\ f \in DirFiles
    BY FilesDiffer DEF TypeOK
  <2>3. Settled(f)
    BY <2>1, <2>2 DEF Joined
  <2>4. f \notin Segments(r) => up[f] # "none"
    BY <2>2 DEF Spawned, RungFiles
  <2> QED
    BY <2>3, <2>4 DEF Settled
<1> QED
  BY <1>1, Invariant, PTL

\* The pre-check file verify_nsfw is told about is an object when it is told, or
\* its upload reported an error.
THEOREM VerifiedIsStored == Spec => []VerifiedFileIsStored
<1>1. Inv => VerifiedFileIsStored
  <2> SUFFICES ASSUME Inv, verify \notin {None, Orig}
               PROVE  verify \in StoredObjects \/ Reported(verify)
    BY DEF VerifiedFileIsStored
  <2>1. up[verify] \in Ended /\ verify \in Files
    BY DEF Inv, Verified, TypeOK
  <2>2. StoredName(verify) = verify
    BY DEF StoredName
  <2> QED
    BY <2>1, <2>2 DEF StoredObjects, Reported, Ended
<1> QED
  BY <1>1, Invariant, PTL

\* The clean-up names every file there is beside those of the directory, as
\* long as the one height it names is the one that was encoded.
THEOREM CleanupIsComplete ==
    ASSUME Pre = {H360}
    PROVE  Spec => []NothingLeftBehind
<1> DEFINE Remaining == stage \in {"removing", "done"} => disk \subseteq stuck \cup pending
           Emptied == stage = "done" => pending = {}
<1>1. Init => Remaining /\ Emptied
  BY DEF Init
<1>2. Inv /\ Remaining /\ Emptied /\ [Next]_vars => Remaining' /\ Emptied'
  <2> SUFFICES ASSUME Inv, Remaining, Emptied, [Next]_vars PROVE Remaining' /\ Emptied'
    OBVIOUS
  <2> USE DEF taskVars, cleanVars
  <2>1. CASE Encode \/ Tasks
    BY <2>1 DEF Encode, Tasks, PreEncoded, PreFailed, RungEncoded, RungFailed, ResJoin,
                SegJoin, SegPanic, StartRung
  <2>2. CASE Upload \/ UNCHANGED vars
    BY <2>2 DEF Upload, Open, Send, CutShort, vars
  <2>3. CASE Join \/ Announce \/ Crash
    BY <2>3 DEF Join, Announce, Crash
  <2>4. CASE RemoveDir
    <3>1. Files \subseteq DirFiles \cup CleanupList
      BY FilesDiffer DEF Files, CleanupList, NamedFiles
    <3>2. disk \subseteq DirFiles \cup CleanupList
      BY <3>1 DEF Inv, TypeOK
    <3> QED
      BY <2>4, <3>2 DEF RemoveDir
  <2>5. ASSUME NEW f \in pending, RemoveFile(f) PROVE Remaining' /\ Emptied'
    BY <2>5 DEF RemoveFile
  <2>6. CASE Done
    BY <2>6 DEF Done
  <2> QED
    BY <2>1, <2>2, <2>3, <2>4, <2>5, <2>6 DEF Next, Cleanup
<1>3. Remaining /\ Emptied => NothingLeftBehind
  BY DEF NothingLeftBehind
<1> QED
  BY <1>1, <1>2, <1>3, Invariant, PTL DEF Spec

=============================================================================
