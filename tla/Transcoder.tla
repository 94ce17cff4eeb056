------------------------------ MODULE Transcoder ------------------------------
(***************************************************************************)
(* What vcodec does with one complete video (vcodec/src/processor.rs): two *)
(* tasks run concurrently, one encoding the pre-check resolution and then  *)
(* uploading the original, the other encoding the HLS ladder under a       *)
(* semaphore; each encoded file is uploaded by a task of its own.  When    *)
(* both are joined a file name is sent to the queue verify_nsfw and the    *)
(* local files are removed.                                                *)
(*                                                                         *)
(* A file is a tuple; the files ffmpeg writes for one rung of the ladder   *)
(* are its Playlist and its Segs.  Uploads are streams to repo's           *)
(* UploadVideo, which stores what it got when the stream ends.             *)
(***************************************************************************)
EXTENDS Integers, FiniteSets

CONSTANTS Res,       \* rungs of the ladder, RESOLUTIONS
          Pre,       \* NSFW_RESOLUTIONS
          H360,      \* the height whose file the cleanup names
          Segs,      \* per rung, the segments ffmpeg cuts
          Playlist,  \* index.m3u8, the other file of every rung
          MaxPermits, \* permits of the semaphore: 2
          None       \* no file

ASSUME TranscoderAssumption ==
    /\ MaxPermits \in Nat \ {0}
    /\ IsFiniteSet(Res)
    /\ H360 \in Pre
    /\ \A r \in Res : Playlist \notin Segs[r]

VARIABLES
    stage,     \* "working", "joined", "announced", "removing", "done", "crashed"
    pre,       \* per pre-check height: "encoding", "ok", "failed"
    resTask,   \* "generating", "waiting", "original", "done"
    rung,      \* per rung: "todo", "encoding", "ok", "failed"
    permits,   \* free permits of the semaphore
    segTask,   \* "spawning", "joining", "waiting", "done", "panicked"
    up,        \* per file: "none", "starting", "sending", "stored"; and when
               \* upload_file returned an error "failed", or "cut" if the call
               \* it did not wait for may yet store what repo was sent
    disk,      \* local files
    listed,    \* rungs in the master playlist
    verify,    \* the file name sent to verify_nsfw, or None
    pending,   \* files the cleanup has still to remove
    stuck      \* history: files that could not be removed

taskVars == <<pre, resTask, rung, permits, segTask, listed>>
cleanVars == <<stage, verify, pending, stuck>>
vars == <<taskVars, cleanVars, up, disk>>

Orig == <<"orig">>
Master == <<"master">>
PreFile(h) == <<"pre", h>>
PartFile(r, k) == <<"part", r, k>>

PreFiles == {PreFile(h) : h \in Pre}
Segments(r) == {PartFile(r, k) : k \in Segs[r]}
RungFiles(r) == Segments(r) \cup {PartFile(r, Playlist)}
DirFiles == UNION {RungFiles(r) : r \in Res}
Files == {Orig, Master} \cup PreFiles \cup DirFiles

\* upload_file has returned an error, which its task logs and forgets.
Reported(f) == up[f] \in {"cut", "failed"}

\* No task of f is left to join: none was spawned, or it has ended.
Settled(f) == up[f] \in {"none", "stored"} \/ Reported(f)

-----------------------------------------------------------------------------
\* save_video has written the original; both tasks are spawned.
Init ==
    /\ stage = "working"
    /\ pre = [h \in Pre |-> "encoding"]
    /\ resTask = "generating"
    /\ rung = [r \in Res |-> "todo"]
    /\ permits = MaxPermits
    /\ segTask = "spawning"
    /\ up = [f \in Files |-> "none"]
    /\ disk = {Orig}
    /\ listed = {}
    /\ verify = None
    /\ pending = {}
    /\ stuck = {}

-----------------------------------------------------------------------------
(* upload_file, one task per file.                                         *)

\* The metadata is sent and the file opened.  When either fails repo receives no
\* content and refuses it.
Open(f) ==
    /\ stage # "crashed"
    /\ up[f] = "starting"
    /\ \/ f \in disk /\ up' = [up EXCEPT ![f] = "sending"]
       \/ up' = [up EXCEPT ![f] = "failed"]
    /\ UNCHANGED <<taskVars, cleanVars, disk>>

\* The whole file was sent and the call is awaited: repo stored it, or the call
\* failed.
Send(f) ==
    /\ stage # "crashed"
    /\ up[f] = "sending"
    /\ \E result \in {"stored", "failed"} : up' = [up EXCEPT ![f] = result]
    /\ UNCHANGED <<taskVars, cleanVars, disk>>

\* A read, or the sending of a chunk, fails: upload_file returns at once and drops
\* the sender and the handle of the call.  To repo that is the end of the stream;
\* whether it stores the part it got, and when, nobody here waits to learn.
CutShort(f) ==
    /\ stage # "crashed"
    /\ up[f] = "sending"
    /\ up' = [up EXCEPT ![f] = "cut"]
    /\ UNCHANGED <<taskVars, cleanVars, disk>>

-----------------------------------------------------------------------------
(* generate_and_upload_resolutions.                                        *)

PreEncoded(h) ==
    /\ stage = "working"
    /\ pre[h] = "encoding"
    /\ pre' = [pre EXCEPT ![h] = "ok"]
    /\ disk' = disk \cup {PreFile(h)}
    /\ up' = [up EXCEPT ![PreFile(h)] = "starting"]
    /\ UNCHANGED <<resTask, rung, permits, segTask, listed, cleanVars>>

\* ffmpeg fails, possibly leaving part of its output.
PreFailed(h) ==
    /\ stage = "working"
    /\ pre[h] = "encoding"
    /\ pre' = [pre EXCEPT ![h] = "failed"]
    /\ disk' \in {disk, disk \cup {PreFile(h)}}
    /\ UNCHANGED <<resTask, rung, permits, segTask, listed, cleanVars, up>>

\* What the task waits for before it uploads the original: join_all(tasks).
PreUploadsJoined == \A f \in PreFiles : Settled(f)
PreUploadsForgotten == TRUE                    \* faulty: spawned, never joined

PreUploadsDone == PreUploadsJoined

\* join_all(generation_tasks), then join_all of their uploads.
ResJoin ==
    /\ stage = "working"
    /\ \/ /\ resTask = "generating"
          /\ \A h \in Pre : pre[h] # "encoding"
          /\ resTask' = "waiting"
          /\ UNCHANGED up
       \/ /\ resTask = "waiting"
          /\ PreUploadsDone
          /\ resTask' = "original"
          /\ up' = [up EXCEPT ![Orig] = "starting"]
       \/ /\ resTask = "original"
          /\ Settled(Orig)
          /\ resTask' = "done"
          /\ UNCHANGED up
    /\ UNCHANGED <<pre, rung, permits, segTask, listed, cleanVars, disk>>

-----------------------------------------------------------------------------
(* generate_and_upload_segments.                                           *)

\* Whether acquire_owned does not wait.
PermitFree == permits > 0
PermitIgnored == TRUE                         \* faulty: not awaited

MayEncode == PermitFree

\* One iteration of the loop over the ladder: a permit, then a task.
StartRung(r) ==
    /\ stage = "working"
    /\ segTask = "spawning"
    /\ rung[r] = "todo"
    /\ MayEncode
    /\ permits' = permits - 1
    /\ rung' = [rung EXCEPT ![r] = "encoding"]
    /\ UNCHANGED <<pre, resTask, segTask, listed, cleanVars, up, disk>>

\* The permit is dropped when the rung's task ends.
DroppedAlways(ok) == 1
DroppedOnSuccess(ok) == IF ok THEN 1 ELSE 0   \* faulty: leaked on failure

Dropped(ok) == DroppedAlways(ok)

\* ffmpeg succeeds: an upload is spawned for the playlist and for the segments
\* that the listing of the directory shows; one that cannot be read, as a whole
\* or in an entry, only shows fewer.
RungEncoded(r) ==
    /\ stage = "working"
    /\ rung[r] = "encoding"
    /\ rung' = [rung EXCEPT ![r] = "ok"]
    /\ permits' = permits + Dropped(TRUE)
    /\ disk' = disk \cup RungFiles(r)
    /\ \E shown \in SUBSET Segments(r) :
          up' = [f \in Files |-> IF f \in shown \cup {PartFile(r, Playlist)}
                                THEN "starting" ELSE up[f]]
    /\ UNCHANGED <<pre, resTask, segTask, listed, cleanVars>>

RungFailed(r) ==
    /\ stage = "working"
    /\ rung[r] = "encoding"
    /\ rung' = [rung EXCEPT ![r] = "failed"]
    /\ permits' = permits + Dropped(FALSE)
    /\ \E partial \in SUBSET RungFiles(r) : disk' = disk \cup partial
    /\ UNCHANGED <<pre, resTask, segTask, listed, cleanVars, up>>

\* The rungs the master playlist lists.
RungsEncoded == {r \in Res : rung[r] = "ok"}
RungsStarted == {r \in Res : rung[r] # "todo"}  \* faulty: failures listed too

MasterEntries == RungsEncoded

\* What the task waits for before it ends: join_all(upload_tasks).
UploadsJoined == \A f \in DirFiles \cup {Master} : Settled(f)
UploadsForgotten == Settled(Master)            \* faulty: segments not joined

SegUploadsDone == UploadsJoined

SegJoin ==
    /\ stage = "working"
    /\ \/ /\ segTask = "spawning"
          /\ \A r \in Res : rung[r] # "todo"
          /\ segTask' = "joining"
          /\ UNCHANGED <<listed, disk, up>>
       \/ /\ segTask = "joining"
          /\ \A r \in Res : rung[r] # "encoding"
          /\ segTask' = "waiting"
          /\ listed' = MasterEntries
          /\ disk' = disk \cup {Master}
          /\ up' = [up EXCEPT ![Master] = "starting"]
       \/ /\ segTask = "waiting"
          /\ SegUploadsDone
          /\ segTask' = "done"
          /\ UNCHANGED <<listed, disk, up>>
    /\ UNCHANGED <<pre, resTask, rung, permits, cleanVars>>

\* Writing the master playlist fails: expect panics.  In a development build
\* the panic ends the task only, its uploads run on (a release build aborts,
\* which is Crash).
SegPanic ==
    /\ stage = "working"
    /\ segTask = "joining"
    /\ \A r \in Res : rung[r] # "encoding"
    /\ segTask' = "panicked"
    /\ UNCHANGED <<pre, resTask, rung, permits, listed, cleanVars, up, disk>>

-----------------------------------------------------------------------------
(* The receive loop, after both tasks.                                     *)

Join ==
    /\ stage = "working"
    /\ resTask = "done"
    /\ segTask \in {"done", "panicked"}
    /\ stage' = "joined"
    /\ UNCHANGED <<taskVars, verify, pending, stuck, up, disk>>

\* nsfw_resolution_paths[0] goes to verify_nsfw: the first resolution that
\* was encoded, whether or not its upload succeeded, else the original.  A
\* publish that fails is ignored.
Announce ==
    /\ stage = "joined"
    /\ stage' = "announced"
    /\ \/ verify' = None
       \/ \E h \in Pre : pre[h] = "ok" /\ verify' = PreFile(h)
       \/ (\A h \in Pre : pre[h] # "ok") /\ verify' = Orig
    /\ UNCHANGED <<taskVars, pending, stuck, up, disk>>

\* The three files removed by name after the directory.
NamedFiles == {Master, PreFile(H360), Orig}
TwoNamedFiles == {Master, Orig}     \* faulty: the pre-check file forgotten

CleanupList == NamedFiles

\* remove_dir_all(&video_id); an error is only logged.
RemoveDir ==
    /\ stage = "announced"
    /\ stage' = "removing"
    /\ pending' = CleanupList
    /\ \/ disk' = disk \ DirFiles /\ UNCHANGED stuck
       \/ stuck' = stuck \cup (disk \cap DirFiles) /\ UNCHANGED disk
    /\ UNCHANGED <<taskVars, verify, up>>

RemoveFile(f) ==
    /\ stage = "removing"
    /\ f \in pending
    /\ pending' = pending \ {f}
    /\ \/ disk' = disk \ {f} /\ UNCHANGED stuck
       \/ stuck' = stuck \cup (disk \cap {f}) /\ UNCHANGED disk
    /\ UNCHANGED <<taskVars, stage, verify, up>>

Done ==
    /\ stage = "removing"
    /\ pending = {}
    /\ stage' = "done"
    /\ UNCHANGED <<taskVars, verify, pending, stuck, up, disk>>

\* The process dies; its local files stay.
Crash ==
    /\ stage \notin {"done", "crashed"}
    /\ stage' = "crashed"
    /\ UNCHANGED <<taskVars, verify, pending, stuck, up, disk>>

-----------------------------------------------------------------------------
Encode == \/ \E h \in Pre : PreEncoded(h) \/ PreFailed(h)
          \/ \E r \in Res : RungEncoded(r) \/ RungFailed(r)
Tasks == ResJoin \/ SegJoin \/ SegPanic \/ \E r \in Res : StartRung(r)
Upload == \E f \in Files : Open(f) \/ Send(f) \/ CutShort(f)
Cleanup == Announce \/ RemoveDir \/ Done \/ \E f \in pending : RemoveFile(f)

Next == Encode \/ Tasks \/ Upload \/ Join \/ Cleanup \/ Crash

Spec == Init /\ [][Next]_vars

(***************************************************************************)
(* tokio runs every task that can run, ffmpeg terminates, an upload ends.  *)
(* Nothing in the code bounds the last two in time; that they end is an    *)
(* assumption about ffmpeg and repo.                                       *)
(***************************************************************************)
Fairness ==
    /\ \A h \in Pre : WF_vars(PreEncoded(h) \/ PreFailed(h))
    /\ \A r \in Res : WF_vars(RungEncoded(r) \/ RungFailed(r))
    /\ \A f \in Files : WF_vars(Open(f) \/ Send(f) \/ CutShort(f))
    /\ WF_vars(ResJoin)
    /\ WF_vars(SegJoin \/ \E r \in Res : StartRung(r))
    /\ WF_vars(Join \/ Cleanup)

FairSpec == Spec /\ Fairness

-----------------------------------------------------------------------------
\* Tasks, encoders and uploads stay in the states the code gives them, and the
\* number of free permits stays between zero and MaxPermits.
TypeOK ==
    /\ stage \in {"working", "joined", "announced", "removing", "done", "crashed"}
    /\ pre \in [Pre -> {"encoding", "ok", "failed"}]
    /\ resTask \in {"generating", "waiting", "original", "done"}
    /\ rung \in [Res -> {"todo", "encoding", "ok", "failed"}]
    /\ permits \in 0..MaxPermits
    /\ segTask \in {"spawning", "joining", "waiting", "done", "panicked"}
    /\ up \in [Files -> {"none", "starting", "sending", "stored", "cut", "failed"}]
    /\ disk \subseteq Files
    /\ listed \subseteq Res
    /\ verify \in Files \cup {None}
    /\ pending \subseteq Files
    /\ stuck \subseteq Files

\* No file is removed before the upload that reads it has opened it: the two
\* joins keep the cleanup behind every spawned upload (unless a panic broke
\* the ladder's task off).
UploadFindsItsFile ==
    segTask # "panicked" => \A f \in Files : up[f] = "starting" => f \in disk

\* Once both tasks were joined, every file of a rung that the master playlist
\* lists is in storage, unless upload_file reported an error for that very file
\* or, a segment only, the listing of the directory did not show it: the playlist
\* of a listed rung is never skipped, and no upload of a rung is still running.
ListedRungsAreUploaded ==
    stage \in {"joined", "announced", "removing", "done"} =>
        \A r \in listed : \A f \in RungFiles(r) :
            \/ up[f] = "stored"
            \/ Reported(f)
            \/ f \in Segments(r) /\ up[f] = "none"

\* Nothing of the video stays on the local disk, except files whose removal
\* failed (an early end by crash aside).
NothingLeftBehind == stage = "done" => disk \subseteq stuck

\* Processing ends whatever fails: no task waits for a permit or a join that
\* never comes.
ProcessingEnds == <>(stage \in {"done", "crashed"})

\* The objects repo creates: the original is stored under another name
\* (service/video.go:72-74), every other file under its own.
StoredName(f) == IF f = Orig THEN <<"orig", "_original">> ELSE f
StoredObjects == {StoredName(f) : f \in {g \in Files : up[g] = "stored"}}

\* A pre-check file named to verify_nsfw is an object in storage when it is named,
\* unless upload_file reported an error for it: the message waits for the task of
\* that upload.  After an error it may name no object, or the first part of one.
\* When no pre-check resolution was encoded the name is the local
\* one of the original, which no object has.
VerifiedFileIsStored ==
    verify \notin {None, Orig} => verify \in StoredObjects \/ Reported(verify)
=============================================================================
