------------------------------ MODULE VideoStore ------------------------------
(***************************************************************************)
(* repo: the only writer of the bucket `videos` and of the table videos    *)
(* (repo/internal: handler, service/video.go, repository/video.go,         *)
(* storage/minio.go).  Every gRPC call runs in a goroutine of its own and  *)
(* no lock or transaction spans the bucket and the table.                  *)
(*                                                                         *)
(* An object name is <<prefix, kind>>.  vcodec names files after the UUID  *)
(* the gateway gave the video; the row of a video gets another fresh UUID, *)
(* so the two sets of prefixes are disjoint.                               *)
(*                                                                         *)
(* A call to MinIO or PostgreSQL may fail, and it may fail after it took   *)
(* effect (the caller's context expired, the connection broke).            *)
(***************************************************************************)
EXTENDS Integers, Sequences

CONSTANTS Videos,      \* ids the gateway gave, prefixes of uploaded files
          Users,
          Owner,       \* the user the gateway gave each video to
          RowIds,      \* ids of rows (uuid.NewV4)
          Requests,    \* gRPC calls; each is made once
          ListedKinds, \* generated files removeGeneratedFiles names
          SegKinds,    \* .ts segments, which it does not name
          Limit,       \* how many videos "recent" lists (3 in the code)
          None,        \* no id
          MaxFaults    \* bound: failing calls to MinIO or PostgreSQL

ASSUME StoreAssumption ==
    /\ Videos \cap RowIds = {}
    /\ None \notin Videos \cup RowIds
    /\ ListedKinds \cap SegKinds = {}
    /\ "original" \notin ListedKinds \cup SegKinds
    /\ Owner \in [Videos -> Users]
    /\ None \notin Users
    /\ Limit \in Nat
    /\ MaxFaults \in Nat

VARIABLES
    objects,   \* names of the objects in the bucket
    rows,      \* the table: records [id, file]
    pc,        \* per request, where its handler is
    video,     \* per request, the prefix of the file it uploads
    rowId,     \* per request, the row id it made or was asked to remove
    stamps,    \* row ids in the order of their created_at
    user,      \* per request, the user whose videos it lists
    got,       \* per request, the row ids a listing answered with
    faults,    \* failed calls so far
    usedIds,   \* row ids already made
    originals, \* history: per video, uploads of its original so far
    before,    \* history: per listing, the ids in the table when it was asked
    unclean    \* history: videos with a failed call that may have taken
               \* effect, or whose clean-up or removal failed half-way

requestVars == <<pc, video, rowId>>
listVars == <<user, got, before>>
storeVars == <<objects, rows, stamps, usedIds, originals>>
vars == <<storeVars, requestVars, listVars, faults, unclean>>

GenKinds == ListedKinds \cup SegKinds
Original(v) == <<v, "original">>
Names == {<<p, k>> : p \in Videos \cup RowIds, k \in GenKinds \cup {"original"}}
Row == [id : RowIds, file : Names]
States == {"idle", "put", "insert", "cleanup", "rmOriginal", "rmGenerated",
           "rmRow", "listAll", "listRecent", "ok", "failed", "removed",
           "listed", "listedRecent", "truncated", "lost"}

\* The prefix of the file names of a row's video.
VideoOf(r) == r.file[1]

-----------------------------------------------------------------------------
Init ==
    /\ objects = {}
    /\ rows = {}
    /\ pc = [q \in Requests |-> "idle"]
    /\ video = [q \in Requests |-> None]
    /\ rowId = [q \in Requests |-> None]
    /\ stamps = <<>>
    /\ user = [q \in Requests |-> None]
    /\ got = [q \in Requests |-> <<>>]
    /\ before = [q \in Requests |-> {}]
    /\ faults = 0
    /\ usedIds = {}
    /\ originals = [v \in Videos |-> 0]
    /\ unclean = {}

Goto(q, state) == pc' = [pc EXCEPT ![q] = state]

\* A failing call is charged to the budget and remembered for its video.
Fault(v) ==
    /\ faults < MaxFaults
    /\ faults' = faults + 1
    /\ unclean' = unclean \cup {v}

\* A call that failed without any effect leaves its video in order.
CleanFault ==
    /\ faults < MaxFaults
    /\ faults' = faults + 1
    /\ UNCHANGED unclean

NoFault == UNCHANGED <<faults, unclean>>

-----------------------------------------------------------------------------
(* Calls that change nothing.                                              *)

\* Arguments the handler or the service refuses: a stream without metadata or
\* without content, an empty id.
Refuse(q) ==
    /\ pc[q] = "idle"
    /\ Goto(q, "failed")
    /\ NoFault
    /\ UNCHANGED <<storeVars, video, rowId, listVars>>

-----------------------------------------------------------------------------
(* UploadVideo of generated files: one put, no row.                        *)

\* isOriginalVideo answers no.
UploadGenerated(q, v, k) ==
    /\ pc[q] = "idle"
    /\ video' = [video EXCEPT ![q] = v]
    /\ \/ objects' = objects \cup {<<v, k>>} /\ Goto(q, "ok") /\ NoFault
       \/ objects' \in {objects, objects \cup {<<v, k>>}}
          /\ Goto(q, "failed") /\ Fault(v)
    /\ UNCHANGED <<rows, rowId, stamps, usedIds, originals, listVars>>

-----------------------------------------------------------------------------
(* UploadVideo of an original: UploadOriginalVideo.                        *)

BeginOriginal(q, v, d) ==
    /\ pc[q] = "idle"
    /\ d \notin usedIds
    /\ Goto(q, "put")
    /\ video' = [video EXCEPT ![q] = v]
    /\ rowId' = [rowId EXCEPT ![q] = d]
    /\ usedIds' = usedIds \cup {d}
    /\ originals' = [originals EXCEPT ![v] = @ + 1]
    /\ NoFault
    /\ UNCHANGED <<objects, rows, stamps, listVars>>

\* What the handler does when store.Upload fails: it returns, without cleaning up.
Returns == "failed"
Continues == "insert"               \* faulty: the error is only logged

AfterFailedPut == Returns

\* store.Upload; created_at is read as soon as it has succeeded.
PutOriginal(q) ==
    /\ pc[q] = "put"
    /\ LET put == objects \cup {Original(video[q])} IN
       \/ objects' = put /\ Goto(q, "insert") /\ NoFault
       \/ objects' = objects /\ Goto(q, AfterFailedPut) /\ CleanFault
       \/ objects' = put /\ Goto(q, AfterFailedPut) /\ Fault(video[q])
    /\ stamps' = IF pc'[q] = "insert" THEN Append(stamps, rowId[q]) ELSE stamps
    /\ UNCHANGED <<rows, video, rowId, usedIds, originals, listVars>>

\* faulty: the row takes the id the gateway gave the video, not the fresh one
RowKeepsId(q) == [id |-> video[q], file |-> Original(video[q])]

\* The row CreateVideo inserts.
NewRow(q) == [id |-> rowId[q], file |-> Original(video[q])]

\* What the handler does after a failed insert.
CleansUp == "cleanup"
GivesUp == "failed"                 \* faulty: no clean-up of the object

AfterFailedInsert == CleansUp

\* repo.CreateVideo.  An insert refused by PostgreSQL (the user is unknown)
\* changes nothing; one whose answer is lost may have been committed.
InsertRow(q) ==
    /\ pc[q] = "insert"
    /\ \/ rows' = rows \cup {NewRow(q)} /\ Goto(q, "ok") /\ NoFault
       \/ Goto(q, AfterFailedInsert) /\ UNCHANGED rows /\ NoFault
       \/ rows' = rows \cup {NewRow(q)} /\ Goto(q, AfterFailedInsert) /\ Fault(video[q])
    /\ UNCHANGED <<objects, video, rowId, stamps, usedIds, originals, listVars>>

\* store.Remove after the failed insert, with the same context.
CleanUp(q) ==
    /\ pc[q] = "cleanup"
    /\ LET removed == objects \ {Original(video[q])} IN
       \/ objects' = removed /\ NoFault
       \/ objects' \in {objects, removed} /\ Fault(video[q])
    /\ Goto(q, "failed")
    /\ UNCHANGED <<rows, video, rowId, stamps, usedIds, originals, listVars>>

-----------------------------------------------------------------------------
(* RemoveVideo.                                                            *)

\* Where a removal starts once it has read its row.
ObjectFirst == "rmOriginal"
RowFirst == "rmRow"                 \* faulty: the row goes first

FirstRemoval == ObjectFirst

\* repo.GetVideoByID; the row's file name is read here and used later.  A missing
\* row and a failed query end the call alike.
BeginRemove(q, d) ==
    /\ pc[q] = "idle"
    /\ rowId' = [rowId EXCEPT ![q] = d]
    /\ \/ \E r \in rows : /\ r.id = d
                          /\ video' = [video EXCEPT ![q] = VideoOf(r)]
                          /\ Goto(q, FirstRemoval)
       \/ Goto(q, "failed") /\ UNCHANGED video
    /\ NoFault
    /\ UNCHANGED <<storeVars, listVars>>

\* store.Remove(video.FileName): removing a missing object succeeds.
RemoveOriginal(q) ==
    /\ pc[q] = "rmOriginal"
    /\ LET removed == objects \ {Original(video[q])} IN
       \/ objects' = removed /\ Goto(q, "rmGenerated") /\ NoFault
       \/ objects' = objects /\ Goto(q, "failed") /\ CleanFault
       \/ objects' = removed /\ Goto(q, "failed") /\ Fault(video[q])
    /\ UNCHANGED <<rows, video, rowId, stamps, usedIds, originals, listVars>>

\* removeGeneratedFiles: names built from the row's id; errors are ignored.
RemoveGenerated(q) ==
    /\ pc[q] = "rmGenerated"
    /\ \E kept \in SUBSET ({<<rowId[q], k>> : k \in ListedKinds} \cap objects) :
          objects' = objects \ ({<<rowId[q], k>> : k \in ListedKinds} \ kept)
    /\ Goto(q, "rmRow")
    /\ NoFault
    /\ UNCHANGED <<rows, video, rowId, stamps, usedIds, originals, listVars>>

\* The rows left by DELETE FROM videos WHERE id=$1.
RowsLeft(q) == {r \in rows : r.id # rowId[q]}

\* repo.DeleteVideo.
RemoveRow(q) ==
    /\ pc[q] = "rmRow"
    /\ \/ rows' = RowsLeft(q) /\ Goto(q, "removed") /\ NoFault
       \/ rows' \in {rows, RowsLeft(q)} /\ Goto(q, "failed") /\ Fault(video[q])
    /\ UNCHANGED <<objects, video, rowId, stamps, usedIds, originals, listVars>>

-----------------------------------------------------------------------------
(* GetVideoByID, GetUserVideos, GetLast3UserVideos.                        *)

Ids == {r.id : r \in rows}

\* A listing for user u reaches repo.
BeginList(q, u, kind) ==
    /\ pc[q] = "idle"
    /\ Goto(q, kind)
    /\ user' = [user EXCEPT ![q] = u]
    /\ before' = [before EXCEPT ![q] = Ids]
    /\ NoFault
    /\ UNCHANGED <<storeVars, video, rowId, got>>

GetUserVideos(q, u) == BeginList(q, u, "listAll")
GetRecentUserVideos(q, u) == BeginList(q, u, "listRecent")

Owned(q, d) == \E r \in rows : r.id = d /\ Owner[VideoOf(r)] = user[q]
Anyones(q, d) == d \in Ids          \* faulty: no WHERE user_id

Selected(q, d) == Owned(q, d)

\* The elements of s that are in S, the last one first.
LatestOf(s, S) ==
    LET f[n \in 0..Len(s)] == IF n = 0 THEN <<>>
                              ELSE IF s[n] \in S THEN <<s[n]>> \o f[n - 1] ELSE f[n - 1]
    IN f[Len(s)]

\* ORDER BY created_at DESC.
NewestFirst(q) == LatestOf(stamps, {d \in RowIds : Selected(q, d)})

\* The rows of the query, of which a recent listing wants the first ones.
Result(q) == IF pc[q] = "listRecent" /\ Len(NewestFirst(q)) > Limit
             THEN SubSeq(NewestFirst(q), 1, Limit) ELSE NewestFirst(q)

AnswerOf(kind) == IF kind = "listRecent" THEN "listedRecent" ELSE "listed"

\* The query, and the loop over rows.Next().  A query that fails is an error; a
\* connection that breaks in the loop ends it, and as rows.Err() is never
\* looked at, the videos read so far are the answer ("truncated").
List(q) ==
    /\ pc[q] \in {"listAll", "listRecent"}
    /\ \/ /\ got' = [got EXCEPT ![q] = Result(q)]
          /\ Goto(q, AnswerOf(pc[q]))
          /\ NoFault
       \/ \E k \in 0..Len(Result(q)) - 1 :
             /\ got' = [got EXCEPT ![q] = SubSeq(Result(q), 1, k)]
             /\ Goto(q, "truncated")
             /\ CleanFault
       \/ Goto(q, "failed") /\ CleanFault /\ UNCHANGED got
    /\ UNCHANGED <<storeVars, video, rowId, user, before>>

\* GetVideoByID: the row, or an error when there is none or the query fails.
GetVideo(q, d) ==
    /\ pc[q] = "idle"
    /\ \/ d \in Ids /\ Goto(q, "ok") /\ NoFault
       \/ d \notin Ids /\ Goto(q, "failed") /\ NoFault
       \/ Goto(q, "failed") /\ CleanFault
    /\ UNCHANGED <<storeVars, video, rowId, listVars>>

-----------------------------------------------------------------------------
Ended == {"ok", "failed", "removed", "listed", "listedRecent", "truncated", "lost"}
Running(q) == pc[q] \notin Ended \cup {"idle"}

\* repo dies: the calls it was running are lost between two of their steps.
Crash ==
    /\ \E q \in Requests : Running(q)
    /\ faults < MaxFaults
    /\ faults' = faults + 1
    /\ unclean' = unclean \cup ({video[q] : q \in {q \in Requests : Running(q)}} \ {None})
    /\ pc' = [q \in Requests |-> IF Running(q) THEN "lost" ELSE pc[q]]
    /\ UNCHANGED <<storeVars, video, rowId, listVars>>

Upload(q) == \/ \E v \in Videos : \/ \E k \in GenKinds : UploadGenerated(q, v, k)
                                  \/ \E d \in RowIds : BeginOriginal(q, v, d)
             \/ PutOriginal(q) \/ InsertRow(q) \/ CleanUp(q)
Removal(q) == \/ \E d \in RowIds : BeginRemove(q, d)
             \/ RemoveOriginal(q) \/ RemoveGenerated(q) \/ RemoveRow(q)

Look(q) == \/ Refuse(q)
           \/ \E u \in Users : GetUserVideos(q, u) \/ GetRecentUserVideos(q, u)
           \/ List(q)
           \/ \E d \in RowIds : GetVideo(q, d)

Next == Crash \/ \E q \in Requests : Upload(q) \/ Removal(q) \/ Look(q)

Spec == Init /\ [][Next]_vars

-----------------------------------------------------------------------------
\* The bucket holds names of uploaded files, the table rows with fresh ids, and a
\* handler is at one of its calls.
TypeOK ==
    /\ objects \subseteq Names
    /\ rows \subseteq Row
    /\ pc \in [Requests -> States]
    /\ video \in [Requests -> Videos \cup {None}]
    /\ rowId \in [Requests -> RowIds \cup {None}]
    /\ stamps \in Seq(RowIds)
    /\ user \in [Requests -> Users \cup {None}]
    /\ got \in [Requests -> Seq(RowIds)]
    /\ before \in [Requests -> SUBSET RowIds]
    /\ faults \in 0..MaxFaults
    /\ usedIds \subseteq RowIds
    /\ originals \in [Videos -> Nat]
    /\ unclean \subseteq Videos

\* A removal of row r that has gone past its object.
BeingRemoved(r) ==
    \E q \in Requests : pc[q] \in {"rmGenerated", "rmRow"} /\ rowId[q] = r.id

\* Every row names an object that exists, as long as its original was uploaded
\* once and no call on that video failed in an unclear way; a removal under
\* way may be ahead of its row.
RowHasObject ==
    \A r \in rows :
        originals[VideoOf(r)] = 1 /\ VideoOf(r) \notin unclean
            => r.file \in objects \/ BeingRemoved(r)

\* An original without a row belongs to an upload or a removal at work, or to
\* a video one of whose calls failed half-way: a refused insert, a rejected
\* duplicate or a race between them never leaks the object.
NoOrphanOriginal ==
    \A v \in Videos :
        Original(v) \in objects /\ v \notin unclean
            => \/ \E r \in rows : r.file = Original(v)
               \/ \E q \in Requests : video[q] = v /\ Running(q)

\* The row goes last: when a row disappears its original is already gone, so
\* that a removal that failed can be repeated (a video uploaded again
\* meanwhile aside).
RowGoesLast ==
    [][\A r \in rows \ rows' :
          originals[VideoOf(r)] = 1 /\ VideoOf(r) \notin unclean
              => r.file \notin objects]_vars

\* "Remove all generated files for this video ID" (service/video.go:355): once a
\* removal has gone through its list of names, no object of those kinds is left
\* of the video it removes.
RemovalTakesGeneratedFiles ==
    [][\A q \in Requests :
          pc[q] = "rmGenerated" /\ pc'[q] = "rmRow" =>
              \A k \in ListedKinds : <<video[q], k>> \notin objects']_vars

\* The position of a row in the order of creation.
Newer(d, e) == \E i, j \in 1..Len(stamps) : i > j /\ stamps[i] = d /\ stamps[j] = e

\* A listing that was answered in full shows its user's videos and no others,
\* newest first, and misses none that was in the table when it was asked and
\* still is, but for what a recent listing has no room for: all it shows is
\* newer.  Uploads that overtake each other between created_at and INSERT, and
\* removals, run beside it.
ListingIsRight ==
    \A q \in Requests : pc[q] \in {"listed", "listedRecent"} =>
        /\ \A i, j \in 1..Len(got[q]) : i < j => Newer(got[q][i], got[q][j])
        /\ \A i \in 1..Len(got[q]) :
              \E p \in Requests : rowId[p] = got[q][i] /\ video[p] # None
                                /\ Owner[video[p]] = user[q]
        /\ \A r \in rows :
              r.id \in before[q] /\ Owner[VideoOf(r)] = user[q] =>
                  \/ \E i \in 1..Len(got[q]) : got[q][i] = r.id
                  \/ /\ pc[q] = "listedRecent" /\ Len(got[q]) = Limit
                     /\ \A i \in 1..Limit : Newer(got[q][i], r.id)
=============================================================================
