--------------------------- MODULE VideoStoreProofs ---------------------------
(***************************************************************************)
(* Bucket and table for any number of videos, requests and faults.  That a *)
(* row has its object and an object its row speaks of two stores no call   *)
(* changes together; what keeps them in step is who can touch a video's    *)
(* original.  The invariant says so by ids: a fresh id belongs to the one  *)
(* upload that made it (Fresh, OwnIds), a removal works for the row it     *)
(* read (Matching), and as long as a video's original was uploaded once    *)
(* all that concerns it has one id (OneId), so that its upload and its     *)
(* removal cannot be at work together.  That an original is not left       *)
(* without a row holds for repeated uploads too: its witness is an upload  *)
(* past its put, or a row whose removal has not yet taken the object.      *)
(* A listing is right because its requester's answer is fixed by one read  *)
(* of the table (Answers); the order of the answer follows by induction    *)
(* over the stamps (LatestOfLists).                                        *)
(***************************************************************************)
EXTENDS VideoStore, FiniteSetTheorems, TLAPS

Uploading == {"put", "insert", "cleanup"}
Removing == {"rmOriginal", "rmGenerated", "rmRow"}
Busy == Uploading \cup Removing
PastObject == {"rmGenerated", "rmRow"}

Types ==
    /\ pc \in [Requests -> States]
    /\ video \in [Requests -> Videos \cup {None}]
    /\ rowId \in [Requests -> RowIds \cup {None}]
    /\ usedIds \subseteq RowIds
    /\ originals \in [Videos -> Nat]
    /\ \A r \in rows : /\ r.id \in usedIds
                       /\ VideoOf(r) \in Videos
                       /\ r.file = Original(VideoOf(r))
    /\ \A q \in Requests : pc[q] \in Busy => video[q] \in Videos /\ rowId[q] \in usedIds

UniqueIds == \A r, s \in rows : r.id = s.id => r = s

\* Each upload has an id of its own.
OwnIds == \A p, q \in Requests :
    p # q /\ pc[p] \in Uploading /\ pc[q] \in Uploading => rowId[p] # rowId[q]

\* An upload that has no row yet.
Rowless(p) == \/ pc[p] \in {"put", "insert"}
              \/ pc[p] = "cleanup" /\ video[p] \notin unclean

\* No row and no removal has the id of such an upload.
Fresh == \A p \in Requests : Rowless(p) =>
    /\ \A r \in rows : r.id # rowId[p]
    /\ \A q \in Requests : pc[q] \in Removing => rowId[q] # rowId[p]

Matching == \A q \in Requests, r \in rows :
    pc[q] \in Removing /\ r.id = rowId[q] => VideoOf(r) = video[q]

\* The ids of a video's rows and of the calls at work for it.
IdsOf(v) == {r.id : r \in {s \in rows : VideoOf(s) = v}}
            \cup {rowId[q] : q \in {p \in Requests : pc[p] \in Busy /\ video[p] = v}}

OneId == \A v \in Videos :
    /\ originals[v] = 0 => IdsOf(v) = {}
    /\ originals[v] = 1 => \A i, j \in IdsOf(v) : i = j

\* A video uploaded once whose calls all ended clearly.
Plain(v) == originals[v] = 1 /\ v \notin unclean

\* Its object is there when the row is about to be, and not there any more when
\* the row is about to go.
Ordered == \A q \in Requests :
    /\ pc[q] = "insert" /\ Plain(video[q]) => Original(video[q]) \in objects
    /\ pc[q] \in PastObject /\ Plain(video[q]) => Original(video[q]) \notin objects

\* Row r is to keep its object.
Kept(r) == \A q \in Requests : pc[q] \in PastObject => rowId[q] # r.id

Justified == \A v \in Videos :
    Original(v) \in objects /\ v \notin unclean
        => \/ \E q \in Requests : pc[q] \in {"insert", "cleanup"} /\ video[q] = v
           \/ \E r \in rows : VideoOf(r) = v /\ Kept(r)

Inv == /\ Types /\ UniqueIds /\ OwnIds /\ Fresh /\ Matching /\ OneId
       /\ Ordered /\ Justified /\ RowHasObject

-----------------------------------------------------------------------------
\* Removals and uploads of a plain video exclude each other.
LEMMA PlainIsAlone ==
    ASSUME Inv, NEW p \in Requests, Rowless(p), Plain(video[p])
    PROVE  /\ \A r \in rows : VideoOf(r) # video[p]
           /\ \A q \in Requests \ {p} : pc[q] \in Busy => video[q] # video[p]
<1> USE DEF Inv
<1>1. pc[p] \in Uploading /\ pc[p] \in Busy
  BY DEF Rowless, Uploading, Busy
<1>2. video[p] \in Videos
  BY <1>1 DEF Types
<1>3. rowId[p] \in IdsOf(video[p])
  BY <1>1 DEF IdsOf
<1>4. \A i \in IdsOf(video[p]) : i = rowId[p]
  BY <1>2, <1>3 DEF OneId, Plain
<1>5. ASSUME NEW r \in rows, VideoOf(r) = video[p] PROVE FALSE
  <2>1. r.id \in IdsOf(video[p])
    BY <1>5 DEF IdsOf
  <2> QED
    BY <1>4, <2>1 DEF Fresh
<1>6. ASSUME NEW q \in Requests \ {p}, pc[q] \in Busy, video[q] = video[p] PROVE FALSE
  <2>1. rowId[q] \in IdsOf(video[p])
    BY <1>6 DEF IdsOf
  <2>2. rowId[q] = rowId[p]
    BY <1>4, <2>1
  <2> QED
    BY <1>1, <1>6, <2>2 DEF Fresh, OwnIds, Busy
<1> QED
  BY <1>5, <1>6

\* The row a removal works for is the only one of a plain video.
LEMMA PlainHasOneRow ==
    ASSUME Inv, NEW q \in Requests, pc[q] \in Removing, Plain(video[q]),
           NEW r \in rows, VideoOf(r) = video[q]
    PROVE  r.id = rowId[q]
<1> USE DEF Inv
<1>1. pc[q] \in Busy /\ video[q] \in Videos
  BY DEF Types, Busy
<1>2. rowId[q] \in IdsOf(video[q]) /\ r.id \in IdsOf(video[q])
  BY <1>1 DEF IdsOf
<1> QED
  BY <1>1, <1>2 DEF OneId, Plain

\* The ids of a video stay one when a step adds none.
LEMMA OneIdStays ==
    ASSUME OneId, originals' = originals, \A v \in Videos : IdsOf(v)' \subseteq IdsOf(v)
    PROVE  OneId'
BY DEF OneId

-----------------------------------------------------------------------------
\* A step after which calls have ended, and what they may have left undone is
\* charged to their videos.
Ending ==
    /\ usedIds' = usedIds /\ originals' = originals /\ unclean \subseteq unclean'
    /\ pc' \in [Requests -> States]
    /\ video' \in [Requests -> Videos \cup {None}]
    /\ rowId' \in [Requests -> RowIds \cup {None}]
    /\ rows' \subseteq rows
    /\ \A r \in rows \ rows' : VideoOf(r) \in unclean'
    /\ \A v \in Videos : v \notin unclean' =>
          (Original(v) \in objects' <=> Original(v) \in objects)
    /\ \A p \in Requests :
          \/ pc'[p] = pc[p] /\ video'[p] = video[p] /\ rowId'[p] = rowId[p]
          \/ /\ pc'[p] \notin Busy
             /\ pc[p] \in Busy => pc[p] \in {"put", "rmOriginal"} \/ video[p] \in unclean'

LEMMA EndingsKeepInv ==
    ASSUME Inv, Ending
    PROVE  Inv'
<1> USE DEF Inv, Ending
<1> DEFINE Same(p) == pc'[p] = pc[p] /\ video'[p] = video[p] /\ rowId'[p] = rowId[p]
<1>1. \A p \in Requests : pc'[p] \in Busy => Same(p)
  OBVIOUS
<1>2. \A p \in Requests : /\ pc'[p] \in Uploading => Same(p)
                          /\ pc'[p] \in Removing => Same(p)
                          /\ pc'[p] \in PastObject => Same(p)
  BY <1>1 DEF Busy, Uploading, Removing, PastObject
<1>3. Types'
  BY <1>1 DEF Types
<1>4. UniqueIds' /\ OwnIds' /\ Matching'
  BY <1>2 DEF UniqueIds, OwnIds, Matching
<1>5. Fresh'
  <2>1. \A p \in Requests : Rowless(p)' => Rowless(p) /\ Same(p)
    BY <1>2 DEF Rowless, Uploading
  <2> QED
    BY <1>2, <2>1 DEF Fresh
<1>6. OneId'
  <2>1. \A v \in Videos : IdsOf(v)' \subseteq IdsOf(v)
    BY <1>1 DEF IdsOf
  <2> QED
    BY <2>1, OneIdStays
<1>7. \A v \in Videos : Plain(v)' => Plain(v)
  BY DEF Plain
<1>8. Ordered'
  <2>1. ASSUME NEW p \in Requests, pc'[p] = "insert" \/ pc'[p] \in PastObject
        PROVE  Same(p) /\ video[p] \in Videos
    BY <1>2, <2>1 DEF Types, Busy, Uploading, Removing, PastObject
  <2>2. \A v \in Videos : Plain(v)' => (Original(v) \in objects' <=> Original(v) \in objects)
    BY DEF Plain
  <2> QED
    BY <1>7, <2>1, <2>2 DEF Ordered
<1>9. Justified'
  <2> SUFFICES ASSUME NEW v \in Videos, Original(v) \in objects, v \notin unclean'
               PROVE  \/ \E q \in Requests : pc'[q] \in {"insert", "cleanup"} /\ video'[q] = v
                      \/ \E r \in rows' : VideoOf(r) = v /\ Kept(r)'
    BY DEF Justified
  <2>1. CASE \E q \in Requests : pc[q] \in {"insert", "cleanup"} /\ video[q] = v
    <3>1. PICK q \in Requests : pc[q] \in {"insert", "cleanup"} /\ video[q] = v
      BY <2>1
    <3>2. Same(q)
      BY <3>1 DEF Busy, Uploading
    <3> QED
      BY <3>1, <3>2
  <2>2. CASE \E r \in rows : VideoOf(r) = v /\ Kept(r)
    <3>1. PICK r \in rows : VideoOf(r) = v /\ Kept(r)
      BY <2>2
    <3>2. r \in rows' /\ Kept(r)'
      BY <1>2, <3>1 DEF Kept
    <3> QED
      BY <3>1, <3>2
  <2> QED
    BY <2>1, <2>2 DEF Justified
<1>a. RowHasObject'
  <2> SUFFICES ASSUME NEW r \in rows', Plain(VideoOf(r))'
               PROVE  r.file \in objects' \/ BeingRemoved(r)'
    BY DEF RowHasObject, Plain
  <2>1. VideoOf(r) \in Videos /\ r.file = Original(VideoOf(r)) /\ Plain(VideoOf(r))
    BY <1>7 DEF Types
  <2>2. CASE r.file \in objects
    BY <2>1, <2>2 DEF Plain
  <2>3. CASE BeingRemoved(r)
    <3>1. PICK q \in Requests : pc[q] \in {"rmGenerated", "rmRow"} /\ rowId[q] = r.id
      BY <2>3 DEF BeingRemoved
    <3>2. video[q] = VideoOf(r)
      BY <3>1 DEF Matching, Removing
    <3>3. Same(q)
      BY <3>1, <3>2 DEF Busy, Removing, Plain
    <3> QED
      BY <3>1, <3>3 DEF BeingRemoved
  <2> QED
    BY <2>1, <2>2, <2>3 DEF RowHasObject, Plain
<1> QED
  BY <1>3, <1>4, <1>5, <1>6, <1>8, <1>9, <1>a

\* A new upload has a fresh id.
LEMMA BeginKeepsInv ==
    ASSUME Inv, NEW q \in Requests, NEW v \in Videos, NEW d \in RowIds, BeginOriginal(q, v, d)
    PROVE  Inv'
<1> USE DEF Inv
<1> DEFINE Same(p) == pc'[p] = pc[p] /\ video'[p] = video[p] /\ rowId'[p] = rowId[p]
<1>1. /\ pc[q] = "idle" /\ d \notin usedIds /\ usedIds' = usedIds \cup {d}
      /\ originals' = [originals EXCEPT ![v] = @ + 1]
      /\ objects' = objects /\ rows' = rows /\ unclean' = unclean
      /\ pc' = [pc EXCEPT ![q] = "put"] /\ video' = [video EXCEPT ![q] = v]
      /\ rowId' = [rowId EXCEPT ![q] = d]
  BY DEF BeginOriginal, Goto, NoFault
<1>2. /\ \A p \in Requests \ {q} : Same(p)
      /\ pc'[q] = "put" /\ video'[q] = v /\ rowId'[q] = d
  BY <1>1 DEF Types
<1>3. /\ pc[q] \notin Busy /\ pc'[q] \in Uploading /\ pc'[q] \in Busy /\ pc'[q] \notin Removing
      /\ pc'[q] \notin PastObject
  BY <1>1, <1>2 DEF Busy, Uploading, Removing, PastObject
<1>4. Types'
  <2>1. originals' \in [Videos -> Nat]
    BY <1>1 DEF Types
  <2>2. /\ pc' \in [Requests -> States] /\ video' \in [Requests -> Videos \cup {None}]
        /\ rowId' \in [Requests -> RowIds \cup {None}] /\ usedIds' \subseteq RowIds
    BY <1>1 DEF Types, States
  <2> QED
    BY <1>1, <1>2, <2>1, <2>2 DEF Types
<1>5. UniqueIds'
  BY <1>1 DEF UniqueIds
<1>6. \A p \in Requests : pc[p] \in Busy => rowId[p] # d
  BY <1>1 DEF Types
<1>7. OwnIds'
  BY <1>2, <1>3, <1>6 DEF OwnIds, Busy
<1>8. Fresh'
  <2>1. \A p \in Requests \ {q} : Rowless(p)' => Rowless(p)
    BY <1>1, <1>2 DEF Rowless
  <2>2. \A r \in rows : r.id # d
    BY <1>1 DEF Types
  <2> QED
    BY <1>1, <1>2, <1>3, <1>6, <2>1, <2>2 DEF Fresh, Busy
<1>9. Matching'
  BY <1>1, <1>2, <1>3 DEF Matching
<1>a. \A w \in Videos : w # v => IdsOf(w)' \subseteq IdsOf(w) /\ originals'[w] = originals[w]
  BY <1>1, <1>2 DEF IdsOf, Types
<1>b. IdsOf(v)' \subseteq IdsOf(v) \cup {d}
  BY <1>1, <1>2 DEF IdsOf
<1>c. originals'[v] # 0 /\ (originals'[v] = 1 => IdsOf(v) = {})
  <2>1. originals[v] \in Nat /\ originals'[v] = originals[v] + 1
    BY <1>1 DEF Types
  <2> QED
    BY <2>1 DEF OneId
<1>d. OneId'
  BY <1>a, <1>b, <1>c DEF OneId
<1>e. \A w \in Videos : Plain(w)' => IF w = v THEN IdsOf(v) = {} ELSE Plain(w)
  <2>1. ASSUME NEW w \in Videos, w # v, Plain(w)' PROVE Plain(w)
    BY <1>1, <1>a, <2>1 DEF Plain
  <2>2. ASSUME Plain(v)' PROVE IdsOf(v) = {}
    BY <1>c, <2>2 DEF Plain
  <2> QED
    BY <2>1, <2>2
<1>f. /\ \A p \in Requests : pc[p] \in Busy /\ video[p] = v => IdsOf(v) # {}
      /\ \A r \in rows : VideoOf(r) = v => IdsOf(v) # {}
  BY DEF IdsOf
<1>g. Ordered'
  <2> SUFFICES ASSUME NEW p \in Requests, pc'[p] = "insert" \/ pc'[p] \in PastObject,
                      Plain(video[p])'
               PROVE  /\ pc'[p] = "insert" => Original(video'[p]) \in objects
                      /\ pc'[p] \in PastObject => Original(video'[p]) \notin objects
    BY <1>1 DEF Ordered
  <2>1. p # q /\ Same(p)
    BY <1>2, <1>3
  <2>2. pc[p] \in Busy
    BY <2>1 DEF Busy, Uploading, Removing, PastObject
  <2>3. video[p] \in Videos
    BY <2>2 DEF Types
  <2>4. Plain(video[p])
    BY <1>e, <1>f, <2>1, <2>2, <2>3
  <2> QED
    BY <2>1, <2>4 DEF Ordered
<1>h. Justified'
  <2>1. \A r : Kept(r) => Kept(r)'
    BY <1>2, <1>3 DEF Kept
  <2>2. \A p \in Requests : pc[p] \in {"insert", "cleanup"} => Same(p)
    BY <1>1, <1>2
  <2> QED
    BY <1>1, <2>1, <2>2 DEF Justified
<1>i. RowHasObject'
  <2> SUFFICES ASSUME NEW r \in rows, Plain(VideoOf(r))'
               PROVE  r.file \in objects \/ BeingRemoved(r)'
    BY <1>1 DEF RowHasObject, Plain
  <2>1. Plain(VideoOf(r))
    BY <1>e, <1>f DEF Types
  <2>2. BeingRemoved(r) => BeingRemoved(r)'
    BY <1>1, <1>2 DEF BeingRemoved
  <2> QED
    BY <2>1, <2>2 DEF RowHasObject, Plain
<1> QED
  BY <1>4, <1>5, <1>7, <1>8, <1>9, <1>d, <1>g, <1>h, <1>i

\* A step of request q within its own upload or removal: its ids stay.
Proceeds(q) ==
    /\ UNCHANGED <<video, rowId, usedIds, originals>>
    /\ pc' \in [Requests -> States]
    /\ pc[q] \in Busy
    /\ \A p \in Requests \ {q} : pc'[p] = pc[p]

\* What such a step keeps, whatever becomes of the object and the row.
LEMMA ProceedKeepsIds ==
    ASSUME Inv, NEW q \in Requests, Proceeds(q), unclean \subseteq unclean',
           \/ pc'[q] \notin Busy
           \/ pc'[q] \in Uploading /\ pc[q] \in Uploading
           \/ pc'[q] \in Removing /\ pc[q] \in Removing,
           rows' \subseteq rows
    PROVE  /\ Types' /\ UniqueIds' /\ OwnIds' /\ Matching' /\ OneId'
           /\ (pc'[q] \in Uploading /\ Rowless(q)' => Rowless(q)) => Fresh'
<1> USE DEF Inv, Proceeds
<1>1. /\ pc'[q] \in Uploading => pc[q] \in Uploading
      /\ pc'[q] \in Removing => pc[q] \in Removing
      /\ pc'[q] \in Busy => pc[q] \in Busy
  BY DEF Busy, Uploading, Removing
<1>2. Types'
  BY <1>1 DEF Types
<1>3. UniqueIds' /\ OwnIds' /\ Matching'
  BY <1>1 DEF UniqueIds, OwnIds, Matching
<1>4. OneId'
  <2>1. \A v \in Videos : IdsOf(v)' \subseteq IdsOf(v)
    BY <1>1 DEF IdsOf
  <2> QED
    BY <2>1, OneIdStays
<1>5. ASSUME pc'[q] \in Uploading /\ Rowless(q)' => Rowless(q) PROVE Fresh'
  <2>1. \A p \in Requests : Rowless(p)' => Rowless(p)
    BY <1>5 DEF Rowless, Uploading
  <2> QED
    BY <1>1, <2>1 DEF Fresh
<1> QED
  BY <1>2, <1>3, <1>4, <1>5

\* The put of an original succeeds.
LEMMA PutKeepsInv ==
    ASSUME Inv, NEW q \in Requests, pc[q] = "put", Proceeds(q),
           pc'[q] = "insert", objects' = objects \cup {Original(video[q])},
           UNCHANGED <<rows, unclean>>
    PROVE  Inv'
<1> USE DEF Inv, Proceeds
<1>1. pc'[q] \in Uploading /\ pc[q] \in Uploading /\ Rowless(q) /\ pc[q] \in Busy
  BY DEF Uploading, Rowless, Busy
<1>2. video[q] \in Videos
  BY <1>1 DEF Types
<1>3. Types' /\ UniqueIds' /\ OwnIds' /\ Matching' /\ OneId' /\ Fresh'
  BY <1>1, ProceedKeepsIds
<1>4. \A p \in Requests : pc'[p] \in PastObject => p # q /\ pc[p] \in PastObject /\ pc[p] \in Busy
  BY DEF PastObject, Busy, Removing
<1>5. \A v \in Videos : v # video[q] => Original(v) # Original(video[q])
  BY DEF Original
<1>6. Ordered'
  <2>1. ASSUME NEW p \in Requests, pc[p] \in PastObject, Plain(video[p]), p # q
        PROVE  Original(video[p]) \notin objects'
    <3>1. pc[p] \in Busy /\ video[p] \in Videos
      BY <2>1 DEF Types, PastObject, Busy, Removing
    <3>2. video[p] # video[q]
      BY <1>1, <2>1, <3>1, PlainIsAlone
    <3> QED
      BY <1>5, <2>1, <3>1, <3>2 DEF Ordered
  <2> QED
    BY <1>4, <2>1 DEF Ordered, Plain
<1>7. Justified'
  <2>1. \A r : Kept(r) => Kept(r)'
    BY <1>4 DEF Kept
  <2>2. ASSUME NEW v \in Videos, v # video[q], Original(v) \in objects', v \notin unclean
        PROVE  \/ \E p \in Requests : pc'[p] \in {"insert", "cleanup"} /\ video[p] = v
               \/ \E r \in rows : VideoOf(r) = v /\ Kept(r)'
    BY <1>5, <2>1, <2>2 DEF Justified
  <2> QED
    BY <2>2 DEF Justified
<1>8. RowHasObject'
  <2>1. \A r \in rows : BeingRemoved(r) => BeingRemoved(r)'
    BY DEF BeingRemoved
  <2> QED
    BY <2>1 DEF RowHasObject
<1> QED
  BY <1>3, <1>6, <1>7, <1>8

\* An insert, committed or not, and answered or not.
LEMMA InsertKeepsInv ==
    ASSUME Inv, NEW q \in Requests, InsertRow(q)
    PROVE  Inv'
<1> USE DEF Inv
<1> DEFINE new == NewRow(q)
<1>1. /\ pc[q] = "insert" /\ objects' = objects
      /\ UNCHANGED <<video, rowId, usedIds, originals>>
      /\ pc' \in [Requests -> States]
      /\ \A p \in Requests \ {q} : pc'[p] = pc[p]
      /\ unclean \subseteq unclean'
      /\ \/ rows' = rows \cup {new} /\ pc'[q] = "ok" /\ unclean' = unclean
         \/ rows' = rows /\ pc'[q] = "cleanup" /\ unclean' = unclean
         \/ rows' = rows \cup {new} /\ pc'[q] = "cleanup" /\ video[q] \in unclean'
  BY DEF InsertRow, Goto, NoFault, Fault, Types, States, AfterFailedInsert, CleansUp
<1>2. pc[q] \in Uploading /\ pc[q] \in Busy /\ Rowless(q)
  BY <1>1 DEF Uploading, Busy, Rowless
<1>3. /\ video[q] \in Videos /\ rowId[q] \in usedIds
      /\ new.id = rowId[q] /\ VideoOf(new) = video[q] /\ new.file = Original(VideoOf(new))
  BY <1>2 DEF Types, NewRow, VideoOf, Original
<1>4. /\ \A r \in rows : r.id # rowId[q]
      /\ \A p \in Requests : pc[p] \in Removing => rowId[p] # rowId[q]
  BY <1>2 DEF Fresh
<1>5. /\ \A p \in Requests : pc'[p] \in Uploading => pc[p] \in Uploading
      /\ \A p \in Requests : pc'[p] \in Removing => pc[p] \in Removing
      /\ \A p \in Requests : pc'[p] \in PastObject <=> pc[p] \in PastObject
      /\ \A p \in Requests : pc'[p] \in Busy => pc[p] \in Busy
  BY <1>1 DEF Uploading, Removing, Busy, PastObject
<1>6. rows' \subseteq rows \cup {new} /\ rows \subseteq rows'
  BY <1>1
<1>7. Types'
  BY <1>1, <1>3, <1>5, <1>6 DEF Types
<1>8. UniqueIds' /\ OwnIds' /\ Matching'
  BY <1>1, <1>3, <1>4, <1>5, <1>6 DEF UniqueIds, OwnIds, Matching
<1>9. OneId'
  <2>1. \A v \in Videos : IdsOf(v)' \subseteq IdsOf(v)
    BY <1>1, <1>2, <1>3, <1>5, <1>6 DEF IdsOf
  <2> QED
    BY <1>1, <2>1, OneIdStays
<1>a. Fresh'
  <2>1. \A p \in Requests : Rowless(p)' => Rowless(p)
    BY <1>1, <1>2 DEF Rowless
  <2>2. \A p \in Requests : Rowless(p)' /\ new \in rows' => p # q
    <3>1. Rowless(q)' => rows' = rows
      BY <1>1 DEF Rowless
    <3> QED
      BY <1>3, <1>4, <3>1
  <2>3. \A p \in Requests : Rowless(p) /\ p # q => rowId[p] # rowId[q]
    BY <1>2 DEF OwnIds, Rowless, Uploading
  <2> QED
    BY <1>1, <1>3, <1>5, <1>6, <2>1, <2>2, <2>3 DEF Fresh
<1>b. \A v \in Videos : Plain(v)' => Plain(v)
  BY <1>1 DEF Plain
<1>c. Ordered'
  <2>1. \A p \in Requests : pc'[p] = "insert" => pc[p] = "insert"
    BY <1>1
  <2>2. \A p \in Requests : pc'[p] = "insert" \/ pc'[p] \in PastObject => video[p] \in Videos
    BY <1>5, <2>1 DEF Types, PastObject, Busy, Removing, Uploading
  <2> QED
    BY <1>1, <1>5, <1>b, <2>1, <2>2 DEF Ordered
<1>d. Justified'
  <2>1. \A r : Kept(r) => Kept(r)'
    BY <1>1, <1>5 DEF Kept
  <2>2. \A r : r.id = rowId[q] => Kept(r)'
    BY <1>1, <1>4, <1>5 DEF Kept, PastObject, Removing
  <2>3. ASSUME NEW v \in Videos, Original(v) \in objects, v \notin unclean'
        PROVE  \/ \E p \in Requests : pc'[p] \in {"insert", "cleanup"} /\ video[p] = v
               \/ \E r \in rows' : VideoOf(r) = v /\ Kept(r)'
    <3>1. CASE v = video[q]
      <4>1. CASE pc'[q] = "cleanup"
        BY <3>1, <4>1
      <4>2. CASE pc'[q] # "cleanup"
        <5>1. PICK r \in rows' : r = new
          BY <1>1, <4>2
        <5>2. VideoOf(r) = v /\ r.id = rowId[q]
          BY <1>3, <3>1, <5>1
        <5> QED
          BY <2>2, <5>2
      <4> QED
        BY <4>1, <4>2
    <3>2. CASE v # video[q]
      BY <1>1, <1>6, <2>1, <2>3, <3>2 DEF Justified
    <3> QED
      BY <3>1, <3>2
  <2> QED
    BY <1>1, <2>3 DEF Justified
<1>e. RowHasObject'
  <2>1. \A r \in rows : BeingRemoved(r) => BeingRemoved(r)'
    BY <1>1, <1>5 DEF BeingRemoved, PastObject
  <2>2. Plain(video[q]) => Original(video[q]) \in objects
    BY <1>1 DEF Ordered
  <2>3. ASSUME NEW r \in rows', Plain(VideoOf(r))' PROVE r.file \in objects' \/ BeingRemoved(r)'
    <3>1. VideoOf(r) \in Videos
      BY <1>3, <1>6 DEF Types
    <3>2. Plain(VideoOf(r))
      BY <1>b, <2>3, <3>1
    <3>3. CASE r = new
      BY <1>1, <1>3, <2>2, <3>2, <3>3
    <3>4. CASE r \in rows
      BY <1>1, <2>1, <3>2, <3>4 DEF RowHasObject, Plain
    <3> QED
      BY <1>6, <3>3, <3>4
  <2> QED
    BY <2>3 DEF RowHasObject, Plain
<1> QED
  BY <1>7, <1>8, <1>9, <1>a, <1>c, <1>d, <1>e

\* The object of a refused insert, or of a row about to go, is removed.
LEMMA ObjectGoesKeepsInv ==
    ASSUME Inv, NEW q \in Requests, Proceeds(q),
           objects' = objects \ {Original(video[q])}, UNCHANGED <<rows, unclean>>,
           \/ pc[q] = "cleanup" /\ pc'[q] = "failed"
           \/ pc[q] = "rmOriginal" /\ pc'[q] = "rmGenerated"
    PROVE  Inv'
<1> USE DEF Inv, Proceeds
<1>1. /\ pc[q] \in Busy
      /\ pc[q] = "cleanup" => pc[q] \in Uploading /\ pc'[q] \notin Busy
      /\ pc[q] = "rmOriginal" => /\ pc[q] \in Removing
                                 /\ pc'[q] \in Removing /\ pc'[q] \in PastObject
      /\ pc'[q] \notin Uploading /\ pc'[q] # "insert"
  BY DEF Uploading, Removing, Busy, PastObject
<1>2. video[q] \in Videos
  BY <1>1 DEF Types
<1>3. Types' /\ UniqueIds' /\ OwnIds' /\ Matching' /\ OneId' /\ Fresh'
  BY <1>1, ProceedKeepsIds
<1>4. \A v \in Videos : v # video[q] => (Original(v) \in objects' <=> Original(v) \in objects)
  BY DEF Original
<1>5. Original(video[q]) \notin objects'
  OBVIOUS
<1>6. Ordered'
  <2>1. ASSUME NEW p \in Requests, pc[p] = "insert", p # q, Plain(video[p])
        PROVE  Original(video[p]) \in objects'
    <3>1. video[p] # video[q]
      BY <1>1, <2>1, PlainIsAlone DEF Rowless
    <3>2. video[p] \in Videos
      BY <2>1 DEF Types, Busy, Uploading
    <3> QED
      BY <1>4, <2>1, <3>1, <3>2 DEF Ordered
  <2>2. ASSUME NEW p \in Requests, pc'[p] \in PastObject, Plain(video[p])
        PROVE  Original(video[p]) \notin objects'
    <3>1. CASE p = q
      BY <1>5, <3>1
    <3>2. CASE p # q
      BY <2>2, <3>2 DEF Ordered
    <3> QED
      BY <3>1, <3>2
  <2> QED
    BY <1>1, <2>1, <2>2 DEF Ordered, Plain
<1>7. Justified'
  <2> SUFFICES ASSUME NEW v \in Videos, Original(v) \in objects', v \notin unclean
               PROVE  \/ \E p \in Requests : pc'[p] \in {"insert", "cleanup"} /\ video[p] = v
                      \/ \E r \in rows : VideoOf(r) = v /\ Kept(r)'
    BY DEF Justified
  <2>1. v # video[q] /\ Original(v) \in objects
    BY <1>5
  <2>2. CASE \E p \in Requests : pc[p] \in {"insert", "cleanup"} /\ video[p] = v
    BY <2>1, <2>2
  <2>3. CASE \E r \in rows : VideoOf(r) = v /\ Kept(r)
    <3>1. PICK r \in rows : VideoOf(r) = v /\ Kept(r)
      BY <2>3
    <3>2. pc[q] \in Removing => r.id # rowId[q]
      BY <2>1, <3>1 DEF Matching
    <3>3. \A p \in Requests : pc'[p] \in PastObject => rowId'[p] # r.id
      BY <1>1, <3>1, <3>2 DEF Kept, Uploading, Removing, PastObject, Busy
    <3>4. Kept(r)'
      BY <3>3 DEF Kept
    <3> QED
      BY <3>1, <3>4
  <2> QED
    BY <2>1, <2>2, <2>3 DEF Justified
<1>8. RowHasObject'
  <2> SUFFICES ASSUME NEW r \in rows, Plain(VideoOf(r))
               PROVE  r.file \in objects' \/ BeingRemoved(r)'
    BY DEF RowHasObject, Plain
  <2>1. VideoOf(r) \in Videos /\ r.file = Original(VideoOf(r))
    BY DEF Types
  <2>2. BeingRemoved(r) => BeingRemoved(r)'
    BY DEF BeingRemoved
  <2>3. CASE VideoOf(r) # video[q]
    BY <1>4, <2>1, <2>2, <2>3 DEF RowHasObject, Plain
  <2>4. CASE VideoOf(r) = video[q] /\ pc[q] = "cleanup"
    BY <2>4, PlainIsAlone DEF Rowless, Plain
  <2>5. CASE VideoOf(r) = video[q] /\ pc[q] = "rmOriginal"
    <3>1. r.id = rowId[q]
      BY <1>1, <2>5, PlainHasOneRow
    <3> QED
      BY <2>5, <3>1 DEF BeingRemoved
  <2> QED
    BY <2>3, <2>4, <2>5
<1> QED
  BY <1>3, <1>6, <1>7, <1>8

\* A removal reads its row.
LEMMA ReadKeepsInv ==
    ASSUME Inv, NEW q \in Requests, pc[q] = "idle", NEW r \in rows,
           pc' = [pc EXCEPT ![q] = "rmOriginal"],
           video' = [video EXCEPT ![q] = VideoOf(r)], rowId' = [rowId EXCEPT ![q] = r.id],
           UNCHANGED <<objects, rows, usedIds, originals, unclean>>
    PROVE  Inv'
<1> USE DEF Inv
<1> DEFINE Same(p) == pc'[p] = pc[p] /\ video'[p] = video[p] /\ rowId'[p] = rowId[p]
<1>1. /\ \A p \in Requests \ {q} : Same(p)
      /\ pc'[q] = "rmOriginal" /\ video'[q] = VideoOf(r) /\ rowId'[q] = r.id
      /\ VideoOf(r) \in Videos /\ r.id \in usedIds /\ r.id \in RowIds
  BY DEF Types
<1>2. /\ \A p \in Requests : pc'[p] \in Uploading \cup PastObject => p # q /\ Same(p)
      /\ \A p \in Requests : Rowless(p)' => Rowless(p) /\ Same(p)
      /\ \A p \in Requests : pc[p] \in Uploading \cup PastObject => Same(p)
  BY <1>1 DEF Uploading, PastObject, Rowless
<1>3. Types'
  <2>1. pc' \in [Requests -> States]
    BY DEF Types, States
  <2> QED
    BY <1>1, <2>1 DEF Types
<1>4. UniqueIds' /\ OwnIds'
  BY <1>2 DEF UniqueIds, OwnIds
<1>5. Matching'
  BY <1>1 DEF Matching, UniqueIds
<1>6. Fresh'
  BY <1>1, <1>2 DEF Fresh
<1>7. OneId'
  <2>1. r.id \in IdsOf(VideoOf(r))
    BY DEF IdsOf
  <2>2. \A v \in Videos : IdsOf(v)' \subseteq IdsOf(v)
    BY <1>1, <2>1 DEF IdsOf
  <2> QED
    BY <2>2, OneIdStays
<1>8. Ordered'
  BY <1>2 DEF Ordered, Plain, Uploading
<1>9. Justified'
  <2>1. \A s : Kept(s) => Kept(s)'
    BY <1>2 DEF Kept
  <2> QED
    BY <1>2, <2>1 DEF Justified, Uploading
<1>a. RowHasObject'
  <2>1. \A s : BeingRemoved(s) => BeingRemoved(s)'
    BY <1>2 DEF BeingRemoved, PastObject
  <2> QED
    BY <2>1 DEF RowHasObject
<1> QED
  BY <1>3, <1>4, <1>5, <1>6, <1>7, <1>8, <1>9, <1>a

\* The generated files are dealt with, or the row goes.
LEMMA RowGoesKeepsInv ==
    ASSUME Inv, NEW q \in Requests, Proceeds(q), unclean' = unclean,
           \A v \in Videos : Original(v) \in objects' <=> Original(v) \in objects,
           \/ pc[q] = "rmGenerated" /\ pc'[q] = "rmRow" /\ rows' = rows
           \/ pc[q] = "rmRow" /\ pc'[q] = "removed" /\ rows' = RowsLeft(q)
    PROVE  Inv'
<1> USE DEF Inv, Proceeds
<1>1. /\ pc[q] \in Removing /\ pc[q] \in PastObject /\ pc'[q] \notin Uploading
      /\ pc'[q] \in Busy => pc'[q] \in Removing
      /\ \A p \in Requests : pc'[p] \in PastObject => pc[p] \in PastObject
      /\ pc'[q] \notin {"insert", "cleanup"} /\ pc[q] \notin {"insert", "cleanup"}
  BY DEF Removing, PastObject, Uploading, Busy
<1>2. /\ rows' \subseteq rows
      /\ \A r \in rows : r.id # rowId[q] => r \in rows'
      /\ pc[q] = "rmRow" => \A r \in rows' : r.id # rowId[q]
  BY DEF RowsLeft
<1>3. Types' /\ UniqueIds' /\ OwnIds' /\ Matching' /\ OneId' /\ Fresh'
  BY <1>1, <1>2, ProceedKeepsIds
<1>4. Ordered'
  <2>1. \A p \in Requests : pc'[p] = "insert" \/ pc'[p] \in PastObject => video[p] \in Videos
    BY <1>1 DEF Types, PastObject, Busy, Removing, Uploading
  <2> QED
    BY <1>1, <2>1 DEF Ordered, Plain
<1>5. Justified'
  <2>1. \A r : Kept(r) => Kept(r)' /\ r.id # rowId[q]
    BY <1>1 DEF Kept
  <2> QED
    BY <1>1, <1>2, <2>1 DEF Justified
<1>6. RowHasObject'
  <2> SUFFICES ASSUME NEW r \in rows', Plain(VideoOf(r))
               PROVE  r.file \in objects' \/ BeingRemoved(r)'
    BY DEF RowHasObject, Plain
  <2>1. VideoOf(r) \in Videos /\ r.file = Original(VideoOf(r)) /\ r \in rows
    BY <1>2 DEF Types
  <2>2. BeingRemoved(r) => BeingRemoved(r)'
    <3>1. ASSUME NEW p \in Requests, pc[p] \in {"rmGenerated", "rmRow"}, rowId[p] = r.id
          PROVE  pc'[p] \in {"rmGenerated", "rmRow"}
      BY <1>2, <3>1
    <3> QED
      BY <3>1 DEF BeingRemoved
  <2> QED
    BY <2>1, <2>2 DEF RowHasObject, Plain
<1> QED
  BY <1>3, <1>4, <1>5, <1>6

-----------------------------------------------------------------------------
\* The names of generated files are none of originals.
LEMMA OriginalsDiffer ==
    ASSUME NEW v \in Videos, NEW p, NEW k \in GenKinds
    PROVE  Original(v) # <<p, k>>
BY StoreAssumption DEF Original, GenKinds

\* Calls that neither began nor work on an upload of an original or a removal.
LEMMA LooksEnd ==
    ASSUME Inv, NEW q \in Requests,
           \/ Look(q)
           \/ \E v \in Videos, k \in GenKinds : UploadGenerated(q, v, k)
    PROVE  Ending
<1> USE DEF Inv
<1>1. ASSUME Refuse(q) \/ (\E u \in Users : GetUserVideos(q, u) \/ GetRecentUserVideos(q, u))
             \/ List(q) \/ (\E d \in RowIds : GetVideo(q, d))
      PROVE  Ending
  <2>1. /\ UNCHANGED <<objects, rows, usedIds, originals, video, rowId>>
        /\ unclean' = unclean
    BY <1>1 DEF Refuse, GetUserVideos, GetRecentUserVideos, BeginList, List, GetVideo,
                storeVars, NoFault, CleanFault
  <2>2. /\ pc' \in [Requests -> States] /\ pc[q] \notin Busy /\ pc'[q] \notin Busy
        /\ \A p \in Requests \ {q} : pc'[p] = pc[p]
    BY <1>1 DEF Refuse, GetUserVideos, GetRecentUserVideos, BeginList, List, GetVideo, Goto,
                AnswerOf, Types, States, Busy, Uploading, Removing
  <2> QED
    BY <2>1, <2>2 DEF Ending, Types
<1>2. ASSUME NEW v \in Videos, NEW k \in GenKinds, UploadGenerated(q, v, k)
      PROVE  Ending
  <2>1. /\ UNCHANGED <<rows, usedIds, originals, rowId>>
        /\ video' = [video EXCEPT ![q] = v]
        /\ unclean \subseteq unclean' /\ objects \subseteq objects'
        /\ objects' \subseteq objects \cup {<<v, k>>}
    BY <1>2 DEF UploadGenerated, NoFault, Fault
  <2>2. /\ pc' \in [Requests -> States] /\ pc[q] \notin Busy /\ pc'[q] \notin Busy
        /\ \A p \in Requests \ {q} : pc'[p] = pc[p]
    BY <1>2 DEF UploadGenerated, Goto, Types, States, Busy, Uploading, Removing
  <2>3. \A w \in Videos : Original(w) \in objects' <=> Original(w) \in objects
    BY <2>1, OriginalsDiffer
  <2>4. /\ video' \in [Requests -> Videos \cup {None}]
        /\ \A p \in Requests \ {q} : video'[p] = video[p]
    BY <2>1 DEF Types
  <2> QED
    BY <2>1, <2>2, <2>3, <2>4 DEF Ending, Types
<1> QED
  BY <1>1, <1>2 DEF Look

\* A crash ends all calls, and is charged to the videos they worked for.
LEMMA CrashEnds ==
    ASSUME Inv, Crash
    PROVE  Ending
<1> USE DEF Inv
<1>1. /\ UNCHANGED <<objects, rows, usedIds, originals, video, rowId>>
      /\ unclean' = unclean \cup ({video[q] : q \in {p \in Requests : Running(p)}} \ {None})
      /\ pc' = [q \in Requests |-> IF Running(q) THEN "lost" ELSE pc[q]]
  BY DEF Crash, storeVars
<1>2. \A p \in Requests : pc[p] \in Busy => Running(p) /\ video[p] \in Videos
  BY DEF Types, Busy, Uploading, Removing, Running, Ended
<1>3. \A p \in Requests : pc[p] \in Busy => video[p] \in unclean'
  BY <1>1, <1>2, StoreAssumption
<1>4. \A p \in Requests : pc'[p] = pc[p] \/ pc'[p] \notin Busy
  BY <1>1 DEF Busy, Uploading, Removing
<1>5. pc' \in [Requests -> States] /\ unclean \subseteq unclean'
  BY <1>1 DEF Types, States
<1> QED
  BY <1>1, <1>3, <1>4, <1>5 DEF Ending, Types

\* The steps of an upload and of a removal.
LEMMA CallsKeepInv ==
    ASSUME Inv, NEW q \in Requests,
           PutOriginal(q) \/ CleanUp(q) \/ RemoveOriginal(q) \/ RemoveGenerated(q) \/ RemoveRow(q)
    PROVE  Inv'
<1> USE DEF Inv
<1>1. /\ UNCHANGED <<video, rowId, usedIds, originals>>
      /\ pc[q] \in {"put", "cleanup", "rmOriginal", "rmGenerated", "rmRow"}
      /\ unclean \subseteq unclean'
  BY DEF PutOriginal, CleanUp, RemoveOriginal, RemoveGenerated, RemoveRow, NoFault, Fault,
         CleanFault
<1>2. /\ pc' \in [Requests -> States]
      /\ \A p \in Requests \ {q} : pc'[p] = pc[p]
  BY DEF PutOriginal, CleanUp, RemoveOriginal, RemoveGenerated, RemoveRow, Goto, Types, States,
         AfterFailedPut, Returns
<1>3. Proceeds(q) /\ video[q] \in Videos
  BY <1>1, <1>2 DEF Proceeds, Busy, Uploading, Removing, Types
<1>4. \A v \in Videos : v # video[q] => Original(v) # Original(video[q])
  BY DEF Original
<1>5. ASSUME pc'[q] = "failed", rows' \subseteq rows, \A r \in rows \ rows' : VideoOf(r) \in unclean',
             \/ objects' = objects
             \/ /\ video[q] \in unclean'
                /\ objects' \in {objects \cup {Original(video[q])}, objects \ {Original(video[q])}},
             pc[q] \in {"put", "rmOriginal"} \/ video[q] \in unclean'
      PROVE  Inv'
  <2>1. \A v \in Videos : v \notin unclean' =>
           (Original(v) \in objects' <=> Original(v) \in objects)
    BY <1>4, <1>5
  <2>2. pc'[q] \notin Busy
    BY <1>5 DEF Busy, Uploading, Removing
  <2>3. Ending
    BY <1>1, <1>2, <1>5, <2>1, <2>2 DEF Ending, Types
  <2> QED
    BY <2>3, EndingsKeepInv
<1>6. CASE PutOriginal(q)
  <2>1. rows' = rows
    BY <1>6 DEF PutOriginal
  <2>2. CASE pc'[q] = "insert" /\ unclean' = unclean /\ objects' = objects \cup {Original(video[q])}
    BY <1>3, <1>6, <2>1, <2>2, PutKeepsInv DEF PutOriginal
  <2>3. CASE /\ pc'[q] = "failed"
             /\ objects' = objects \/ (video[q] \in unclean'
                                       /\ objects' = objects \cup {Original(video[q])})
    BY <1>5, <1>6, <2>1, <2>3 DEF PutOriginal
  <2> QED
    BY <1>6, <2>2, <2>3 DEF PutOriginal, Goto, NoFault, Fault, CleanFault, Types,
                            AfterFailedPut, Returns
<1>7. CASE CleanUp(q)
  <2>1. /\ rows' = rows /\ pc[q] = "cleanup" /\ pc'[q] = "failed"
        /\ \/ objects' = objects \ {Original(video[q])} /\ unclean' = unclean
           \/ /\ objects' \in {objects, objects \ {Original(video[q])}}
              /\ video[q] \in unclean'
    BY <1>7 DEF CleanUp, Goto, Types, NoFault, Fault
  <2>2. CASE objects' = objects \ {Original(video[q])} /\ unclean' = unclean
    BY <1>3, <2>1, <2>2, ObjectGoesKeepsInv
  <2>3. CASE /\ objects' \in {objects, objects \ {Original(video[q])}}
             /\ video[q] \in unclean'
    BY <1>5, <2>1, <2>3
  <2> QED
    BY <2>1, <2>2, <2>3
<1>8. CASE RemoveOriginal(q)
  <2>1. /\ rows' = rows /\ pc[q] = "rmOriginal"
        /\ \/ /\ objects' = objects \ {Original(video[q])} /\ unclean' = unclean
              /\ pc'[q] = "rmGenerated"
           \/ objects' = objects /\ pc'[q] = "failed"
           \/ /\ objects' = objects \ {Original(video[q])} /\ pc'[q] = "failed"
              /\ video[q] \in unclean'
    BY <1>8 DEF RemoveOriginal, Goto, Types, NoFault, Fault, CleanFault
  <2>2. CASE pc'[q] = "rmGenerated"
    BY <1>3, <2>1, <2>2, ObjectGoesKeepsInv
  <2>3. CASE pc'[q] = "failed"
    BY <1>5, <2>1, <2>3
  <2> QED
    BY <2>1, <2>2, <2>3
<1>9. CASE RemoveGenerated(q)
  <2>1. /\ pc[q] = "rmGenerated" /\ pc'[q] = "rmRow" /\ rows' = rows /\ unclean' = unclean
        /\ objects' \subseteq objects
        /\ \A o \in objects \ objects' : \E k \in ListedKinds : o = <<rowId[q], k>>
    BY <1>9 DEF RemoveGenerated, Goto, Types, NoFault
  <2>2. \A v \in Videos : Original(v) \in objects' <=> Original(v) \in objects
    BY <2>1, OriginalsDiffer DEF GenKinds
  <2> QED
    BY <1>3, <2>1, <2>2, RowGoesKeepsInv
<1>a. CASE RemoveRow(q)
  <2>1. /\ pc[q] = "rmRow" /\ objects' = objects
        /\ \/ rows' = RowsLeft(q) /\ pc'[q] = "removed" /\ unclean' = unclean
           \/ rows' \in {rows, RowsLeft(q)} /\ pc'[q] = "failed" /\ video[q] \in unclean'
    BY <1>a DEF RemoveRow, Goto, Types, NoFault, Fault, RowsLeft
  <2>2. CASE pc'[q] = "removed"
    BY <1>3, <2>1, <2>2, RowGoesKeepsInv
  <2>3. CASE pc'[q] = "failed"
    <3>1. rows' \subseteq rows /\ \A r \in rows \ rows' : r.id = rowId[q]
      BY <2>1 DEF RowsLeft
    <3>2. \A r \in rows \ rows' : VideoOf(r) = video[q]
      BY <2>1, <3>1 DEF Matching, Removing
    <3> QED
      BY <1>5, <2>1, <2>3, <3>1, <3>2
  <2> QED
    BY <2>1, <2>2, <2>3
<1> QED
  BY <1>6, <1>7, <1>8, <1>9, <1>a

\* A removal begins, or ends because there is no such row.
LEMMA BeginRemoveKeepsInv ==
    ASSUME Inv, NEW q \in Requests, NEW d \in RowIds, BeginRemove(q, d)
    PROVE  Inv'
<1> USE DEF Inv
<1>1. /\ UNCHANGED <<objects, rows, usedIds, originals, unclean>>
      /\ pc[q] = "idle" /\ rowId' = [rowId EXCEPT ![q] = d]
      /\ \/ \E r \in rows : /\ r.id = d /\ video' = [video EXCEPT ![q] = VideoOf(r)]
                            /\ pc' = [pc EXCEPT ![q] = "rmOriginal"]
         \/ pc' = [pc EXCEPT ![q] = "failed"] /\ video' = video
  BY DEF BeginRemove, storeVars, NoFault, Goto, FirstRemoval, ObjectFirst
<1>2. ASSUME NEW r \in rows, r.id = d, video' = [video EXCEPT ![q] = VideoOf(r)],
             pc' = [pc EXCEPT ![q] = "rmOriginal"]
      PROVE  Inv'
  BY <1>1, <1>2, ReadKeepsInv
<1>3. CASE pc' = [pc EXCEPT ![q] = "failed"] /\ video' = video
  <2>1. /\ pc[q] \notin Busy /\ pc'[q] \notin Busy /\ pc' \in [Requests -> States]
        /\ rowId' \in [Requests -> RowIds \cup {None}]
        /\ \A p \in Requests \ {q} : pc'[p] = pc[p] /\ rowId'[p] = rowId[p]
    BY <1>1, <1>3 DEF Types, States, Busy, Uploading, Removing
  <2>2. Ending
    BY <1>1, <1>3, <2>1 DEF Ending, Types
  <2> QED
    BY <2>2, EndingsKeepInv
<1> QED
  BY <1>1, <1>2, <1>3

-----------------------------------------------------------------------------
\* The invariant the theorems follow from.
LEMMA Invariant == Spec => []Inv
<1>1. Init => Inv
  <2> SUFFICES ASSUME Init PROVE Inv
    OBVIOUS
  <2>1. /\ \A q \in Requests : pc[q] = "idle"
        /\ rows = {} /\ objects = {} /\ \A v \in Videos : originals[v] = 0
    BY DEF Init
  <2>2. \A q \in Requests : /\ pc[q] \notin Busy /\ pc[q] \notin Uploading
                            /\ pc[q] \notin Removing /\ ~Rowless(q)
    BY <2>1 DEF Busy, Uploading, Removing, Rowless
  <2>3. Types
    BY <2>2 DEF Init, Types, States
  <2>4. UniqueIds /\ OwnIds /\ Fresh /\ Matching /\ RowHasObject
    BY <2>1, <2>2 DEF UniqueIds, OwnIds, Fresh, Matching, RowHasObject
  <2>5. OneId
    BY <2>1, <2>2 DEF OneId, IdsOf
  <2>6. Ordered /\ Justified
    BY <2>1, <2>2 DEF Ordered, Justified, Plain
  <2> QED
    BY <2>3, <2>4, <2>5, <2>6 DEF Inv
<1>2. Inv /\ [Next]_vars => Inv'
  <2> SUFFICES ASSUME Inv, [Next]_vars PROVE Inv'
    OBVIOUS
  <2>1. CASE Crash
    BY <2>1, CrashEnds, EndingsKeepInv
  <2>2. ASSUME NEW q \in Requests, Upload(q) PROVE Inv'
    <3>1. CASE \E v \in Videos, k \in GenKinds : UploadGenerated(q, v, k)
      BY <3>1, LooksEnd, EndingsKeepInv
    <3>2. CASE \E v \in Videos, d \in RowIds : BeginOriginal(q, v, d)
      BY <3>2, BeginKeepsInv
    <3>3. CASE PutOriginal(q) \/ CleanUp(q)
      BY <3>3, CallsKeepInv
    <3>4. CASE InsertRow(q)
      BY <3>4, InsertKeepsInv
    <3> QED
      BY <2>2, <3>1, <3>2, <3>3, <3>4 DEF Upload
  <2>3. ASSUME NEW q \in Requests, Removal(q) PROVE Inv'
    BY <2>3, BeginRemoveKeepsInv, CallsKeepInv DEF Removal
  <2>4. ASSUME NEW q \in Requests, Look(q) PROVE Inv'
    BY <2>4, LooksEnd, EndingsKeepInv
  <2>5. CASE UNCHANGED vars
    <3>1. Ending
      BY <2>5 DEF Inv, Types, Ending, vars, storeVars, requestVars
    <3> QED
      BY <3>1, EndingsKeepInv
  <2> QED
    BY <2>1, <2>2, <2>3, <2>4, <2>5 DEF Next
<1> QED
  BY <1>1, <1>2, PTL DEF Spec

\* A row disappears in one step only, the last one of its removal.
LEMMA RowsGoByRemoval ==
    ASSUME [Next]_vars, NEW r \in rows \ rows'
    PROVE  \E q \in Requests : pc[q] = "rmRow" /\ r.id = rowId[q]
<1>1. CASE Crash \/ UNCHANGED vars
  BY <1>1 DEF Crash, vars, storeVars
<1>2. ASSUME NEW q \in Requests, Upload(q) \/ Look(q) PROVE FALSE
  BY <1>2 DEF Upload, Look, UploadGenerated, BeginOriginal, PutOriginal, InsertRow, CleanUp,
              Refuse, GetUserVideos, GetRecentUserVideos, BeginList, List, GetVideo, storeVars
<1>3. ASSUME NEW q \in Requests, Removal(q) PROVE pc[q] = "rmRow" /\ r.id = rowId[q]
  <2>1. RemoveRow(q)
    BY <1>3 DEF Removal, BeginRemove, RemoveOriginal, RemoveGenerated, storeVars
  <2> QED
    BY <2>1 DEF RemoveRow, RowsLeft
<1> QED
  BY <1>1, <1>2, <1>3 DEF Next

-----------------------------------------------------------------------------
(* The listing of a query.  LatestOf is a recursive function, of which the *)
(* provers know what its recurrence says once it is known to exist.        *)

\* Induction over the natural numbers, for a set instead of a predicate: the
\* initial segments 0..n are well-founded by inclusion.
LEMMA Induction ==
    ASSUME NEW T, 0 \in T, \A n \in Nat : n \in T => n + 1 \in T
    PROVE  Nat \subseteq T
<1> SUFFICES ASSUME NEW k \in Nat, k \notin T PROVE FALSE
  OBVIOUS
<1> DEFINE Segments == {0..n : n \in Nat \ T}
           R == StrictSubsetOrdering(Nat)
<1>1. Segments \subseteq FiniteSubsetsOf(Nat) /\ Segments # {}
  <2>1. \A n \in Nat : IsFiniteSet(0..n) /\ 0..n \subseteq Nat
    BY FS_Interval
  <2> QED
    BY <2>1 DEF FiniteSubsetsOf
<1>2. IsWellFoundedOn(R, FiniteSubsetsOf(Nat))
  BY FS_StrictSubsetOrderingWellFounded
<1> HIDE DEF R, Segments
<1>3. PICK x \in Segments : \A y \in Segments : ~(<<y, x>> \in R)
  BY <1>1, <1>2, WFMin
<1>4. PICK m \in Nat \ T : x = 0..m
  BY DEF Segments
<1>5. m - 1 \in Nat /\ m - 1 \notin T
  <2>1. m # 0
    OBVIOUS
  <2>2. m - 1 \in Nat
    BY <2>1
  <2>3. (m - 1) + 1 = m
    OBVIOUS
  <2> QED
    BY <2>2, <2>3
<1>6. 0..(m - 1) \in Segments
  BY <1>5 DEF Segments
<1>7. 0..(m - 1) \subseteq 0..m /\ m \in 0..m /\ m \notin 0..(m - 1) /\ 0..m \subseteq Nat
  OBVIOUS
<1>8. <<0..(m - 1), x>> \in R
  BY <1>4, <1>7 DEF R, StrictSubsetOrdering
<1> QED
  BY <1>3, <1>6, <1>8

\* f lists, for every n, the elements of S among the first n of s.
Lists(f, s, S, k) ==
    f = [n \in 0..k |-> IF n = 0 THEN <<>>
                        ELSE IF s[n] \in S THEN <<s[n]>> \o f[n - 1] ELSE f[n - 1]]

LEMMA ListsExists ==
    ASSUME NEW s, NEW S, NEW k \in Nat
    PROVE  \E f : Lists(f, s, S, k)
<1> DEFINE T == {n \in Nat : \E f : Lists(f, s, S, n)}
<1>1. 0 \in T
  <2> DEFINE f == [n \in 0..0 |-> <<>>]
  <2>1. f = [n \in 0..0 |-> IF n = 0 THEN <<>>
                            ELSE IF s[n] \in S THEN <<s[n]>> \o f[n - 1] ELSE f[n - 1]]
    OBVIOUS
  <2> HIDE DEF f
  <2>2. Lists(f, s, S, 0)
    BY <2>1 DEF Lists
  <2> QED
    BY <2>2
<1>2. ASSUME NEW n \in Nat, n \in T PROVE n + 1 \in T
  <2>1. PICK f : Lists(f, s, S, n)
    BY <1>2
  <2> DEFINE Step(g, i) == IF s[i] \in S THEN <<s[i]>> \o g[i - 1] ELSE g[i - 1]
             h == [i \in 0..(n + 1) |-> IF i = n + 1 THEN Step(f, n + 1) ELSE f[i]]
  <2>2. \A i \in 0..n : f[i] = IF i = 0 THEN <<>> ELSE Step(f, i)
    BY <2>1 DEF Lists
  <2>3. \A i \in 0..n : h[i] = f[i]
    OBVIOUS
  <2>4. h[n + 1] = Step(f, n + 1)
    OBVIOUS
  <2>5. \A i \in 1..(n + 1) : i - 1 \in 0..n
    OBVIOUS
  <2>6. \A i \in 1..(n + 1) : Step(h, i) = Step(f, i)
    BY <2>3, <2>5
  <2>7. h = [i \in 0..(n + 1) |-> h[i]]
    OBVIOUS
  <2> HIDE DEF h, Step
  <2>8. \A i \in 0..(n + 1) : h[i] = IF i = 0 THEN <<>> ELSE Step(h, i)
    <3> SUFFICES ASSUME NEW i \in 0..(n + 1)
                 PROVE  h[i] = IF i = 0 THEN <<>> ELSE Step(h, i)
      OBVIOUS
    <3>1. CASE i = 0
      BY <2>2, <2>3, <3>1
    <3>2. CASE i = n + 1
      BY <2>4, <2>6, <3>2
    <3>3. CASE i \in 1..n
      BY <2>2, <2>3, <2>6, <3>3
    <3> QED
      BY <3>1, <3>2, <3>3
  <2>9. h = [i \in 0..(n + 1) |-> IF i = 0 THEN <<>> ELSE Step(h, i)]
    BY <2>7, <2>8, Zenon
  <2>10. Lists(h, s, S, n + 1)
    BY <2>9 DEF Lists, Step
  <2> QED
    BY <2>10
<1>3. Nat \subseteq T
  <2> HIDE DEF T
  <2> QED
    BY <1>1, <1>2, Induction
<1> QED
  BY <1>3

\* The order of two places in s, from a place in the listing to another.
LEMMA LatestOfLists ==
    ASSUME NEW D, NEW s \in Seq(D), NEW S
    PROVE  LET l == LatestOf(s, S) IN
           /\ l \in Seq(D)
           /\ \A i \in DOMAIN l : l[i] \in S
           /\ \A i, j \in DOMAIN l : i < j =>
                 \E a, b \in DOMAIN s : a > b /\ s[a] = l[i] /\ s[b] = l[j]
           /\ \A a \in DOMAIN s : s[a] \in S => \E i \in DOMAIN l : l[i] = s[a]
<1> DEFINE f == CHOOSE g : Lists(g, s, S, Len(s))
<1>1. Len(s) \in Nat /\ DOMAIN s = 1..Len(s)
  OBVIOUS
<1>2. Lists(f, s, S, Len(s))
  BY <1>1, ListsExists
<1>3. LatestOf(s, S) = f[Len(s)]
  BY DEF LatestOf, Lists
<1> HIDE DEF f
<1>4. f[0] = <<>> /\ \A n \in 1..Len(s) :
         f[n] = IF s[n] \in S THEN <<s[n]>> \o f[n - 1] ELSE f[n - 1]
  <2>1. \A n \in 0..Len(s) :
           f[n] = IF n = 0 THEN <<>>
                  ELSE IF s[n] \in S THEN <<s[n]>> \o f[n - 1] ELSE f[n - 1]
    BY <1>2, Zenon DEF Lists
  <2>2. 0 \in 0..Len(s) /\ \A n \in 1..Len(s) : n \in 0..Len(s) /\ n # 0
    BY <1>1
  <2> QED
    BY <2>1, <2>2
\* What the listing of the first n elements is.
<1> DEFINE Good(l, N) ==
              /\ l \in Seq(D)
              /\ \A i \in DOMAIN l : l[i] \in S
              /\ \A i \in DOMAIN l : \E a \in N : s[a] = l[i]
              /\ \A i, j \in DOMAIN l : i < j =>
                    \E a, b \in N : a > b /\ s[a] = l[i] /\ s[b] = l[j]
              /\ \A a \in N : s[a] \in S => \E i \in DOMAIN l : l[i] = s[a]
           T == {n \in Nat : n <= Len(s) => Good(f[n], 1..n)}
<1>5. 0 \in T
  <2>1. <<>> \in Seq(D) /\ DOMAIN <<>> = {} /\ 1..0 = {}
    OBVIOUS
  <2>2. \A i : i \notin DOMAIN <<>>
    BY <2>1
  <2>3. \A i : i \notin 1..0
    BY <2>1
  <2> DEFINE e == <<>>
  <2> HIDE DEF e
  <2>4. Good(e, 1..0)
    BY <2>1, <2>2, <2>3 DEF e
  <2>5. f[0] = e
    BY <1>4 DEF e
  <2> HIDE DEF Good
  <2> QED
    BY <2>4, <2>5
<1>6. ASSUME NEW n \in Nat, n \in T PROVE n + 1 \in T
  <2> SUFFICES ASSUME n + 1 <= Len(s) PROVE Good(f[n + 1], 1..(n + 1))
    OBVIOUS
  <2> DEFINE l == f[n]
             m == f[n + 1]
  <2>1. Good(l, 1..n)
    BY <1>1, <1>6
  <2>2. n + 1 \in 1..Len(s) /\ n + 1 \in 1..(n + 1) /\ s[n + 1] \in D /\ (n + 1) - 1 = n
    BY <1>1
  <2>3. m = IF s[n + 1] \in S THEN <<s[n + 1]>> \o l ELSE l
    BY <1>4, <2>2
  <2>4. \A a \in 1..(n + 1) : a \in 1..n \/ a = n + 1
    OBVIOUS
  <2>5. \A a \in 1..n : a \in 1..(n + 1) /\ n + 1 > a
    OBVIOUS
  <2> HIDE DEF l, m
  <2>6. CASE s[n + 1] \notin S
    <3>1. m = l
      BY <2>3, <2>6
    <3>2. Good(l, 1..(n + 1))
      BY <2>1, <2>4, <2>5, <2>6
    <3> QED
      BY <3>1, <3>2 DEF m
  <2>7. CASE s[n + 1] \in S
    <3>1. /\ m \in Seq(D) /\ l \in Seq(D) /\ DOMAIN l = 1..Len(l) /\ Len(l) \in Nat
          /\ DOMAIN m = 1..(Len(l) + 1) /\ m[1] = s[n + 1]
          /\ \A i \in 2..(Len(l) + 1) : m[i] = l[i - 1] /\ i - 1 \in DOMAIN l
          /\ \A i \in DOMAIN l : i + 1 \in DOMAIN m /\ m[i + 1] = l[i]
      BY <2>1, <2>2, <2>3, <2>7
    <3>2. \A i \in DOMAIN m : i = 1 \/ i \in 2..(Len(l) + 1)
      BY <3>1
    <3>3. \A i \in DOMAIN m : m[i] \in S
      BY <2>1, <2>7, <3>1, <3>2
    <3>4. \A i \in DOMAIN m : \E a \in 1..(n + 1) : s[a] = m[i]
      <4> SUFFICES ASSUME NEW i \in DOMAIN m PROVE \E a \in 1..(n + 1) : s[a] = m[i]
        OBVIOUS
      <4>1. CASE i = 1
        BY <2>2, <3>1, <4>1
      <4>2. CASE i \in 2..(Len(l) + 1)
        <5>1. PICK a \in 1..n : s[a] = l[i - 1]
          BY <2>1, <3>1, <4>2
        <5> QED
          BY <2>5, <3>1, <4>2, <5>1
      <4> QED
        BY <3>2, <4>1, <4>2
    <3>5. ASSUME NEW i \in DOMAIN m, NEW j \in DOMAIN m, i < j
          PROVE  \E a, b \in 1..(n + 1) : a > b /\ s[a] = m[i] /\ s[b] = m[j]
      <4>1. j \in 2..(Len(l) + 1)
        BY <3>1, <3>2, <3>5
      <4>2. CASE i = 1
        <5>1. PICK b \in 1..n : s[b] = l[j - 1]
          BY <2>1, <3>1, <4>1
        <5> QED
          BY <2>2, <2>5, <3>1, <4>1, <4>2, <5>1
      <4>3. CASE i \in 2..(Len(l) + 1)
        <5>1. i - 1 < j - 1 /\ i - 1 \in DOMAIN l /\ j - 1 \in DOMAIN l
          BY <3>1, <3>5, <4>1, <4>3
        <5>2. \E a, b \in 1..n : a > b /\ s[a] = l[i - 1] /\ s[b] = l[j - 1]
          BY <2>1, <5>1
        <5>3. PICK a \in 1..n, b \in 1..n : a > b /\ s[a] = l[i - 1] /\ s[b] = l[j - 1]
          BY <5>2
        <5> QED
          BY <2>5, <3>1, <4>1, <4>3, <5>3
      <4> QED
        BY <3>2, <4>2, <4>3
    <3>6. \A a \in 1..(n + 1) : s[a] \in S => \E i \in DOMAIN m : m[i] = s[a]
      <4>1. 1 \in DOMAIN m
        BY <3>1
      <4> QED
        BY SMTT(30), <2>1, <2>4, <3>1, <4>1
    <3>7. Good(m, 1..(n + 1))
      BY <3>1, <3>3, <3>4, <3>5, <3>6
    <3> QED
      BY <3>7 DEF m
  <2> QED
    BY <2>6, <2>7
<1>7. Nat \subseteq T
  <2> HIDE DEF T
  <2> QED
    BY <1>5, <1>6, Induction
<1>8. Good(f[Len(s)], 1..Len(s))
  <2>1. Len(s) \in T
    <3> HIDE DEF T
    <3> QED
      BY <1>1, <1>7
  <2> HIDE DEF Good
  <2> QED
    BY <1>1, <2>1
<1>9. Good(LatestOf(s, S), DOMAIN s)
  <2> HIDE DEF Good
  <2> QED
    BY <1>1, <1>3, <1>8
<1> QED
  BY <1>9

-----------------------------------------------------------------------------
(* Listings.  A listing is right when it is answered because of where ids  *)
(* come from: the id of an upload at work is in no listing asked before    *)
(* (Asked), created_at is read before the row is there (Stamped), and the  *)
(* call that wrote a row, or read it to remove it, stays as it was         *)
(* (Authored).  It stays right because stamps only grows at its end.       *)

Asked == \A q \in Requests :
    /\ before[q] \subseteq usedIds
    /\ \A p \in Requests : pc[p] \in {"put", "insert"} => rowId[p] \notin before[q]

Stamped ==
    /\ \A r \in rows : \E a \in 1..Len(stamps) : stamps[a] = r.id
    /\ \A p \in Requests :
          pc[p] = "insert" => \E a \in 1..Len(stamps) : stamps[a] = rowId[p]

Authored == \A r \in rows : \E p \in Requests :
    pc[p] # "idle" /\ rowId[p] = r.id /\ video[p] = VideoOf(r)

Answers == {"listed", "listedRecent"}

\* What ListingIsRight says of the answer of q, with the author of each row
\* known to be a call that has begun.
RightAnswer(q) ==
    /\ \A i, j \in 1..Len(got[q]) : i < j => Newer(got[q][i], got[q][j])
    /\ \A i \in 1..Len(got[q]) :
          \E p \in Requests : /\ pc[p] # "idle" /\ rowId[p] = got[q][i]
                              /\ video[p] \in Videos /\ Owner[video[p]] = user[q]
    /\ \A r \in rows :
          r.id \in before[q] /\ Owner[VideoOf(r)] = user[q] =>
              \/ \E i \in 1..Len(got[q]) : got[q][i] = r.id
              \/ /\ pc[q] = "listedRecent" /\ Len(got[q]) = Limit
                 /\ \A i \in 1..Limit : Newer(got[q][i], r.id)

Answered == \A q \in Requests : pc[q] \in Answers => RightAnswer(q)

Listings == TypeOK /\ Asked /\ Stamped /\ Authored /\ Answered

\* Request q acts, and no other; what a call worked on stays once it has begun.
Acts(q) ==
    /\ \A p \in Requests \ {q} : /\ pc'[p] = pc[p] /\ rowId'[p] = rowId[p] /\ video'[p] = video[p]
                                 /\ user'[p] = user[p] /\ got'[p] = got[p] /\ before'[p] = before[p]
    /\ pc[q] \notin Ended /\ pc'[q] # "idle"
    /\ pc[q] # "idle" => rowId'[q] = rowId[q] /\ video'[q] = video[q]

LEMMA UploadsAct ==
    ASSUME Inv, TypeOK, NEW q \in Requests, Upload(q)
    PROVE  /\ Acts(q) /\ UNCHANGED listVars /\ pc'[q] \notin Answers
           /\ \/ stamps' = stamps /\ pc'[q] # "insert"
              \/ stamps' = Append(stamps, rowId[q]) /\ pc[q] = "put"
           /\ rows' = rows \/ (rows' = rows \cup {NewRow(q)} /\ pc[q] = "insert")
           /\ \/ usedIds' = usedIds /\ pc'[q] # "put"
              \/ rowId'[q] \notin usedIds /\ pc'[q] = "put"
           /\ usedIds \subseteq usedIds'
<1> USE DEF Acts, Ended, Answers, listVars, Goto
<1>1. ASSUME NEW v \in Videos, NEW k \in GenKinds, UploadGenerated(q, v, k)
      PROVE  /\ Acts(q) /\ UNCHANGED listVars /\ pc'[q] \in {"ok", "failed"}
             /\ stamps' = stamps /\ rows' = rows /\ usedIds' = usedIds
  BY <1>1 DEF UploadGenerated, TypeOK
<1>2. ASSUME NEW v \in Videos, NEW d \in RowIds, BeginOriginal(q, v, d)
      PROVE  /\ Acts(q) /\ UNCHANGED listVars /\ pc'[q] = "put"
             /\ stamps' = stamps /\ rows' = rows
             /\ rowId'[q] \notin usedIds /\ usedIds \subseteq usedIds'
  BY <1>2 DEF BeginOriginal, TypeOK
<1>3. CASE PutOriginal(q)
  <2>1. Acts(q) /\ UNCHANGED listVars /\ pc'[q] \in {"insert", "failed"}
        /\ pc[q] = "put" /\ rows' = rows /\ usedIds' = usedIds
    BY <1>3 DEF PutOriginal, TypeOK, AfterFailedPut, Returns
  <2> QED
    BY <1>3, <2>1 DEF PutOriginal
<1>4. CASE InsertRow(q)
  <2>1. Acts(q) /\ UNCHANGED listVars /\ pc'[q] \in {"ok", "cleanup"}
        /\ pc[q] = "insert" /\ stamps' = stamps /\ usedIds' = usedIds
    BY <1>4 DEF InsertRow, TypeOK, AfterFailedInsert, CleansUp
  <2> QED
    BY <1>4, <2>1 DEF InsertRow
<1>5. CASE CleanUp(q)
  BY <1>5 DEF CleanUp, TypeOK
<1> QED
  BY <1>1, <1>2, <1>3, <1>4, <1>5 DEF Upload

LEMMA RemovalsAct ==
    ASSUME Inv, TypeOK, NEW q \in Requests, Removal(q)
    PROVE  /\ Acts(q) /\ UNCHANGED <<listVars, stamps, usedIds>> /\ rows' \subseteq rows
           /\ pc'[q] \in Removing \cup {"failed", "removed"}
<1> USE DEF Acts, Ended, listVars, Goto, Removing
<1>1. ASSUME NEW d \in RowIds, BeginRemove(q, d)
      PROVE  /\ Acts(q) /\ UNCHANGED <<listVars, stamps, usedIds>> /\ rows' = rows
             /\ pc'[q] \in {"rmOriginal", "failed"}
  BY <1>1 DEF BeginRemove, TypeOK, storeVars, FirstRemoval, ObjectFirst
<1>2. CASE RemoveOriginal(q)
  BY <1>2 DEF RemoveOriginal, TypeOK
<1>3. CASE RemoveGenerated(q)
  BY <1>3 DEF RemoveGenerated, TypeOK
<1>4. CASE RemoveRow(q)
  BY <1>4 DEF RemoveRow, RowsLeft, TypeOK
<1> QED
  BY <1>1, <1>2, <1>3, <1>4 DEF Removal

LEMMA LooksAct ==
    ASSUME Inv, TypeOK, NEW q \in Requests, Look(q)
    PROVE  /\ Acts(q) /\ UNCHANGED storeVars
           /\ pc'[q] \in {"listAll", "listRecent", "truncated", "ok", "failed"} \cup Answers
           /\ before'[q] \in {before[q], Ids} /\ user'[q] \in Users \cup {user[q]}
           /\ \/ got'[q] = got[q] /\ pc'[q] \notin Answers
              \/ /\ pc[q] \in {"listAll", "listRecent"} /\ before'[q] = before[q]
                 /\ user'[q] = user[q]
                 /\ \/ got'[q] = Result(q) /\ pc'[q] = AnswerOf(pc[q])
                    \/ /\ \E k \in 0..Len(Result(q)) - 1 : got'[q] = SubSeq(Result(q), 1, k)
                       /\ pc'[q] = "truncated"
<1> USE DEF Acts, Ended, Goto, Answers
<1>1. CASE Refuse(q)
  BY <1>1 DEF Refuse, listVars, TypeOK
<1>2. ASSUME NEW u \in Users, NEW kind \in {"listAll", "listRecent"}, BeginList(q, u, kind)
      PROVE  /\ Acts(q) /\ UNCHANGED storeVars /\ pc'[q] = kind
             /\ before'[q] = Ids /\ user'[q] = u /\ got'[q] = got[q]
  BY <1>2 DEF BeginList, TypeOK
<1>3. CASE List(q)
  <2>1. UNCHANGED <<storeVars, video, rowId, user, before>>
    BY <1>3 DEF List
  <2>2. pc[q] \in {"listAll", "listRecent"}
    BY <1>3 DEF List
  <2> DEFINE R == Result(q)
  <2>3. \/ got' = [got EXCEPT ![q] = R] /\ pc' = [pc EXCEPT ![q] = AnswerOf(pc[q])]
        \/ /\ \E k \in 0..Len(R) - 1 : got' = [got EXCEPT ![q] = SubSeq(R, 1, k)]
           /\ pc' = [pc EXCEPT ![q] = "truncated"]
        \/ got' = got /\ pc' = [pc EXCEPT ![q] = "failed"]
    BY <1>3 DEF List
  <2>4. AnswerOf(pc[q]) \in Answers
    BY DEF AnswerOf
  <2> HIDE DEF R
  <2>5. Acts(q)
    BY <2>1, <2>2, <2>3, <2>4 DEF TypeOK
  <2>6. \/ got'[q] = R /\ pc'[q] = AnswerOf(pc[q])
        \/ /\ \E k \in 0..Len(R) - 1 : got'[q] = SubSeq(R, 1, k)
           /\ pc'[q] = "truncated"
        \/ got'[q] = got[q] /\ pc'[q] = "failed"
    BY <2>3 DEF TypeOK
  <2> QED
    BY <2>1, <2>2, <2>4, <2>5, <2>6 DEF R
<1>4. ASSUME NEW d \in RowIds, GetVideo(q, d)
      PROVE  Acts(q) /\ UNCHANGED <<storeVars, listVars>> /\ pc'[q] \in {"ok", "failed"}
  BY <1>4 DEF GetVideo, listVars, TypeOK
<1> QED
  <2>1. CASE \E u \in Users : GetUserVideos(q, u) \/ GetRecentUserVideos(q, u)
    BY <1>2, <2>1 DEF GetUserVideos, GetRecentUserVideos
  <2>2. CASE \E d \in RowIds : GetVideo(q, d)
    BY <1>4, <2>2 DEF listVars
  <2> QED
    BY <1>1, <1>3, <2>1, <2>2 DEF Look

\* What the query answers.
LEMMA ResultIsRight ==
    ASSUME stamps \in Seq(RowIds), NEW q \in Requests
    PROVE  /\ Result(q) \in Seq(RowIds)
           /\ \A i \in 1..Len(Result(q)) : Owned(q, Result(q)[i])
           /\ \A i, j \in 1..Len(Result(q)) : i < j => Newer(Result(q)[i], Result(q)[j])
           /\ \A a \in 1..Len(stamps) : Owned(q, stamps[a]) =>
                 \/ \E i \in 1..Len(Result(q)) : Result(q)[i] = stamps[a]
                 \/ /\ pc[q] = "listRecent" /\ Len(Result(q)) = Limit
                    /\ \A i \in 1..Limit : Newer(Result(q)[i], stamps[a])
<1> DEFINE S == {d \in RowIds : Selected(q, d)}
           n == NewestFirst(q)
<1>1. /\ n \in Seq(RowIds)
      /\ \A i \in DOMAIN n : n[i] \in S
      /\ \A i, j \in DOMAIN n : i < j =>
            \E a, b \in DOMAIN stamps : a > b /\ stamps[a] = n[i] /\ stamps[b] = n[j]
      /\ \A a \in DOMAIN stamps : stamps[a] \in S => \E i \in DOMAIN n : n[i] = stamps[a]
  <2> HIDE DEF S
  <2>1. n = LatestOf(stamps, S)
    BY DEF NewestFirst, S
  <2> HIDE DEF n
  <2> QED
    BY <2>1, LatestOfLists
<1>2. \A d \in RowIds : d \in S <=> Owned(q, d)
  BY DEF Selected
<1>3. Result(q) = IF pc[q] = "listRecent" /\ Len(n) > Limit THEN SubSeq(n, 1, Limit) ELSE n
  BY DEF Result
<1> HIDE DEF S, n
<1>4. DOMAIN n = 1..Len(n) /\ Len(n) \in Nat /\ DOMAIN stamps = 1..Len(stamps)
  BY <1>1
<1>5. \A i \in 1..Len(n) : n[i] \in RowIds /\ Owned(q, n[i])
  BY <1>1, <1>2, <1>4
<1>6. \A i, j \in 1..Len(n) : i < j => Newer(n[i], n[j])
  BY <1>1, <1>4 DEF Newer
<1>7. \A a \in 1..Len(stamps) : Owned(q, stamps[a]) => \E i \in 1..Len(n) : n[i] = stamps[a]
  <2>1. \A a \in 1..Len(stamps) : stamps[a] \in RowIds
    OBVIOUS
  <2> QED
    BY <1>1, <1>2, <1>4, <2>1
<1>8. CASE ~(pc[q] = "listRecent" /\ Len(n) > Limit)
  <2>1. Result(q) = n
    BY <1>3, <1>8
  <2> QED
    BY <1>1, <1>5, <1>6, <1>7, <2>1
<1>9. CASE pc[q] = "listRecent" /\ Len(n) > Limit
  <2> DEFINE l == SubSeq(n, 1, Limit)
  <2>1. /\ l \in Seq(RowIds) /\ Len(l) = Limit /\ Limit \in Nat
        /\ \A i \in 1..Limit : l[i] = n[i] /\ i \in 1..Len(n)
    BY <1>1, <1>4, <1>9, StoreAssumption
  <2>2. Result(q) = l
    BY <1>3, <1>9
  <2> HIDE DEF l
  <2>3. ASSUME NEW a \in 1..Len(stamps), Owned(q, stamps[a])
        PROVE  \/ \E i \in 1..Limit : l[i] = stamps[a]
               \/ \A i \in 1..Limit : Newer(l[i], stamps[a])
    <3>1. PICK k \in 1..Len(n) : n[k] = stamps[a]
      BY <1>7, <2>3
    <3>2. CASE k <= Limit
      BY <2>1, <3>1, <3>2
    <3>3. CASE k > Limit
      <4>1. ASSUME NEW i \in 1..Limit PROVE Newer(l[i], stamps[a])
        BY <1>6, <2>1, <3>1, <3>3
      <4> QED
        BY <4>1
    <3> QED
      BY <2>1, <3>2, <3>3
  <2>4. \A i, j \in 1..Limit : i < j => Newer(l[i], l[j])
    BY <1>6, <2>1
  <2>5. \A i \in 1..Limit : Owned(q, l[i])
    BY <1>5, <2>1
  <2> QED
    BY <1>9, <2>1, <2>2, <2>3, <2>4, <2>5
<1> QED
  BY <1>8, <1>9

\* The type invariant.
LEMMA StepKeepsTypes ==
    ASSUME Inv, Inv', TypeOK, [Next]_vars
    PROVE  TypeOK'
<1> USE DEF TypeOK
<1>1. /\ pc' \in [Requests -> States]
      /\ video' \in [Requests -> Videos \cup {None}]
      /\ rowId' \in [Requests -> RowIds \cup {None}]
      /\ usedIds' \subseteq RowIds
      /\ originals' \in [Videos -> Nat]
  BY DEF Inv, Types
<1>2. \A q \in Requests : pc[q] \in Busy => video[q] \in Videos /\ rowId[q] \in RowIds
  BY DEF Inv, Types
<1> DEFINE Charged ==
              /\ faults' \in 0..MaxFaults /\ unclean' \subseteq Videos
           Stored ==
              /\ objects' \subseteq Names /\ rows' \subseteq Row /\ stamps' \in Seq(RowIds)
           Listed ==
              /\ user' \in [Requests -> Users \cup {None}]
              /\ got' \in [Requests -> Seq(RowIds)]
              /\ before' \in [Requests -> SUBSET RowIds]
<1>3. NoFault \/ CleanFault \/ (\E v \in Videos : Fault(v)) => Charged
  BY StoreAssumption DEF NoFault, CleanFault, Fault
<1>4. UNCHANGED storeVars => Stored
  BY DEF storeVars
<1>5. UNCHANGED listVars => Listed
  BY DEF listVars
<1>6. ASSUME NEW v \in Videos
      PROVE  Original(v) \in Names /\ \A k \in GenKinds : <<v, k>> \in Names
  BY DEF Names, Original
<1>7. CASE UNCHANGED vars
  <2> HIDE DEF Stored, Listed
  <2>1. Stored /\ Listed
    BY <1>4, <1>5, <1>7 DEF vars
  <2>2. Charged
    BY <1>7 DEF vars
  <2> HIDE DEF Charged
  <2> QED
    BY <1>1, <2>1, <2>2 DEF Charged, Stored, Listed
<1>8. CASE Crash
  <2>1. Charged
    BY <1>8, StoreAssumption DEF Crash
  <2> HIDE DEF Charged, Stored, Listed
  <2>2. Stored /\ Listed
    BY <1>4, <1>5, <1>8 DEF Crash
  <2> QED
    BY <1>1, <2>1, <2>2 DEF Charged, Stored, Listed
<1>9. ASSUME NEW q \in Requests, Upload(q) \/ Removal(q) PROVE Charged /\ Stored /\ Listed
  <2> HIDE DEF Charged, Stored, Listed
  <2> SUFFICES Charged /\ Stored
    BY <1>5, <1>9, UploadsAct, RemovalsAct DEF listVars
  <2>1. ASSUME NEW v \in Videos, NEW k \in GenKinds, UploadGenerated(q, v, k)
        PROVE  Charged /\ Stored
    <3>1. Charged
      BY <1>3, <2>1 DEF UploadGenerated
    <3>2. objects' \subseteq objects \cup {<<v, k>>} /\ UNCHANGED <<rows, stamps>>
      BY <2>1 DEF UploadGenerated
    <3> QED
      BY <1>6, <3>1, <3>2 DEF Stored
  <2>2. ASSUME NEW v \in Videos, NEW d \in RowIds, BeginOriginal(q, v, d)
        PROVE  Charged /\ Stored
    BY <1>3, <2>2 DEF BeginOriginal, Stored
  <2>3. CASE PutOriginal(q)
    <3>1. video[q] \in Videos /\ rowId[q] \in RowIds
      BY <1>2, <2>3 DEF PutOriginal, Busy, Uploading
    <3>2. Charged
      BY <1>3, <2>3, <3>1 DEF PutOriginal
    <3>3. objects' \subseteq objects \cup {Original(video[q])} /\ rows' = rows
          /\ stamps' \in {stamps, Append(stamps, rowId[q])}
      BY <2>3 DEF PutOriginal
    <3>4. stamps' \in Seq(RowIds)
      <4>1. stamps \in Seq(RowIds) /\ Append(stamps, rowId[q]) \in Seq(RowIds)
        BY <3>1
      <4> QED
        BY <3>3, <4>1, Zenon
    <3>5. objects' \subseteq Names /\ rows' \subseteq Row
      BY <1>6, <3>1, <3>3
    <3> QED
      BY <3>2, <3>4, <3>5 DEF Stored
  <2>4. CASE InsertRow(q)
    <3>1. video[q] \in Videos /\ rowId[q] \in RowIds
      BY <1>2, <2>4 DEF InsertRow, Busy, Uploading
    <3>2. Charged
      BY <1>3, <2>4, <3>1 DEF InsertRow
    <3>3. rows' \subseteq rows \cup {NewRow(q)} /\ UNCHANGED <<objects, stamps>>
      BY <2>4 DEF InsertRow
    <3>4. NewRow(q) \in Row
      BY <1>6, <3>1 DEF NewRow, Row
    <3> QED
      BY <3>2, <3>3, <3>4 DEF Stored
  <2>5. CASE CleanUp(q)
    <3>1. video[q] \in Videos
      BY <1>2, <2>5 DEF CleanUp, Busy, Uploading
    <3>2. Charged
      BY <1>3, <2>5, <3>1 DEF CleanUp
    <3>3. objects' \subseteq objects /\ UNCHANGED <<rows, stamps>>
      BY <2>5 DEF CleanUp
    <3> QED
      BY <3>2, <3>3 DEF Stored
  <2>6. ASSUME NEW d \in RowIds, BeginRemove(q, d) PROVE Charged /\ Stored
    BY <1>3, <1>4, <2>6 DEF BeginRemove
  <2>7. CASE RemoveOriginal(q)
    <3>1. video[q] \in Videos
      BY <1>2, <2>7 DEF RemoveOriginal, Busy, Removing
    <3>2. Charged
      BY <1>3, <2>7, <3>1 DEF RemoveOriginal
    <3>3. objects' \subseteq objects /\ UNCHANGED <<rows, stamps>>
      BY <2>7 DEF RemoveOriginal
    <3> QED
      BY <3>2, <3>3 DEF Stored
  <2>8. CASE RemoveGenerated(q)
    <3>1. Charged
      BY <1>3, <2>8 DEF RemoveGenerated
    <3>2. objects' \subseteq objects /\ UNCHANGED <<rows, stamps>>
      BY <2>8 DEF RemoveGenerated
    <3> QED
      BY <3>1, <3>2 DEF Stored
  <2>9. CASE RemoveRow(q)
    <3>1. video[q] \in Videos
      BY <1>2, <2>9 DEF RemoveRow, Busy, Removing
    <3>2. Charged
      BY <1>3, <2>9, <3>1 DEF RemoveRow
    <3>3. rows' \subseteq rows /\ UNCHANGED <<objects, stamps>>
      BY <2>9 DEF RemoveRow, RowsLeft
    <3> QED
      BY <3>2, <3>3 DEF Stored
  <2> QED
    BY <1>9, <2>1, <2>2, <2>3, <2>4, <2>5, <2>6, <2>7, <2>8, <2>9 DEF Upload, Removal
<1>a. ASSUME NEW q \in Requests, Look(q) PROVE Charged /\ Stored /\ Listed
  <2> HIDE DEF Charged, Stored, Listed
  <2>1. Stored
    BY <1>4, <1>a, LooksAct
  <2>2. Charged
    BY <1>3, <1>a DEF Look, Refuse, GetUserVideos, GetRecentUserVideos, BeginList, List, GetVideo
  <2>3. CASE Refuse(q) \/ \E d \in RowIds : GetVideo(q, d)
    BY <1>5, <2>1, <2>2, <2>3 DEF Refuse, GetVideo
  <2>4. ASSUME NEW u \in Users, GetUserVideos(q, u) \/ GetRecentUserVideos(q, u) PROVE Listed
    <3>1. user' = [user EXCEPT ![q] = u] /\ before' = [before EXCEPT ![q] = Ids] /\ got' = got
      BY <2>4 DEF GetUserVideos, GetRecentUserVideos, BeginList
    <3>2. Ids \subseteq RowIds
      BY DEF Ids, Row
    <3> QED
      BY <3>1, <3>2 DEF Listed
  <2>5. CASE List(q)
    <3> DEFINE R == Result(q)
    <3>1. R \in Seq(RowIds)
      BY ResultIsRight
    <3>2. UNCHANGED <<user, before>>
          /\ \/ got' = [got EXCEPT ![q] = R]
             \/ \E k \in 0..Len(R) - 1 : got' = [got EXCEPT ![q] = SubSeq(R, 1, k)]
             \/ got' = got
      BY <2>5 DEF List
    <3> HIDE DEF R
    <3>3. \A k \in 0..Len(R) - 1 : SubSeq(R, 1, k) \in Seq(RowIds)
      BY <3>1
    <3>4. got' \in [Requests -> Seq(RowIds)]
      BY <3>1, <3>2, <3>3
    <3>5. user' \in [Requests -> Users \cup {None}] /\ before' \in [Requests -> SUBSET RowIds]
      BY <3>2
    <3> QED
      BY <2>1, <2>2, <3>4, <3>5 DEF Listed
  <2> QED
    BY <1>a, <2>1, <2>2, <2>3, <2>4, <2>5 DEF Look
<1> HIDE DEF Charged, Stored, Listed
<1>b. CASE Charged /\ Stored /\ Listed
  BY <1>1, <1>b DEF Charged, Stored, Listed
<1> QED
  BY <1>7, <1>8, <1>9, <1>a, <1>b DEF Next

\* No listing loses its order when a row is stamped.
LEMMA NewerStays ==
    ASSUME TypeOK, TypeOK',
           stamps' = stamps \/ \E d \in RowIds : stamps' = Append(stamps, d)
    PROVE  /\ \A d, e : Newer(d, e) => Newer(d, e)'
           /\ \A d : (\E a \in 1..Len(stamps) : stamps[a] = d)
                        => \E a \in 1..Len(stamps') : stamps'[a] = d
<1>1. /\ Len(stamps) \in Nat /\ Len(stamps') \in Nat /\ Len(stamps) <= Len(stamps')
      /\ \A i \in 1..Len(stamps) : stamps'[i] = stamps[i]
  BY DEF TypeOK
<1>2. 1..Len(stamps) \subseteq 1..Len(stamps')
  BY <1>1
<1> QED
  BY <1>1, <1>2 DEF Newer

\* What every step does to the calls and the stamps.
Flows ==
    /\ stamps' = stamps \/ \E d \in RowIds : stamps' = Append(stamps, d)
    /\ usedIds \subseteq usedIds'
    /\ \A p \in Requests :
          pc[p] # "idle" => pc'[p] # "idle" /\ rowId'[p] = rowId[p] /\ video'[p] = video[p]
    /\ \A p \in Requests : pc'[p] = "put" => pc[p] = "put" \/ rowId'[p] \notin usedIds
    /\ \A p \in Requests : pc'[p] = "insert" =>
          pc[p] = "insert" \/ (pc[p] = "put" /\ stamps' = Append(stamps, rowId[p]))
    /\ \A r \in rows' \ rows : \E p \in Requests : pc[p] = "insert" /\ r = NewRow(p)
    /\ \A p \in Requests : before'[p] \in {before[p], Ids}
    /\ \A p \in Requests : pc'[p] \in Answers =>
          \/ /\ pc[p] = pc'[p] /\ got'[p] = got[p] /\ user'[p] = user[p] /\ before'[p] = before[p]
          \/ /\ pc[p] \in {"listAll", "listRecent"} /\ pc'[p] = AnswerOf(pc[p])
             /\ got'[p] = Result(p) /\ user'[p] = user[p] /\ before'[p] = before[p]
             /\ UNCHANGED storeVars

LEMMA StepFlows ==
    ASSUME Inv, TypeOK, [Next]_vars
    PROVE  Flows
<1>1. CASE Crash \/ UNCHANGED vars
  <2>1. /\ UNCHANGED <<storeVars, listVars, video, rowId>>
        /\ pc' = pc \/ pc' = [q \in Requests |-> IF Running(q) THEN "lost" ELSE pc[q]]
    BY <1>1 DEF Crash, vars, requestVars
  <2>2. \A p \in Requests : pc'[p] = pc[p] \/ (pc'[p] = "lost" /\ pc[p] # "idle")
    BY <2>1 DEF Running
  <2> QED
    BY <2>1, <2>2 DEF Flows, storeVars, listVars, Answers
<1>2. ASSUME NEW q \in Requests, Upload(q) PROVE Flows
  <2>1. /\ Acts(q) /\ UNCHANGED listVars /\ pc'[q] \notin Answers
        /\ \/ stamps' = stamps /\ pc'[q] # "insert"
           \/ stamps' = Append(stamps, rowId[q]) /\ pc[q] = "put"
        /\ rows' = rows \/ (rows' = rows \cup {NewRow(q)} /\ pc[q] = "insert")
        /\ \/ usedIds' = usedIds /\ pc'[q] # "put"
           \/ rowId'[q] \notin usedIds /\ pc'[q] = "put"
        /\ usedIds \subseteq usedIds'
    BY <1>2, UploadsAct
  <2>2. pc[q] = "put" => rowId[q] \in RowIds
    BY DEF Inv, Types, Busy, Uploading
  <2>3. \A p \in Requests : p = q \/ p \in Requests \ {q}
    OBVIOUS
  <2>4. stamps' = stamps \/ \E d \in RowIds : stamps' = Append(stamps, d)
    BY <2>1, <2>2
  <2>5. \A p \in Requests :
          pc[p] # "idle" => pc'[p] # "idle" /\ rowId'[p] = rowId[p] /\ video'[p] = video[p]
    BY <2>1, <2>3 DEF Acts
  <2>6. \A p \in Requests : pc'[p] = "put" => pc[p] = "put" \/ rowId'[p] \notin usedIds
    BY <2>1, <2>3 DEF Acts
  <2>7. \A p \in Requests : pc'[p] = "insert" =>
          pc[p] = "insert" \/ (pc[p] = "put" /\ stamps' = Append(stamps, rowId[p]))
    BY <2>1, <2>3 DEF Acts
  <2>8. \A p \in Requests : pc'[p] \in Answers => pc'[p] = pc[p]
    BY <2>1, <2>3 DEF Acts
  <2> QED
    BY <2>1, <2>4, <2>5, <2>6, <2>7, <2>8 DEF Flows, listVars
<1>3. ASSUME NEW q \in Requests, Removal(q) PROVE Flows
  <2>1. /\ Acts(q) /\ UNCHANGED <<listVars, stamps, usedIds>> /\ rows' \subseteq rows
        /\ pc'[q] \in Removing \cup {"failed", "removed"}
    BY <1>3, RemovalsAct
  <2>2. \A p \in Requests : p = q \/ p \in Requests \ {q}
    OBVIOUS
  <2>3. \A p \in Requests :
          /\ pc[p] # "idle" => pc'[p] # "idle" /\ rowId'[p] = rowId[p] /\ video'[p] = video[p]
          /\ pc'[p] \in {"put", "insert"} \cup Answers => pc'[p] = pc[p]
    BY <2>1, <2>2 DEF Acts, Removing, Answers
  <2> QED
    BY <2>1, <2>3 DEF Flows, listVars
<1>4. ASSUME NEW q \in Requests, Look(q) PROVE Flows
  <2>1. /\ Acts(q) /\ UNCHANGED storeVars
        /\ pc'[q] \in {"listAll", "listRecent", "truncated", "ok", "failed"} \cup Answers
        /\ before'[q] \in {before[q], Ids}
        /\ pc'[q] \in Answers =>
              /\ pc[q] \in {"listAll", "listRecent"} /\ before'[q] = before[q]
              /\ user'[q] = user[q] /\ got'[q] = Result(q) /\ pc'[q] = AnswerOf(pc[q])
    BY <1>4, LooksAct DEF Answers
  <2>2. \A p \in Requests : p = q \/ p \in Requests \ {q}
    OBVIOUS
  <2>3. \A p \in Requests :
          /\ pc[p] # "idle" => pc'[p] # "idle" /\ rowId'[p] = rowId[p] /\ video'[p] = video[p]
          /\ pc'[p] \in {"put", "insert"} => pc'[p] = pc[p]
          /\ before'[p] \in {before[p], Ids}
    BY <2>1, <2>2 DEF Acts, Answers
  <2>4. \A p \in Requests : pc'[p] \in Answers =>
          \/ /\ pc[p] = pc'[p] /\ got'[p] = got[p] /\ user'[p] = user[p] /\ before'[p] = before[p]
          \/ /\ pc[p] \in {"listAll", "listRecent"} /\ pc'[p] = AnswerOf(pc[p])
             /\ got'[p] = Result(p) /\ user'[p] = user[p] /\ before'[p] = before[p]
             /\ UNCHANGED storeVars
    BY <2>1, <2>2 DEF Acts
  <2> QED
    BY <2>1, <2>3, <2>4 DEF Flows, storeVars
<1> QED
  BY <1>1, <1>2, <1>3, <1>4 DEF Next

LEMMA AskedStays ==
    ASSUME Inv, Inv', Asked, Flows
    PROVE  Asked'
<1>1. Ids \subseteq usedIds
  BY DEF Inv, Types, Ids
<1>2. ASSUME NEW q \in Requests PROVE before'[q] \subseteq usedIds /\ before'[q] \subseteq usedIds'
  BY <1>1 DEF Asked, Flows
<1>3. ASSUME NEW q \in Requests, NEW p \in Requests, pc'[p] \in {"put", "insert"}
      PROVE  rowId'[p] \notin before'[q]
  <2>1. CASE pc[p] \in {"put", "insert"}
    <3>1. rowId'[p] = rowId[p]
      BY <2>1 DEF Flows
    <3>2. rowId[p] \notin Ids
      BY <2>1 DEF Inv, Fresh, Rowless, Ids
    <3> QED
      BY <2>1, <3>1, <3>2 DEF Asked, Flows
  <2>2. CASE rowId'[p] \notin usedIds
    BY <1>2, <2>2
  <2> QED
    BY <1>3, <2>1, <2>2 DEF Flows
<1> QED
  BY <1>2, <1>3 DEF Asked

LEMMA StampedStays ==
    ASSUME Inv, TypeOK, TypeOK', Stamped, Flows
    PROVE  Stamped'
<1>1. \A d : (\E a \in 1..Len(stamps) : stamps[a] = d)
                => \E a \in 1..Len(stamps') : stamps'[a] = d
  BY NewerStays DEF Flows
<1>2. ASSUME NEW p \in Requests, pc'[p] = "insert"
      PROVE  \E a \in 1..Len(stamps') : stamps'[a] = rowId'[p]
  <2>1. rowId'[p] = rowId[p]
    BY <1>2 DEF Flows
  <2>2. CASE pc[p] = "insert"
    BY <1>1, <2>1, <2>2 DEF Stamped
  <2>3. CASE stamps' = Append(stamps, rowId[p])
    <3>1. Len(stamps') = Len(stamps) + 1 /\ stamps'[Len(stamps) + 1] = rowId[p] /\ Len(stamps) \in Nat
      BY <2>3 DEF TypeOK
    <3>2. Len(stamps') \in 1..Len(stamps')
      BY <3>1
    <3> QED
      BY <2>1, <3>1, <3>2
  <2> QED
    BY <1>2, <2>2, <2>3 DEF Flows
<1>3. ASSUME NEW r \in rows' PROVE \E a \in 1..Len(stamps') : stamps'[a] = r.id
  <2>1. CASE r \in rows
    BY <1>1, <2>1 DEF Stamped
  <2>2. CASE r \notin rows
    <3>1. PICK p \in Requests : pc[p] = "insert" /\ r = NewRow(p)
      BY <2>2 DEF Flows
    <3>2. r.id = rowId[p]
      BY <3>1 DEF NewRow
    <3> QED
      BY <1>1, <3>1, <3>2 DEF Stamped
  <2> QED
    BY <2>1, <2>2
<1> QED
  BY <1>2, <1>3 DEF Stamped

LEMMA AuthoredStays ==
    ASSUME Inv, Authored, Flows
    PROVE  Authored'
<1> SUFFICES ASSUME NEW r \in rows'
             PROVE  \E p \in Requests : pc'[p] # "idle" /\ rowId'[p] = r.id /\ video'[p] = VideoOf(r)
  BY DEF Authored, VideoOf
<1>1. \E p \in Requests : pc[p] # "idle" /\ rowId[p] = r.id /\ video[p] = VideoOf(r)
  <2>1. CASE r \notin rows
    <3>1. PICK p \in Requests : pc[p] = "insert" /\ r = NewRow(p)
      BY <2>1 DEF Flows
    <3>2. r.id = rowId[p] /\ VideoOf(r) = video[p]
      BY <3>1 DEF NewRow, VideoOf, Original
    <3> QED
      BY <3>1, <3>2
  <2> QED
    BY <2>1 DEF Authored
<1> QED
  BY <1>1 DEF Flows

LEMMA AnsweredStays ==
    ASSUME Inv, Listings, TypeOK', Flows
    PROVE  Answered'
<1> USE DEF Listings
<1> SUFFICES ASSUME NEW q \in Requests, pc'[q] \in Answers PROVE RightAnswer(q)'
  BY DEF Answered
<1>1. \A d, e : Newer(d, e) => Newer(d, e)'
  BY NewerStays DEF Flows
<1>2. ASSUME NEW r \in rows', r.id \in before'[q], before'[q] = before[q] PROVE r \in rows
  <2>1. ASSUME NEW p \in Requests, pc[p] = "insert", r = NewRow(p) PROVE FALSE
    <3>1. r.id = rowId[p]
      BY <2>1 DEF NewRow
    <3> QED
      BY <1>2, <2>1, <3>1 DEF Asked
  <2> QED
    BY <2>1 DEF Flows
<1>3. PICK l : l = got'[q]
  OBVIOUS
<1>4. SUFFICES
        /\ \A i, j \in 1..Len(l) : i < j => Newer(l[i], l[j])
        /\ \A i \in 1..Len(l) :
              \E p \in Requests : /\ pc'[p] # "idle" /\ rowId'[p] = l[i]
                                  /\ video'[p] \in Videos /\ Owner[video'[p]] = user'[q]
        /\ \A r \in rows : r.id \in before'[q] /\ Owner[VideoOf(r)] = user'[q] =>
              \/ \E i \in 1..Len(l) : l[i] = r.id
              \/ /\ pc'[q] = "listedRecent" /\ Len(l) = Limit
                 /\ \A i \in 1..Limit : Newer(l[i], r.id)
        /\ before'[q] = before[q]
  <2>1. \A i, j \in 1..Len(l) : i < j => Newer(l[i], l[j])'
    BY <1>1, <1>4
  <2>2. \A r \in rows' : r.id \in before'[q] /\ Owner[VideoOf(r)] = user'[q] =>
              \/ \E i \in 1..Len(l) : l[i] = r.id
              \/ /\ pc'[q] = "listedRecent" /\ Len(l) = Limit
                 /\ \A i \in 1..Limit : Newer(l[i], r.id)'
    BY <1>1, <1>2, <1>4
  <2> QED
    BY <1>3, <1>4, <2>1, <2>2 DEF RightAnswer, Newer, VideoOf
<1>5. CASE pc[q] = pc'[q] /\ got'[q] = got[q] /\ user'[q] = user[q] /\ before'[q] = before[q]
  <2>1. RightAnswer(q)
    BY <1>5 DEF Answered
  <2> QED
    BY SMTT(30), <1>3, <1>5, <2>1 DEF RightAnswer, Flows
<1>6. CASE /\ pc[q] \in {"listAll", "listRecent"} /\ pc'[q] = AnswerOf(pc[q])
           /\ got'[q] = Result(q) /\ user'[q] = user[q] /\ before'[q] = before[q]
           /\ UNCHANGED storeVars
  <2>1. /\ \A i \in 1..Len(l) : Owned(q, l[i])
        /\ \A i, j \in 1..Len(l) : i < j => Newer(l[i], l[j])
        /\ \A a \in 1..Len(stamps) : Owned(q, stamps[a]) =>
              \/ \E i \in 1..Len(l) : l[i] = stamps[a]
              \/ /\ pc[q] = "listRecent" /\ Len(l) = Limit
                 /\ \A i \in 1..Limit : Newer(l[i], stamps[a])
    <3>1. l = Result(q) /\ stamps \in Seq(RowIds)
      BY <1>3, <1>6 DEF TypeOK
    <3> QED
      BY <3>1, ResultIsRight
  <2>2. ASSUME NEW i \in 1..Len(l)
        PROVE  \E p \in Requests : /\ pc'[p] # "idle" /\ rowId'[p] = l[i]
                                   /\ video'[p] \in Videos /\ Owner[video'[p]] = user[q]
    <3>1. PICK r \in rows : r.id = l[i] /\ Owner[VideoOf(r)] = user[q]
      BY <2>1 DEF Owned
    <3>2. PICK p \in Requests : pc[p] # "idle" /\ rowId[p] = r.id /\ video[p] = VideoOf(r)
      BY DEF Authored
    <3>3. VideoOf(r) \in Videos
      BY DEF Inv, Types
    <3> QED
      BY <3>1, <3>2, <3>3 DEF Flows
  <2>3. ASSUME NEW r \in rows, r.id \in before[q], Owner[VideoOf(r)] = user[q]
        PROVE  \/ \E i \in 1..Len(l) : l[i] = r.id
               \/ /\ pc'[q] = "listedRecent" /\ Len(l) = Limit
                  /\ \A i \in 1..Limit : Newer(l[i], r.id)
    <3>1. PICK a \in 1..Len(stamps) : stamps[a] = r.id
      BY DEF Stamped
    <3>2. Owned(q, stamps[a])
      BY <2>3, <3>1 DEF Owned
    <3>3. pc[q] = "listRecent" => pc'[q] = "listedRecent"
      BY <1>6 DEF AnswerOf
    <3> QED
      BY <2>1, <3>1, <3>2, <3>3
  <2> QED
    BY <1>6, <2>1, <2>2, <2>3
<1> QED
  BY <1>5, <1>6 DEF Flows

LEMMA ListingsInvariant == Spec => []Listings
<1>1. Init => Listings
  <2> SUFFICES ASSUME Init PROVE Listings
    OBVIOUS
  <2>1. <<>> \in Seq(RowIds)
    OBVIOUS
  <2>2. TypeOK
    BY <2>1, StoreAssumption DEF Init, TypeOK, States
  <2>3. Asked /\ Stamped /\ Authored /\ Answered
    BY DEF Init, Asked, Stamped, Authored, Answered, Answers
  <2> QED
    BY <2>2, <2>3 DEF Listings
<1>2. Inv /\ Inv' /\ Listings /\ [Next]_vars => Listings'
  <2> SUFFICES ASSUME Inv, Inv', Listings, [Next]_vars PROVE Listings'
    OBVIOUS
  <2>1. TypeOK /\ Asked /\ Stamped /\ Authored
    BY DEF Listings
  <2>2. TypeOK' /\ Flows
    BY <2>1, StepKeepsTypes, StepFlows
  <2> QED
    BY <2>1, <2>2, AskedStays, StampedStays, AuthoredStays, AnsweredStays DEF Listings
<1> QED
  BY <1>1, <1>2, Invariant, PTL DEF Spec

-----------------------------------------------------------------------------
\* The variables keep their types.
THEOREM TypesHold == Spec => []TypeOK
BY ListingsInvariant, PTL DEF Listings

\* A listing answered in full shows its user's videos only, newest first, and
\* all that were there from the question to the answer, as far as there is room.
THEOREM ListingsAreRight == Spec => []ListingIsRight
<1>1. Listings => ListingIsRight
  <2> SUFFICES ASSUME Listings, NEW q \in Requests, RightAnswer(q)
               PROVE  \A i \in 1..Len(got[q]) :
                         \E p \in Requests : rowId[p] = got[q][i] /\ video[p] # None
                                             /\ Owner[video[p]] = user[q]
    BY DEF ListingIsRight, Listings, Answered, Answers, RightAnswer
  <2> QED
    BY StoreAssumption DEF RightAnswer
<1> QED
  BY <1>1, ListingsInvariant, PTL

\* A row of a video uploaded once, none of whose calls ended unclearly, has its
\* object until a removal has taken it on the row's way out.
THEOREM RowsHaveObjects == Spec => []RowHasObject
BY Invariant, PTL DEF Inv

\* An original without a row is in the hands of a call at work.
THEOREM OriginalsAreWanted == Spec => []NoOrphanOriginal
<1>1. Inv => NoOrphanOriginal
  <2> SUFFICES ASSUME Inv, NEW v \in Videos, Original(v) \in objects, v \notin unclean
               PROVE  \/ \E r \in rows : r.file = Original(v)
                      \/ \E q \in Requests : video[q] = v /\ Running(q)
    BY DEF NoOrphanOriginal
  <2>1. CASE \E q \in Requests : pc[q] \in {"insert", "cleanup"} /\ video[q] = v
    BY <2>1 DEF Running, Ended
  <2>2. CASE \E r \in rows : VideoOf(r) = v /\ Kept(r)
    BY <2>2 DEF Inv, Types
  <2> QED
    BY <2>1, <2>2 DEF Inv, Justified
<1> QED
  BY <1>1, Invariant, PTL

\* When the row of such a video goes its object is already gone.
THEOREM RowsGoLast == Spec => RowGoesLast
<1>1. Inv /\ [Next]_vars =>
        [\A r \in rows \ rows' :
            originals[VideoOf(r)] = 1 /\ VideoOf(r) \notin unclean
                => r.file \notin objects]_vars
  <2> SUFFICES ASSUME Inv, [Next]_vars, NEW r \in rows \ rows', Plain(VideoOf(r))
               PROVE  r.file \notin objects
    BY DEF Plain
  <2> USE DEF Inv
  <2>1. PICK q \in Requests : pc[q] = "rmRow" /\ r.id = rowId[q]
    BY RowsGoByRemoval
  <2>2. VideoOf(r) = video[q]
    BY <2>1 DEF Matching, Removing
  <2>3. r.file = Original(VideoOf(r))
    BY DEF Types
  <2> QED
    BY <2>1, <2>2, <2>3 DEF Ordered, PastObject
<1> QED
  BY <1>1, Invariant, PTL DEF Spec, RowGoesLast

=============================================================================
