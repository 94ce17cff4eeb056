------------------------------ MODULE Downloads ------------------------------
(***************************************************************************)
(* The readers of the bucket.  repo streams an object in chunks            *)
(* (repo/internal/handler/handler.go, storage/minio.go) to the gateway,    *)
(* which relays it to a browser (gateway/internal/api/videos.go), and to   *)
(* nsfw, which saves it and looks at its frames (nsfw/utils.py, app.py).   *)
(* HLS files go from MinIO through the gateway without repo                *)
(* (gateway/internal/api/stream.go).  Objects are stored, replaced and     *)
(* removed meanwhile (VideoStore).                                         *)
(*                                                                         *)
(* An object is a sequence of bytes <<content, position>>, so that the     *)
(* properties can tell where each byte a reader has came from.             *)
(***************************************************************************)
EXTENDS Integers, Sequences

CONSTANTS Files,     \* names in the bucket
          Contents,  \* what may be stored under them
          Size,      \* per content, its length
          Explicit,  \* the bytes that hold a frame nsfw must find
          Calls,     \* requests, each made once
          ChunkSize, \* 512 KiB in the code
          TextLen,   \* length of the text http.Error writes
          None,
          MaxFaults  \* bound: broken streams, failed reads and failed frames

Kinds == {"browser", "hls", "check"}

Bytes(c) == [i \in 1..Size[c] |-> <<c, i>>]
Text == <<None, 0>>                  \* a byte of an error text
Byte == (Contents \X Nat) \cup {Text}
ErrorText == [i \in 1..TextLen |-> Text]

ASSUME DownloadsAssumption ==
    /\ Size \in [Contents -> Nat \ {0}]   \* repo refuses empty files
    /\ ChunkSize \in Nat \ {0}
    /\ TextLen \in Nat \ {0}
    /\ MaxFaults \in Nat
    /\ None \notin Contents \cup Kinds \cup Seq(Byte)

VARIABLES
    bucket, \* per file, its content or None
    pc,     \* per call, where its handler is
    kind,   \* per call, "browser", "hls" or "check"
    file,   \* per call, the name it asked for
    held,   \* per call, the bytes that were read from MinIO for it
    sent,   \* per call, how many of them have been streamed
    body,   \* per call, what its client (or nsfw) has received
    disk,   \* per file, nsfw's local copy, or None
    faults

callVars == <<pc, kind, file, held, sent, body>>
vars == <<bucket, callVars, disk, faults>>

States == {"idle", "fetch", "copy", "relay", "save", "write", "detached",
           "look", "delete", "ok", "cut", "failed", "safe", "explicit"}

Init ==
    /\ bucket \in [Files -> Contents \cup {None}]
    /\ pc = [q \in Calls |-> "idle"]
    /\ kind = [q \in Calls |-> None]
    /\ file = [q \in Calls |-> None]
    /\ held = [q \in Calls |-> <<>>]
    /\ sent = [q \in Calls |-> 0]
    /\ body = [q \in Calls |-> <<>>]
    /\ disk = [f \in Files |-> None]
    /\ faults = 0

Goto(q, state) == pc' = [pc EXCEPT ![q] = state]
Fault == faults < MaxFaults /\ faults' = faults + 1

\* Uploads and removals, which VideoStore models.
Change(f) ==
    /\ \E c \in Contents \cup {None} : c # bucket[f] /\ bucket' = [bucket EXCEPT ![f] = c]
    /\ UNCHANGED <<callVars, disk, faults>>

-----------------------------------------------------------------------------
(* repo's DownloadVideo.                                                   *)

\* A reader opens the stream.
Ask(q, f, k) ==
    /\ pc[q] = "idle"
    /\ Goto(q, "fetch")
    /\ kind' = [kind EXCEPT ![q] = k]
    /\ file' = [file EXCEPT ![q] = f]
    /\ UNCHANGED <<bucket, held, sent, body, disk, faults>>

DownloadVideo(q, f) == Ask(q, f, "browser")
GetVideoById(q, f) == Ask(q, f, "check")

\* What DownloadFile goes on with when io.Copy broke off: nothing.
CopyFails(c, bytes) == FALSE
CopyErrorIgnored(c, bytes) ==       \* faulty: it returns what the buffer has
    \E n \in 0..Size[c] : bytes = SubSeq(Bytes(c), 1, n)

PartialIsKept(c, bytes) == CopyFails(c, bytes)

\* DownloadFile: the whole object is read before its metadata are streamed, or
\* the stream ends with an error: the gateway answers 500, nsfw has no file.
Fetch(q) ==
    /\ pc[q] = "fetch"
    /\ LET c == bucket[file[q]] IN
       \/ /\ c # None
          /\ held' = [held EXCEPT ![q] = Bytes(c)]
          /\ Goto(q, "relay")
          /\ UNCHANGED faults
       \/ /\ c # None
          /\ Fault
          /\ \E n \in 0..Size[c] :
                /\ PartialIsKept(c, SubSeq(Bytes(c), 1, n))
                /\ held' = [held EXCEPT ![q] = SubSeq(Bytes(c), 1, n)]
          /\ Goto(q, "relay")
       \/ /\ (c = None /\ UNCHANGED faults) \/ Fault
          /\ \/ Goto(q, "failed")
             \/ kind[q] = "check" /\ Goto(q, "safe")
          /\ UNCHANGED held
    /\ UNCHANGED <<bucket, kind, file, sent, body, disk>>

\* end := i + chunkSize, at most n.
ChunkEnd(q) == IF sent[q] + ChunkSize > Len(held[q]) THEN Len(held[q])
                                                    ELSE sent[q] + ChunkSize
Chunk(q) == SubSeq(held[q], sent[q] + 1, ChunkEnd(q))

\* isLast := end == n.
EndsHere(q) == ChunkEnd(q) = Len(held[q])
EndsNext(q) ==                      \* faulty: one chunk too early
    ChunkEnd(q) + ChunkSize >= Len(held[q])

IsLast(q) == EndsHere(q)

More(q) == sent[q] < Len(held[q])

\* i += chunkSize.
ByChunk(q) == sent[q] + ChunkSize
ByTwo(q) == sent[q] + 2 * ChunkSize  \* faulty: i is advanced in the body too

Advanced(q) == ByChunk(q)

\* One chunk is streamed and handed on.  nsfw leaves its loop at the last one.
Relay(q) ==
    /\ pc[q] = "relay"
    /\ More(q)
    /\ body' = [body EXCEPT ![q] = @ \o Chunk(q)]
    /\ sent' = [sent EXCEPT ![q] = Advanced(q)]
    /\ IF kind[q] = "check" /\ IsLast(q) THEN Goto(q, "save") ELSE UNCHANGED pc
    /\ UNCHANGED <<bucket, kind, file, held, disk, faults>>

\* The stream ends; nsfw has left its loop before.
Eof(q) ==
    /\ pc[q] = "relay"
    /\ ~More(q)
    /\ Goto(q, IF kind[q] = "check" THEN "save" ELSE "ok")
    /\ UNCHANGED <<bucket, kind, file, held, sent, body, disk, faults>>

-----------------------------------------------------------------------------
(* The gateway, to a browser.                                              *)

\* Content-Length is set from the metadata.
LengthSet == TRUE
LengthUnset == FALSE                \* faulty: the header is left out

DeclaresLength == LengthSet

\* http.Error writes its text after what was relayed; net/http refuses a write
\* beyond the declared length.
WithText(q) ==
    IF DeclaresLength /\ Len(body[q]) + TextLen > Len(held[q])
    THEN body[q] ELSE body[q] \o ErrorText

\* The client takes a response of the declared length for complete.
LooksComplete(q, received) == ~DeclaresLength \/ Len(received) = Len(held[q])

\* The stream breaks: 500 if nothing was written, else the text in the body.
BreakRelay(q) ==
    /\ pc[q] = "relay" /\ kind[q] = "browser"
    /\ Fault
    /\ IF body[q] = <<>>
       THEN Goto(q, "failed") /\ UNCHANGED body
       ELSE /\ body' = [body EXCEPT ![q] = WithText(q)]
            /\ Goto(q, IF LooksComplete(q, WithText(q)) THEN "ok" ELSE "cut")
    /\ UNCHANGED <<bucket, kind, file, held, sent, disk>>

\* WriteTimeout: the server closes the connection of a slow response.
TimesOut(q) ==
    /\ pc[q] = "relay" /\ kind[q] # "check"
    /\ Goto(q, "cut")
    /\ UNCHANGED <<bucket, kind, file, held, sent, body, disk, faults>>

-----------------------------------------------------------------------------
(* StreamFromMinIO.                                                        *)

\* GetObject and Stat: 404 if there is no object, else 200 at once.
StreamHls(q, f) ==
    /\ pc[q] = "idle"
    /\ kind' = [kind EXCEPT ![q] = "hls"]
    /\ file' = [file EXCEPT ![q] = f]
    /\ \/ /\ bucket[f] # None
          /\ held' = [held EXCEPT ![q] = Bytes(bucket[f])]
          /\ Goto(q, "copy")
          /\ UNCHANGED faults
       \/ /\ (bucket[f] = None /\ UNCHANGED faults) \/ Fault
          /\ Goto(q, "failed")
          /\ UNCHANGED held
    /\ UNCHANGED <<bucket, sent, body, disk>>

\* What the handler appends when io.Copy failed.
Appended == ErrorText

\* The response has no declared length: whatever follows the failure, net/http
\* ends the body properly, and the client takes it for complete.
EndWithError(q) ==
    /\ body' = [body EXCEPT ![q] = @ \o Appended]
    /\ Goto(q, "ok")

\* io.Copy's first read asks for the object Stat saw, by its ETag.
CopyHls(q) ==
    /\ pc[q] = "copy"
    /\ LET c == bucket[file[q]]
           same == c # None /\ held[q] = Bytes(c)
       IN \/ same /\ Goto(q, "relay") /\ UNCHANGED <<body, faults>>
          \/ ~same /\ EndWithError(q) /\ UNCHANGED faults
          \/ same /\ Fault /\ EndWithError(q)
    /\ UNCHANGED <<bucket, kind, file, held, sent, disk>>

BreakHls(q) ==
    /\ pc[q] = "relay" /\ kind[q] = "hls"
    /\ Fault
    /\ EndWithError(q)
    /\ UNCHANGED <<bucket, kind, file, held, sent, disk>>

-----------------------------------------------------------------------------
(* nsfw.                                                                   *)

\* A broken stream is an RpcError: getVideoById returns None.  cv2 raises on it
\* or has nothing to open, which handleFrameByFrame takes for a clean video.
BreakCheck(q) ==
    /\ pc[q] = "relay" /\ kind[q] = "check"
    /\ Fault
    /\ \/ Goto(q, "safe")
       \/ Goto(q, "failed")
    /\ UNCHANGED <<bucket, kind, file, held, sent, body, disk>>

\* The path of the local copy depends on the requested name alone.
Path(q) == file[q]

\* open(video_path, 'wb').
Truncate(q) ==
    /\ pc[q] = "save"
    /\ disk' = [disk EXCEPT ![Path(q)] = <<>>]
    /\ Goto(q, "write")
    /\ UNCHANGED <<bucket, kind, file, held, sent, body, faults>>

\* The bytes of `new` over those of `old`.
Over(new, old) ==
    IF Len(old) > Len(new) THEN new \o SubSeq(old, Len(new) + 1, Len(old)) ELSE new

\* f.write; into a file that was removed meanwhile ("detached") it goes nowhere.
Save(q) ==
    /\ \/ pc[q] = "write" /\ disk' = [disk EXCEPT ![Path(q)] = Over(body[q], @)]
       \/ pc[q] = "detached" /\ UNCHANGED disk
    /\ Goto(q, "look")
    /\ UNCHANGED <<bucket, kind, file, held, sent, body, faults>>

\* The open or the write fails: getVideoById returns None, as on a broken stream,
\* with what was written left in the file.
SaveFails(q) ==
    /\ \/ pc[q] \in {"save", "detached"} /\ UNCHANGED disk
       \/ /\ pc[q] = "write"
          /\ \E n \in 0..Len(body[q]) :
                disk' = [disk EXCEPT ![Path(q)] = Over(SubSeq(body[q], 1, n), @)]
    /\ Fault
    /\ \/ Goto(q, "safe")
       \/ Goto(q, "failed")
    /\ UNCHANGED <<bucket, kind, file, held, sent, body>>

Shows(bytes) == \E i \in 1..Len(bytes) : bytes[i] \in Explicit

\* handleFrameByFrame: without a file there are no frames, and a frame that
\* cannot be classified is skipped.
Look(q) ==
    /\ pc[q] = "look"
    /\ LET copy == disk[Path(q)]
           found == copy # None /\ Shows(copy)
       IN \/ found /\ Goto(q, "delete") /\ UNCHANGED faults
          \/ ~found /\ Goto(q, "safe") /\ UNCHANGED faults
          \/ found /\ Fault /\ Goto(q, "safe")
    /\ UNCHANGED <<bucket, kind, file, held, sent, body, disk>>

\* os.remove and the answer; it raises when another check has removed the file.
\* (The copy of a clean video stays.)
Delete(q) ==
    /\ pc[q] = "delete"
    /\ pc' = [p \in Calls |->
                IF p = q THEN IF disk[Path(q)] = None THEN "failed" ELSE "explicit"
                ELSE IF pc[p] = "write" /\ Path(p) = Path(q) THEN "detached" ELSE pc[p]]
    /\ disk' = [disk EXCEPT ![Path(q)] = None]
    /\ UNCHANGED <<bucket, kind, file, held, sent, body, faults>>

-----------------------------------------------------------------------------
Stream(q) == Fetch(q) \/ Relay(q) \/ Eof(q)
Hls(q) == CopyHls(q) \/ BreakHls(q)
Check(q) == Truncate(q) \/ Save(q) \/ SaveFails(q) \/ Look(q) \/ Delete(q)

Next ==
    \/ \E f \in Files : Change(f)
    \/ \E q \in Calls :
          \/ \E f \in Files : DownloadVideo(q, f) \/ GetVideoById(q, f) \/ StreamHls(q, f)
          \/ Stream(q) \/ Hls(q) \/ Check(q)
          \/ BreakRelay(q) \/ TimesOut(q) \/ BreakCheck(q)

Spec == Init /\ [][Next]_vars

-----------------------------------------------------------------------------
\* Calls are where a handler can be, with bytes of objects or of error texts.
TypeOK ==
    /\ bucket \in [Files -> Contents \cup {None}]
    /\ pc \in [Calls -> States]
    /\ kind \in [Calls -> Kinds \cup {None}]
    /\ file \in [Calls -> Files \cup {None}]
    /\ held \in [Calls -> Seq(Byte)]
    /\ sent \in [Calls -> Nat]
    /\ \A q \in Calls : sent[q] < Len(held[q]) + ChunkSize
    /\ body \in [Calls -> Seq(Byte)]
    /\ disk \in [Files -> Seq(Byte) \cup {None}]
    /\ faults \in 0..MaxFaults

Prefix(bytes, n) == SubSeq(bytes, 1, n)

\* A response that ended properly is one object, whole and of one version, or
\* the beginning of one followed by the text of an error: nothing is cut short
\* in silence, whatever broke and whatever was replaced or removed meanwhile.
CompleteIsWhole ==
    \A q \in Calls : pc[q] = "ok" =>
        \E c \in Contents :
            \/ body[q] = Bytes(c)
            \/ \E n \in 0..Size[c] : body[q] = Prefix(Bytes(c), n) \o ErrorText

\* A browser whose response is complete by the length it was promised has the
\* object it asked for, or all of it but as many bytes at the end as the text of
\* an error took the place of: the declared length rules out every other cut.
DownloadIsComplete ==
    \A q \in Calls : pc[q] = "ok" /\ kind[q] = "browser" =>
        \/ body[q] = held[q]
        \/ /\ TextLen < Len(held[q])
           /\ body[q] = Prefix(held[q], Len(held[q]) - TextLen) \o ErrorText

\* A check that nothing failed in and that was alone with its file calls a video
\* explicit exactly when the object it asked for shows it, in its last chunk
\* too.
VerdictIsFounded ==
    \A q \in Calls :
        /\ kind[q] = "check" /\ faults = 0 /\ held[q] # <<>>
        /\ \A p \in Calls \ {q} : kind[p] = "check" => file[p] # file[q]
        => /\ pc[q] # "failed"
           /\ pc[q] = "safe" => ~Shows(held[q])
           /\ pc[q] = "explicit" => Shows(held[q])
=============================================================================
