# A TLA+ model of the codek7 backend

This directory holds TLA+ specifications of the services in this repository,
TLC configurations that check them on small instances, and TLAPS proofs of the
properties that hold for every instance. Paths below are relative to the root
of the repository.

    tlc -config Hub.cfg MCNotificationHub.tla     # one run
    tlapm NotificationHubProofs.tla               # one proof module

## 1. The system

codek7 takes a video from a browser, cuts it into chunks, transcodes it into an
HLS ladder and stores the result.

    browser --HTTP--> gateway --Kafka video-chunks--> vcodec --gRPC--> repo --> MinIO, PostgreSQL
    browser <--WS---- gateway <--RabbitMQ notify.q--- vcodec --RabbitMQ verify_nsfw--> (nsfw)

| component | state it keeps | operations | talks to |
|---|---|---|---|
| gateway upload (`gateway/internal/api/upload.go`) | a temporary file per upload, the channel `sem`, one goroutine per chunk in flight | `UploadFile`, `processFile`, `produceChunk` | Kafka topic `video-chunks` |
| gateway notification hub (`gateway/internal/watcher`) | `Hub.clients`, a `Send` channel, a reader goroutine and a `writePump` per WebSocket, one unacknowledged delivery | `Watcher.Start/processMessage`, `Hub.Run`, `registerClient`, `unregisterClient`, `broadcastToUser`, `HandleWebSocket`, `writePump` | RabbitMQ queue `notify.q`, browsers |
| vcodec consumer (`vcodec/src/processor.rs`, `consume_video_chunks`) | the map from video to received chunks, the group's offsets | the receive loop, `save_video` | Kafka, the transcoder |
| vcodec transcoder (`generate_and_upload_resolutions`, `generate_and_upload_segments`, `upload_file`) | local files, a semaphore of two permits, tasks, the lists of results | encode, upload, join, announce, clean up | ffmpeg, repo's `UploadVideo`, RabbitMQ |
| repo videos (`repo/internal`) | the bucket `videos`, the table `videos` | `UploadVideo`, `RemoveVideo`, listings, `DownloadVideo` | MinIO, PostgreSQL |
| accounts (`gateway/internal/api/auth.go`, `middlewares/auth.go`, `repo/internal/service/user.go`, `repository/user.go`) | the table `users`, a session cookie per browser | `Register`, `Login`, `Logout`, the cookie's middleware, `CreateUser`, `GetUser` | PostgreSQL |
| downloads (`repo/internal/handler/handler.go`, `gateway/internal/api/videos.go`, `stream.go`) | the bytes of a response under way | `DownloadVideo` and `GetVideoById` of repo, the relay to a browser, HLS files | MinIO |
| nsfw (`nsfw/app.py`, `nsfw/utils.py`) | local copies of the videos it looks at | download, sample frames, classify, remove | repo's `GetVideoById` |
| starts and stops (`gateway/cmd/main.go`, `internal/server`, `internal/infra`, `repo/cmd/main.go`, `vcodec/src/main.rs`, `rmq.rs`, `docker-compose.yaml`) | connections, the durability of `notify.q` | the steps of each start, signals, shutdown | Redis, RabbitMQ, MinIO, PostgreSQL |
| rate limiter (`gateway/internal/middlewares/rate_limiter.go`) | a counter per address in Redis | the middleware, which `server.go:84` does not install | Redis |

What is hard in it, and where it bites, is listed line by line under `hazards`
in `PROJECT.json`. The recurring themes are

* **goroutines that clean up after each other**: two of them unregister every
  client, one of them closes its channel while a third may be sending on it;
* **a goroutine waiting on a channel only it drains** (`hub.go:100`);
* **at-least-once delivery into volatile memory**: the broker redelivers and
  rebalances while the chunks of a video are collected in one process's map;
* **two stores without a transaction**: an object in MinIO and a row in
  PostgreSQL, either of which may fail, or succeed without saying so;
* **clean-up racing the work it cleans up after**: temporary files, local
  encodings, the last permit of a semaphore;
* **names made in one service and rebuilt in another from a different id**;
* **handlers that go on after an error**: a status is written, the handler does
  not return, and only the first status keeps what follows from the client;
* **streams whose end does not say whether they were whole**.

## 2. Modules

| module | models | composed by |
|---|---|---|
| `NotificationHub` | notify.q, the watcher, `Hub.Run`, and per client its handler, reader and `writePump` | |
| `NotificationHubProofs` | proofs about it | |
| `UploadProducer` | `UploadFile`, `processFile`, its producers, the topic as a log | `Ingest` |
| `UploadProducerProofs` | proofs about it | |
| `ChunkConsumer` | the consumer group: receive loops, maps, offsets, rebalances, crashes | `Ingest` |
| `UploadContract` | the abstract specification of ingestion | refined by `Ingest` |
| `Ingest` | gateway and consumer group over one shared log | |
| `IngestProofs` | proofs about the group and about the composition: it implements the gateway, the group and `UploadContract` | |
| `Transcoder` | both tasks of one video, their uploads, the message and the clean-up | |
| `TranscoderProofs` | proofs about it | |
| `VideoStore` | repo's uploads, removals and listings over bucket and table | |
| `VideoStoreProofs` | proofs about it | |
| `Accounts` | registration, login, logout and the session cookie over the table `users` | |
| `AccountsProofs` | proofs about it | |
| `Downloads` | the three readers of the bucket: browser, HLS player, nsfw check | |
| `DownloadsProofs` | proofs about it | |
| `Services` | starts, outages, the two holders of `notify.q`, the gateway's end | |
| `ServicesProofs` | proofs about it | |
| `MC...` | the small instances TLC checks | |

### NotificationHub

Every goroutine is a process with its own control variable (`watcher`, `hub`,
and per client `handler`, `reader`, `pump`). The channels `register`,
`unregister` and `broadcast` are unbuffered, so a send and its receive are one
step, enabled when the sender is at its send and Run at its `select`:
`HubRegister`, `HubUnregisterReader`, `HubUnregisterPump`, `HubBroadcast`.
`client.Send` is a bounded sequence with a closed flag. `broadcastToUser` takes
one step per client (`FanOutSend`, `FanOutFull`), so that pumps, readers and
the watcher interleave with it. A send on a closed channel or a second close is
recorded in `panicked`. `FanOutFull` is `hub.go:98-100`: Run goes to `"blocked"`
at a send that only Run could receive; the model gives that state no exit
because the code has none.

`Crash` is the death and restart of the gateway: all goroutines and sockets go,
and the broker puts the unacknowledged delivery back at the head of the queue.
The prefetch of 10 (`watcher.go:56`) is not a variable: the goroutine handles
deliveries one at a time in order, and prefetched messages return in order, so
they are where they would be in the queue. Of the two routes that lead here only
`/er/{user_id}` (`server.go:133`) has the path parameter the handler needs;
`/ws/notifications` is always refused, which changes nothing in the hub.

### UploadProducer

`CreateTemp`, `Accept`, `Refuse` are the exits of `UploadFile` after it made a
temporary file. `Accept` starts `processFile`: `ReadChunks` or `ReadFails`, one
`Spawn` per chunk, `SemCap` times `Drain`, `Return`. A token in `sem` is a member of
`flying` (it belongs to a producer) or counted in `drained`. `Write` appends the
record; because kafka-go retries a write whose answer it missed, `Write` may happen
again before `Sent`. The balancer `LeastBytes` ignores the record key
(`kafka.go:19`), so the partition is any. A record carries the position of the
payload's bytes (`data`) beside the index its header names, because the goroutines
share the loop's state and could send one chunk's bytes under another's number. A
file may have no chunks (`Accept` with 0): it gets its 202 and nothing is ever
written.

### ChunkConsumer

`Deliver` is one iteration of the receive loop, completeness test included;
processing a video is the interval from `busy[c] # None` to `Finish`, during
which the loop takes no record, as in the code. `Commit` (rdkafka's background
commit) runs at any time, also in that interval: the code keeps
`enable.auto.commit` and the automatic offset store. `Rebalance` reassigns every
partition, with any subset of the stored offsets committed in time. `Crash`
empties a map and resumes at the committed offsets.

### Ingest and UploadContract

`Ingest` extends `ChunkConsumer` and instantiates `UploadProducer` (as `P`) over the
same variable `log`; a step (`IngestNext`) is a step of the gateway's uploads or of
the group, the other's variables unchanged. The environment that `ChunkConsumer` has
alone (`Arrive`, any chunk of any video to any partition) is replaced by the
producers: the records they write again are the duplicates, so `dups` is `P`'s
`retries`. `MaxTotal` bounds the chunks of a video. The gateway accepts a video with
its chunks or with none. `UploadContract` is what ingestion promises: a video is
accepted with a number of chunks, chunks arrive, and it is processed only when all
of them have. The refinement mapping takes `accepted` from `handler`, `chunkCount`
from `size`, `arrived` from the log and `done` from `processed`. One run checks the
group's invariants, the refinement and the liveness of the composition, with
retries, a rebalance and crashes of either side.

`AcceptedIsProcessed` says which accepted uploads come through. The code loses
some, and each loss it can have is named and confined: a file without content has
no record, a chunk whose write was given up or whose process died is not in the
topic (`NeverWritten`), a chunk whose offset was committed before a crash of vcodec
is read by nobody (`Forgotten`), and chunks in two maps do not meet (`Divided`).
What the property excludes is every other loss: by a repeated write, by a write
reported as failed that was appended all the same, by a gateway that dies after
its last write, by a crash before the commit, by a rebalance before the old owner
began.

### Transcoder

One video, from the end of `save_video` to the removal of its files. A file is a
tuple; `disk` is the set of local files and `up` the state of the task that uploads
each of them. `Open`, `Send` and `CutShort` split `upload_file` where it depends on
others: whether the file can be opened, how the awaited call ends, and whether a
read or the sending of a chunk fails before that. In the last case the code returns
at once (`processor.rs:67`) and drops the sender and the handle of the call; repo
cannot tell that from the end of the file and may store what it got at any later
time, so the upload's state is `"cut"`: an error was reported, and nothing is said
of the object. The playlist and the segments of a rung are uploaded one by one. The
segments come from a listing of the directory whose errors are ignored
(`processor.rs:309-318`), so `RungEncoded` uploads any subset of them; the rung is
listed in the master playlist all the same. `ListedRungsAreUploaded` speaks of the
time after both tasks were joined: before that the master playlist may be in storage
while segments are still on their way (`processor.rs:400`). `SegPanic` is the
`expect` on the master playlist in a development build, where a panic ends only its
task; release builds abort (`Crash`). The upload of repo is one step here and is
modelled in `VideoStore`.

The file named to verify_nsfw (`processor.rs:619`) is the encoded 360p file or, when
its encoding failed, the original. repo stores an original under another name
(`service/video.go:72-74`), so in the second case the name is that of no object:
`VerifiedFileIsStored` speaks of the first case only, and of an upload that did not
report an error.

### VideoStore

One request is one gRPC call with a program counter through the calls it makes
to MinIO and PostgreSQL; calls interleave without restriction. Every such call
may succeed, fail without effect (`CleanFault`) or fail after taking effect
(`Fault`), the last remembered per video in `unclean`. Object names are pairs of
a prefix and a kind: uploads bring the id the gateway made, rows have an id of
their own (`service/video.go:70`), and `removeGeneratedFiles` uses the latter.
A listing takes two steps, because its rows are read after the query: rows
inserted between are not in it, and a connection that breaks in the loop ends
it like the last row (`repository/video.go:164`). `stamps` keeps the order in
which `created_at` was read, which is before the INSERT and may differ from the
order of commits.

A second upload of one video whose insert is refused removes the object that the
first row names (`service/video.go:120`), and a call that took effect but failed
makes the code clean up what is in use; hence `originals[v] = 1` and `unclean` in
the properties, which exempt these cases and do not show them right. A removal
rebuilds the names of generated files from the row's id (`service/video.go:361`),
which is not the id they were stored under: `RemovalTakesGeneratedFiles` states what
the comment above that call promises, and the run `store_removal` violates it.
`ListingIsRight` speaks of answers in full.

### Accounts

A call is one HTTP request of one browser, in a goroutine of its own, with the
handler's and repo's steps: hash, insert or lookup, compare, answer. The table's
UNIQUE columns decide at the insert; nothing in the code looks first. `status`
is the first status the handler wrote, because net/http ignores later ones, and
`Register` and `Login` go on after a failed hash. bcrypt refuses to hash more
than 72 bytes and compares the first 72 only: passwords are `Secrets`, some of
them `Long`, and `Key` gives what a comparison reads. A cookie reaches the
browser only if its header is set before a status was written. `Cut` is a client
that leaves or an answer that is lost; the handler has done what it has done.
The seeded users' passwords are plain text, which matches no hash.

### Downloads

A byte is a pair of a content and a position, so a reader's bytes tell which version
of the object they are from. `Fetch` is repo's read of the whole object, `Relay` one
message of the stream, `Eof` its end, `BreakRelay` an error after the header was
sent, when the text of the error goes into the body. HLS files are copied from MinIO
without repo. A check by nsfw ends its loop at the message that carries `is_last`,
saves the bytes under a local path that other checks of the same name share
(`Truncate`, `Save`, `Look`, `Delete` interleave), and looks at the frames. The open
or the write of the copy may fail (`SaveFails`), which counts as a video without
frames. `Change` replaces or removes an object at any time.

### Services

Each service has the list of steps its `main` runs (`Steps`): a setting, a
connection, a declaration. A step that fails ends the process, be it that its
dependency is away (`StepFails`) or that the call fails though it is there
(`CallFails`: a bucket, a channel, the port; the queue may have been declared by
then). `linked` is who has a connection to RabbitMQ and `attached` who has declared
`notify.q` on it. The gateway declares the queue durable (`watcher.go:44-51`),
vcodec does not (`rmq.rs:39`), and RabbitMQ refuses a declaration unlike the queue
that exists. An outage takes the connections and a queue that is not durable;
neither service connects again, so an attached service is then `deaf`. `Signal`,
`Shutdown` and `Stop` are the gateway's end: watcher first, then the listener, then
what is in flight, for as long as the context of `Shutdown` allows.

## 3. Runs

| run | instance | what it shows |
|---|---|---|
| `hub` | two tabs of one user and a user without one, 2 messages, `SendCap` 1, 1 crash | no panic, nothing lost before the hub, order and isolation, the only way Run blocks; liveness of departures and of the queue |
| `hub_slow_client` | one tab, 3 messages, no crash | **violation**: the slow client is never disconnected, Run is stuck |
| `upload` | one upload of 0..3 chunks, `SemCap` 2, 2 partitions, 1 retry, 1 crash | what `processFile` has waited for when it returns, contents of the topic; it always returns |
| `consumer_two_members` | 2 members, no faults | **violation**: split between two maps a video is never processed |
| `ingest` | an upload of two chunks or none, one partition, a group of two members, `SemCap` 2, a retry, a rebalance, and a crash of either side | a video is processed only whole, each run paid for by a delivery of each chunk; the composition implements `UploadContract`; accepted leads to processed, but for the losses named above |
| `transcoder` | 2 rungs, one with a segment and one with its playlist only, 1 permit, one pre-check height | uploads find their files, what a listed rung has in storage after the joins, the file to verify is stored, nothing left on disk; processing ends |
| `store` | 2 videos of 2 users, 2 row ids, 4 calls, 2 failing calls | rows have objects, originals have rows, the row goes last, listings are right |
| `store_removal` | one video with one generated file, 3 calls, no faults | **violation**: a removal leaves the generated file |
| `accounts` | 2 names, 2 addresses, a long and two short passwords, a seeded user, 2 browsers, 3 calls | one account each, who was welcomed can log in, sessions are earned |
| `downloads` | 2 files of 2 contents (one and two chunks), 3 calls, 1 fault | what a complete response holds, what a verdict rests on |
| `services` | all services and dependencies, any one setting missing, 1 outage or failing call, 2 stops | nobody serves without having attached to `notify.q`; every start and shutdown ends |
| `services_meet` | everything configured | **violation**: gateway and vcodec never share the queue |

**Bounds.** `SendCap` is 256 in the code; the hub only compares the channel's length
with it, and `NotificationHubProofs` covers every capacity. Capacity one with two
messages is the least at which a broadcast meets a full channel. Two clients of one
user are what a fan-out in progress can interleave with; the user without a client
is what a broadcast must not leak to the others. For `sem` (capacity 40 in the code,
`upload.go:72`) a capacity of two and three chunks has the loop wait for a token and
the final loop compete with producers. In `ingest` one partition that moves between
two members is the least with which the chunks of a video are divided by a
rebalance; one fault of each kind is enough to separate a commit from the work it
vouches for. (Two partitions with `SemCap` 1 pass as well, in 1.6 million states;
the second partition is in `consumer_two_members`, and `IngestProofs` covers any
number of either.) In `transcoder` the second rung waits for the permit of the
first, and one segment is enough to be left out by a listing or cut short beside a
playlist that is stored. In `store` four calls are two uploads of one video, a
removal or a listing, and a bystander; two faults let a failed clean-up follow a
failed insert. In `accounts` three calls are a registration, one that collides with
it and a login between them, over names and addresses that collide separately; the
long password has the same first 72 bytes as a short one, the case in which a
comparison succeeds and a hash fails. In `downloads` chunks have two bytes, one
content ends in the middle of a chunk and one at its end, and the error text has the
length of one byte, so that a response that broke off before the last chunk of a
three-byte object meets the coincidence `DownloadIsComplete` describes. In
`services` two stops are a signal and a kill in either order. Deadlock is not
checked: every system here may stop, since its clients, messages and faults are
finite in number.

**Fairness.** Weak fairness for each goroutine or task that can run: the Go
runtime and tokio run what is runnable, and a `select` picks uniformly among the
ready cases, so each of them is taken in the end. No fairness for a WebSocket
write (there is no deadline on it), for clients, publishers, commits,
rebalances and crashes. A Kafka write is answered in the end, by success or
error, because kafka-go bounds its attempts. That ffmpeg and repo's uploads end
is an assumption: nothing in vcodec limits them in time. In `Services` the steps
of a start and of a shutdown are fair, an outage ends, and a stopped service is
started again; handlers are not: a request need never be answered.

**Findings.** Each violation run contradicts a sentence of the repository, which
`PROJECT.json` quotes: `hub.go:99` ("disconnect them"), `README.md:58` (scalability
through message queues), `README.md:88` (RabbitMQ facilitates communication between
services), `repo/internal/service/video.go:355` ("Remove all generated files for
this video ID").

## 4. Proofs

Every theorem below is of the form `Spec => []P`, `Spec => [][A]_vars` or, for
a refinement, `Spec => Abstract!Spec`, and holds for every value of the
constants that the module's `ASSUME` allows: any number of users, clients,
messages, uploads, partitions, processes, calls, rungs and rows, any capacities,
and any bound on crashes, faults, outages, retries and rebalances.

| module | theorem | property | rests on |
|---|---|---|---|
| `NotificationHubProofs` | `TypeSafety` | `TypeOK` | `Held` |
| | `ChannelsAreSafe` | `NoPanic` | `Registration` |
| | `BlockNeedsFullChannel` | `BlockedOnlyPastCapacity` | `Counted`, `Registration` |
| | `NothingIsLost` | `NothingLost` | `AckedWasHanded` |
| | `DeliveryIsInOrder` | `DeliveredInOrder` | `Ordered`, `Known`, `OwnUser`, `Fresh` |
| `UploadProducerProofs` | `TypeSafety` | `TypeOK` | itself |
| | `SemBoundsProducers` | at most `SemCap` producers | `Phases`, `TokensCount` |
| | `ReturnIsJoin` | `ReturnWaitsForProducers` | `Phases`, `Accounted` |
| | `TopicIsTruthful` | `LogIsTruthful` | `Phases`, `WriteAppends` |
| `IngestProofs` (group) | `TypeSafety` | `TypeOK` | itself |
| | `OnlyWholeVideos` | `ProcessedWhole` | `Truthful`, `Inside`, `IndexesCount` |
| | `RunsArePaidFor` | `EveryRunIsPaidFor` | `ProcessedWhole`, `GotTyped` |
| `IngestProofs` (composition) | `GatewayFeedsTheGroup` | refines `ChunkConsumer` | `Producing` |
| | `VcodecLeavesTheGatewayAlone` | refines `UploadProducer` | |
| | `UploadsAreProcessedWhole` | `ProcessedWhole`, `EveryRunIsPaidFor` of the composition | `GatewayFeedsTheGroup` |
| | `IngestImplementsContract` | `ImplementsContract` | `Topic`, `Maps`, `Runs`, `Uploading` |
| `TranscoderProofs` | `TypeSafety` | `TypeOK` | `Spawned` |
| | `PermitsAreReturned` | the permits and their holders add up | itself |
| | `UploadsComeFirst` | `UploadFindsItsFile` | `Joined`, `Spawned` |
| | `LadderIsUploaded` | `ListedRungsAreUploaded` | `Joined`, `Spawned` |
| | `VerifiedIsStored` | `VerifiedFileIsStored` | `Verified` |
| | `CleanupIsComplete` | `NothingLeftBehind`, if `Pre = {H360}` | `Joined` |
| `VideoStoreProofs` | `RowsHaveObjects` | `RowHasObject` | `Ordered`, `OneId`, `Fresh` |
| | `OriginalsAreWanted` | `NoOrphanOriginal` | `Justified`, `OneId` |
| | `RowsGoLast` | `RowGoesLast` | `Ordered`, `Matching` |
| | `TypesHold` | `TypeOK` | `Listings` |
| | `ListingsAreRight` | `ListingIsRight` | `Answered`, `Asked`, `Stamped`, `Authored`, `LatestOfLists` |
| `AccountsProofs` | `TypeSafety` | `TypeOK` | `Stages` |
| | `RegistersOnce` | `OneAccountEach` | `OneRowEach`, `OwnRows`, `Stages` |
| | `WelcomeIsKept` | `RegisteredCanLogIn` | `Stages` |
| | `SessionsAreEarned` | `SessionIsEarned` | `Stages` |
| `DownloadsProofs` | `TypesHold` | `TypeOK` | `Opened` |
| | `CompleteResponsesAreWhole` | `CompleteIsWhole` | `Placed`, `Passed`, `Answered` |
| | `DownloadsAreComplete` | `DownloadIsComplete` | `Placed`, `Passed`, `Answered` |
| | `VerdictsAreFounded` | `VerdictIsFounded` | `Founded`, `Opened`, `Placed`, `Passed` |
| `ServicesProofs` | `TypeSafety` | `TypeOK` | `Places` |
| | `ServingHasQueue` | `ServingIsAttached` | `Attaching` |

**Notification hub** (from `HubAssumption`). `TypeOK` alone is not inductive: a
watcher that hands on what it holds must hold a message (`Held`). A send on a
closed channel is excluded because a client in `Hub.clients` has an open
channel and a fan-out in progress visits only registered clients
(`Registration`): both unregister paths go through Run, and Run closes a
channel only when it removes the client. That is why the two goroutines that
unregister the same client do no harm. `Counted` bounds what a `Send` channel
holds by what was offered to its user, so the state in which Run waits for
itself takes more than `SendCap` broadcasts to one user. `NothingLost` needs
that the watcher acknowledges only what it handed over.

`DeliveredInOrder` speaks of the end of a path, and nothing at its end keeps the
order. `Ordered` is the order along all of it: the ids in the queue ascend and
lie above the one the watcher holds (`Waiting`), what is still to come lies above
what Run is fanning out and above all a registered client was given (`Earlier`),
and a client's line (delivered, being written, buffered) ascends (`Line`). The
redelivery after a crash would break it for a client that had already been given
the message; it does not because the sockets die with the gateway, so such a
client is not registered any more, and a new connection has been given nothing
(`Fresh`). `OwnUser` is the isolation of users along the same path.

**Upload** (from `ProducerAssumption`). `Phases` ties the place of `processFile`
to its producers: none before spawning, and each producer's chunk below
`spawned`. `TokensCount` is the counting step: with `SemCap` tokens drained there
is no room left for a producer, hence the final loop is a join. `Accounted` says
where each spawned chunk is (in flight, in the topic, reported as failed).

**Consumer group** (from `ConsumerAssumption`). The code compares counts. A map
that holds only chunk numbers of its video (`Inside`) and as many as the record
says, where the record is right (`Truthful`), holds all of them: a subset of a
finite set with its cardinality is that set. For `EveryRunIsPaidFor` each
delivery adds a process to the holders of one chunk and one to its deliveries;
a run takes one holder from every chunk of the video, which `ProcessedWhole`
guarantees was there; a crash only takes holders away.

**Ingest** (from `IngestAssumption` and the group's). The consumer group alone is
checked in an environment that writes any chunk of any video but never a wrong
header. `GatewayFeedsTheGroup` discharges that: every step of the composition is a
step of `ChunkConsumer` or leaves its variables alone, since a `Write` of a
producer is an `Arrive`. The producers satisfy it because only an accepted upload
has any, they hold chunk numbers of its file, and `size` is the file's chunk count
(`Producing`). The group's theorems therefore hold behind the gateway
(`UploadsAreProcessedWhole`). `VcodecLeavesTheGatewayAlone` is the other direction.

For the contract the invariant is about the two parts at once. Only an accepted
upload has producers, and they hold chunks of its file (`Uploading`), so a record
names an accepted video and a chunk of it (`Topic`). What a map holds is in the
topic (`Maps`), and a run begins with all chunks at hand (`Runs`), by the counting
argument above. Under the mapping an `Accept` is the contract's, because nothing of
the upload is in the topic before it; a `Write`, first or repeated, is an arrival; a
`Finish` is a processing, because its map was full and every chunk of it is in the
topic; all else is invisible.

**Transcoder** (from `TranscoderAssumption`). `Joined` says what each task has
waited for at each of its stages, and `Spawned` which uploads an encoder's success
started: the clean-up is reached only when every upload that was started has ended,
so none of them opens a removed file, and (`LadderIsUploaded`) what a listed rung
has not in storage was reported or not shown. `CleanupIsComplete` assumes what the
code's constants give (360p is the only height encoded ahead of the ladder): the
clean-up lists the ladder's files and one file of the pre-check, so a second
pre-check height would be left on disk.

**Video store** (from `StoreAssumption`). Ids are fresh and belong to one call or
row (`UniqueIds`, `OwnIds`, `Fresh`), and a video uploaded once has one id among its
rows and the calls at work for it (`OneId`); hence the call that may remove its
object is the one that failed to insert, or a removal of that very row. `Justified`
is `NoOrphanOriginal` made inductive: the row that justifies an object must not be
one whose removal has gone past the object. `RowGoesLast` follows from the same
invariant.

Listings need a second invariant. A row was written by a call that still names its
video (`Authored`), its id is in `stamps` (`Stamped`), and what a listing found
when it was asked is no id that an upload has yet to insert (`Asked`). `Answered`
is `ListingIsRight` made inductive: it stays true while rows come and go because
`stamps` only grows at its end, and a row inserted later is not one the listing
was asked about. That an answer is right when it is given is a fact about
`LatestOf`, a recursive function: `LatestOfLists` says what it returns for
every sequence. Its proof is an induction over the length of the sequence, by the
lemma `Induction`. The library states induction for an operator, which none of
the provers can be given; `Induction` states it for a set, and follows from the
well-foundedness of strict inclusion among finite sets.

**Accounts** (from `AccountsAssumption`). `Stages` ties a call's place to the
status it has written, the row it holds and that row's presence in the table: a
201 is written only after the insert of a row with a hash, since a failed hash
has put a 500 before it, and a cookie is sent only before any status. Rows are
never changed or deleted, so what was true of them when the answer was written
stays true. `OneAccountEach` then needs that two calls never hold the same new
row (`OwnRows`).

**Downloads** (from `DownloadsAssumption`). What a reader has is explained by what
was read for it, once and whole: `held` is empty or one object (`Placed`), what was
relayed is its prefix of length `sent`, or all of it (`Passed`), so a chunk extends
a prefix to a longer one (`PrefixGrows`), and changes in the bucket after the read
have no effect. A response ends properly with all of `held` or with a prefix and the
text of the error (`TextFollows`). A browser's response has the length of `held`; if
it ends with the text, what precedes it is the prefix of the length that remains,
which is the second case of `DownloadIsComplete`. `CompleteIsWhole` holds because no
step keeps part of an object: `DownloadFile` returns nothing if its copy broke off.
The verdict depends on the local copy too, which all checks of a file share.
`Founded` follows it through a check that is alone: truncated, then what was
received, then looked at. A check that is alone now always was (`AloneBefore`),
because a call never changes the file it asked for, and the others touch only the
copies of their own files.

**Services** (from `ServicesAssumption`). Declaring `notify.q` is the last step of
both its users' starts, so one that is past it is attached, or was until an outage
(`Attaching`). That the two users of the queue exclude each other follows from their
two declarations alone and is left to the run `services_meet`.

Only model-checked: the liveness properties `GoneIsForgotten`,
`EveryMessageLeavesQueue`, `AcceptedFileIsRemoved`, `AcceptedIsProcessed`,
`ProcessingEnds` and `PhasesEnd`, because weak fairness and ENABLED are out of
TLAPS's reach, and the four violations. Every other property of every run is
a theorem (`NothingLeftBehind` for the one pre-check height of the code).

## 5. Not modelled

* The rate limiter: `server.go:84` does not install it, so no request runs it.
* Delivery of a notification to the browser: the code acknowledges a message
  once the hub has it and promises nothing beyond.
* Progress percentages and the text of messages.
* The expiry of JWTs and the contents of their other claims; a session is the
  user id its cookie carries.
* The flow that `nsfw/README.md:79-86` describes (a consumer of `verify_nsfw`,
  a `RemoveVideo` call): `app.py` has an HTTP handler only, which `Downloads`
  models. The queue `verify_nsfw` has one declarer and no consumer.
* Which frames ffmpeg decodes and what the classifier sees in them: a set of
  explicit bytes stands for both.
* Health checks, logging, formatting of configuration, generated stubs.

## 6. Plan

Done: every component of section 1 but the rate limiter, with the runs of
section 3 and the theorems of section 4. What is left, in order of worth:

1. An outage of RabbitMQ composed with `NotificationHub`: a queue whose watcher
   is deaf, and messages that are not persistent.
2. The theorems about `UploadProducer` carried over to `Ingest` by name:
   `VcodecLeavesTheGatewayAlone` gives `IngestSpec => P!Spec`, but the provers do
   not take a theorem of an instantiated module as a fact.
