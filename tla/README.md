# CodexWatch: a TLA+ model

CodexWatch watches Codex from outside: a privileged client captures its traffic, derives the
state of every turn, keeps the raw content for 72 hours and reports summaries to a server, which
may ask for content. This directory models the parts whose correctness depends on
order, loss, crashes or limits, checks them with TLC on small instances, and proves most of what
is checked, for every size, with TLAPS (section 4).

All paths below are relative to `src/crates`. `PROJECT.json` maps each definition to its source lines.

## 1. The system

| Part | State | Operations | Talks to |
|---|---|---|---|
| Capture sources (`client/src/capture_lane.rs`, `capture/src/af_packet.rs`, `client/src/ebpf_lane.rs`, `service.rs`) | process index (shared, locked), observed processes, waiting segments | discovery `poll`, `PassiveTapSource::recv`, `run_ebpf_loop` | three tasks, one bounded channel into the lane |
| TCP reassembly (`capture/src/tcp.rs`) | `next_seq`, `pending`, `delivered`, `degraded` per direction | `push_segment`, `finish` | called by `handle_segment` |
| Protocol decoders (`capture/src/http1.rs`, `h2.rs`, `websocket.rs`, `sse.rs`, `responses.rs`) | buffers of a flow | `process_bytes`, `consume_*` | give exchanges to the lane |
| Task projection (`capture_lane.rs`) | `flows`, `process_tasks` in memory; cursor rows in SQLite | `project_exchange`, `project_gap`, `project_process_exit` | `persist_ingress` |
| Wire mapping and validation (`client/src/store.rs`, `protocol/src/validation.rs`) | none | `map_*_record`, `encode_batch` | a refused batch ends the daemon |
| Summary outbox (`store.rs`, `service.rs`) | `outbox`, `active_tasks` | `persist_ingress`, `flush_outbox_once`, `mark_batch_*` | `POST /ingest` |
| Server ingest (`server/src/lib.rs`) | `ingest_receipts`, `tasks`, `task_events` | `ingest` | answers the flush loop |
| Raw store (`store.rs`, `blob.rs`) | `raw_objects`, files | `BlobStore::store`, `prepare_upload`, `complete_command`, `cleanup` | lane, command loop and timer at once |
| Command loop (`service.rs`) | `commands` | poll, save, prepare, upload, result | long poll and three posts |
| Server content (`lib.rs`) | requests, commands, manifests, chunks, links, objects, recency | create, `next_command`, uploads, result | the command loop |
| Conversation titles (`client/src/conversation_titles.rs`, `store.rs`) | index of `session_index.jsonl` (offset, partial line), `active_tasks.conversation_title` | `open`, `refresh`, `watch`, `sync_conversation_title` | the lane reads the index, batches carry the titles |
| Notifier (`notifier/src/main.rs`) | what was sent, in memory and in a file | `run_daemon`, `process_tasks` | polls the server's task list, posts to Feishu |
| Queries, retention, profiles, configuration | see `PROJECT.json` | | |

What is hard: two processes that crash independently and talk over HTTP with retries; a lane that
must keep its numbering over gaps and restarts; files and rows that change in different steps; a
store with an eviction limit that uploads in progress do not know about; packet streams in any order;
processes that come, go and reuse pids between two polls of `/proc`; a file that is replaced while it is read.
`PROJECT.json` lists each such hazard at its line.

What makes each part correct:
- delivery: nothing committed is lost, nothing is applied twice, a refused batch blocks no other, the reserve of the outbox stays usable;
- content: linked objects are complete, garbage collection is exact, eviction keeps the limit, both sides agree on the outcome, every saved request gets one;
- raw store: what has not expired can be read, a pin outlives a running cleanup;
- projection: transitions are numbered without gap, no gap and no exit touches a finished task, a response is one attempt, an exit settles what is open;
- evidence: the projection says what the whole stream says, and passes the validation it is sent through;
- reassembly: the decoder gets the stream's bytes in order, once each, and a gap is reported only for a missing byte;
- intake: a connection's segments reach the lane once and in order, the ones that wait stay within their limits, every exit is reported, and only real exits are, but for mistakes that can be named;
- titles: when all is quiet every task has the title of the file's last complete line, in the store and in its last batch, whether the file grew, was replaced or was written anew;
- notices: each is sent once and recorded, up to a crash in between, and an abnormal task with a title is noticed in the end;
- decoding: an exchange joins a request with its own answer, whole, once, however the bytes are cut, and what the code can read does not end the daemon.

## 2. The modules

```
DeliveryContract <- Delivery            <- Delivery_proofs        MCDelivery
Content <- ContentServer                <- ContentServer_proofs   MCContentServer
Content <- RawStore
ContentServer, RawStore <- ContentUpload <- ContentUpload_proofs  MCContentUpload
                  (ContentServer_proofs <- ContentUpload_proofs)
CaptureIntake                           <- CaptureIntake_proofs   MCCaptureIntake
TaskProjection                          <- TaskProjection_proofs  MCTaskProjection
TitleSync <- Notifier                   <- Notifier_proofs        MCNotices
AttemptEvidence                         <- AttemptEvidence_proofs (and in MCStreamDecode)
TcpAssembler                            <- TcpAssembler_proofs    (checked directly)
StreamDecode, AttemptEvidence                                     MCStreamDecode
```

Every SQLite transaction is one action; an HTTP request is a pair of actions with three endings
(answered, handled - also late - but the answer lost, never arrived). A definition whose comment begins with
"Fault:" is a broken variant of the one after it; nothing uses these, they are what the
properties are tested against.

**Delivery.** `PersistTransition`, `PersistSession` and `PersistHeartbeat` commit a batch through
`EnqueueRecords`, guarded by `EnsureOutboxCapacity`. The flush loop takes the oldest due row
(`FlushOutboxOnce`), its request is handled now (`IngestSent`), later (`ConnectionError` moves it to
`late`, then `IngestLate`) or never; `MarkBatchAcked` and `MarkBatchRetry` end the round,
`ClientRestart` forgets it. A body is its snapshots' sequence numbers and its transitions; the hash
is equality of bodies. `DeliveryContract` is what the pair promises: batches are submitted in a
sequence and each takes effect at most once, completely.

**ContentServer.** `CreateContentRequest` touches the conversation, evicts and garbage-collects in one
step, as the transaction does. The recency column is the relation `older`. Chunks are numbers;
`Declared` is the chunk count a manifest carries, `Pieces` the number the object has.

**RawStore.** Writing the file (`StoreBlob`) and committing the row (`CommitRow` or `RollBack`) are two
steps, so are the three of `cleanup`. SQLite has one writer: `Free` says that no capture's
transaction is open. `captures` counts captures for time stamps. Content of the same hash may be captured again at
any moment, with cleanup between its SELECT and its DELETE too; `raced` is the history of such captures of content
whose file cleanup has selected and not removed yet. The runs check it as part of ContentUpload.

**ContentUpload** composes the two with the command loop, whose local variables are the record `loop`.
`post_chunk` and `post_manifests` look at the HTTP status only, so a request that has expired
meanwhile goes on. A post that the client has given up is handled at once, never, or later (`late`, `LateHandled`):
after the client's retry, after a restart, after the outcome (`reopened`).

**CaptureIntake.** The three tasks before the lane run in parallel; one step is one access to the
shared index (each takes the lock), to `/proc` or to the channel. Discovery (`PollStart` to `PollSend`) reads a pid,
records it as observed, and only then reads its connections, which may fail (`PollIndexFails`). An error of `read_dir`, of `comm` or of `exe` is swallowed and leaves a running process out
of the poll, as if it were gone (`LookUpFails`, in `PollStart` for the first two and in `PollUnreadable` for the last); each is
counted in `failures`, and the instance that the process had is in the history `unread`. The packet source
drops what has waited for 15 s (`ExpirePending`, any prefix: time is not modelled), looks the waiting segments up
(`FindPending`, then again in `TakePending`), then reads new frames. The probes write to a ring that may be full;
the exit tracepoint fires for every thread (`ThreadExits`). What the machine does is an action too: processes start
with any free pid, die, lose their executable to an update, connect and send, also after their death. A frame is its
five-tuple and its number; five-tuples are not reused. `next_event` of the present runtime never errs, but
the loop's error arm is there (`EbpfFails`). Only exec and exit records are in the ring, since
`map_loader_record` drops all others. Histories: `swapped` (flows whose segments came out of order), `raced` (flows
that became known while `recv` was running, or that `recv` left behind when the segment it had found lost its process
before the second look-up). `Mistaken` names the four mistakes by which the code reports a running
process as exited, `Reused` the case in which it misses an exit; section 5 has them. What a segment and an exit then do to tasks is TaskProjection.

**TitleSync.** One session. A line of the file is two pieces, so that a read may end inside it; the file may grow, be
replaced by rename (`Replace`), or be written anew under the same inode number (`Rewrite`: truncated in place, or removed
and the number used again). The index starts over when the inode differs or the file is shorter than its offset; a file
that has grown back to the offset before it is looked at is read on from there (`rewritten`, `Regrown`). `refresh` is two steps, the metadata (`RefreshStat`) and, under the lock, the read
(`RefreshRead`). At the start the titles found are synced before the watch is set (`StartupSync`, `AddWatch`).
`sync_conversation_title` is three steps (`SyncSelect`, `SyncUpdate`, `SyncPersist`), a summary of the lane two
(`LaneLooks`, `LanePersists`). `missed` and `raced` are histories of two more ways to lose a title; `raced` excuses a summary only
when the index has changed since the lane looked at it (`lane.known`), so a lane that ignored the index would not be excused.

**Notifier** extends TitleSync: the server's task list is what was uploaded last, newest first, cut at `Window`
(500 in the code). A pass handles the list that was fetched at its beginning; `SendNotice` and `RecordSent` are two
steps; every error ends the process (`Fail`), also one after which Feishu has the message, and systemd starts it again.

**TaskProjection.** One input of the lane is one action. A segment is what it completes: a sequence of
exchanges, perhaps a FIN and a gap; a FIN may come on a degraded stream, or itself degrade the stream (`FinConflict`).
Cursors are read before, records are committed after, as one
batch; when two records of the batch have the same sequence number, `encode_batch` refuses it
and `LaneFails`. The exchanges of a segment are of any turn of the process, finished ones included: `project_exchange` does not look at
the phase. `Restart` empties the memory part. A process that discovery loses and finds again is a new instance, and
a flow keeps the instance it began with and `process_tasks` is keyed by instances; a segment and an exit carry the instance they were attributed to, which
may have been lost since, so both may come late. `ProcessMissed` is the poll that does not list a process, whether it is gone or
not; `ThreadExit` the record of the exit tracepoint, which fires for each thread and leaves the process in the index.
`captured` is a history: whether this run of the daemon captured a task on a connection of the present instance, only on
one of a lost instance (`stray`), and whether an exit of the instance was handled since (`settled`).

**AttemptEvidence.** One exchange after the other is read event by event; `Fold` is the loop of
`map_attempt_projection`, `Projection` its end, `Source` and `EventKind` the mapping to wire records and
`Valid*` the checks of `encode_batch`. It is what happens inside one exchange and shares no state with a connection; MCStreamDecode
lets it run beside StreamDecode, on the connection on which nothing is sent (`Idle`).

**TcpAssembler.** A byte is its position in the stream, so that delivering the wrong byte is visible.
Numbers are modulo `SeqSpace` and compared as plain numbers, as in the code. `flush_pending` is a recursive function of
rounds (`FlushOne`).

**StreamDecode.** What each side of a connection sends is a sequence of units (a head, a body, an event,
the last chunk, a frame), each in two pieces, so that a chunk can end inside a unit; a buffer is a sequence
of pieces. One call of `process_bytes` is one action: `StayUnknown`, `Http1Bytes`, `H2Bytes` or `WsBytes`, by the
protocol that the buffers show. An exchange given to `project_exchange` is the units its request and its
response were read from. Chunks of HTTP come in any order of the two directions, since the two TCP
streams are reassembled separately; those of a WebSocket in the order of the conversation, because a message
there has no number to pair it with. The capture may begin at any moment (`start`). `missed` collects
the pieces that stay in a buffer and reach no frame decoder; `Intact` excludes them and captures that
begin inside an exchange or inside the handshake of a WebSocket. Units have flags for what the code refuses: `encoded` is a
head with a Content-Encoding, which the decoder parses without its body (`BadHead`), `undecodable` a part with which
`decode_http_exchange` fails (`Decodes`); either error ends the lane. `error` is an event that ends a WebSocket answer for the
decoder and yields no exchange (`Answered`).

## 3. The runs

| Run | Shows | Bounds |
|---|---|---|
| MCDelivery | types, `NoTransitionLost`, `AppliedOnce`, `AckedIsDurable`, `ReserveUsable`, refinement of `DeliveryContract`, `EventuallyDelivered` | 1 task, 3 batches, cap 2, reserve 1, the second batch refused for ever |
| MCDeliveryOrder (violation) | a stored snapshot is replaced by an older one | 1 task, 2 batches |
| MCContentServer | `LinkedIsComplete`, `LinkedConversationTracked`, `ObjectsReferenced`, `EvictionRestoresLimit` | 2 conversations, limit 1, 3 requests, one object of 2 chunks that they can share |
| MCContentUpload | types, `CompletedOnBothSides`, `StoredIsUploaded`, `LiveRowHasBlob`, `PinnedSurvivesCleanup` | 1 request for 1 or 2 parts, 2 objects of 2 chunks (so that one is pinned or captured again while cleanup holds the other), 2 captures, 1 late post |
| MCContentLive | `SavedRequestCompletes` | 1 request, 1 object of 2 chunks (partial uploads), captured twice; no late post |
| MCCaptureIntake | types with `PendingAccounted`, `InOrderUnlessRaced`, `ExitConfirmed`, `GoneIsReported` | 1 pid, 2 processes, ring of 1, with 2 paths or an exit of a thread; 1 process and 2 failing look-ups; or 1 process with 3 segments on a flow or 2 on two flows, of sizes 1 and 2, limits of 2 segments and 2 bytes; channel of 1 |
| MCNotices | types, `TitlesFollowFile`, `SentAccounted`, `NoticedEventually` | 2 tasks, 2 titles, 2 files, 4 pieces (a rewriting counts as one more), 2 summaries, 1 restart; or 1 title and the notifier with a window of 1, 1 failure, with and without notices of completion |
| MCTaskProjection | types, `PhasesFollow`, `AttemptsCounted`, `ResponseOnce`, `ExitSettles` | 2 tasks, 1 connection, 2 instances of its process, 3 transitions in all, 2 exchanges in a segment |
| MCTaskFinGap (violation) | a FIN on a degraded stream ends the daemon | 1 task, 3 transitions |
| MCAttemptEvidence (violation) | `OnlyTurnEventsEnd`: a Responses event alone ends the task | all streams of up to 3 events |
| MCTcpAssembler | types, `Contiguous`, `NoFalseGap` | 5 bytes in segments of up to 3, gap limit 3, history 4, with and without wrap |
| MCStreamDecode | types, `ExchangesFaithful`, `ExchangesOnce`, `ExchangesAll`, `FailsOnlyRefused`; and `ProjectionMatchesStream`, `ExpectableEncodes` of AttemptEvidence | 51 connections with 2 exchanges each: 13 HTTP/1 (5 with a part that the code refuses), 33 HTTP/2 (2) and 5 WebSocket (1), chunks of up to 5 pieces, every start; all streams of up to 3 events |

Why the bounds are enough: each has one more of everything than the shortest known way to go wrong
needs. Delivery needs two batches of one task and a third to hold the outbox full; eviction needs
one conversation more than the limit, sharing an object with one that stays; the
pin needs a second object, pinned while cleanup removes the file of the first; the projection needs a second task to move a
connection's current task, a second instance, and three transitions for a task that ends, is reopened and is closed by an
exit; the stream needs
a hole, a fragment behind it, one that overlaps both and one byte more than the history holds; decoding needs
two exchanges, a chunk that ends inside a unit and one that spans two; intake needs a pid used twice, a segment that
waits with another behind it, a full queue, and a process that is lost by a failing look-up, found again and lost again; titles need a line cut by a read, a second file, and a second
task that the first sync did not select; notices need a task that pushes another out of the window. Two modules
have `Bounds`, a set of records of bounds, of which the behaviour picks one at the start (`bound`): processes coming
and going, and traffic, are explored with large bounds each, not with their product. Counters
are capped by these, and by `MaxProcs`, `MaxFailures`, `MaxSegments`, `MaxFiles`, `MaxPieces`, `MaxBatches`, `MaxRequests`, `MaxStamp`, `MaxLate`, `MaxInstances`, `MaxTransitions`, `MaxPerSegment`, `MaxEvents`,
`StreamLen`, `MaxLen` and `MaxChunk`, all in guards.

What the bounds leave out: two requests at once on the client and the server (MCContentServer has three on the server alone, the
theorems about ContentUpload any number); two open tasks closed by one exit (the theorem has it); a notifier whose window
holds more than one task, so that an older task whose sends fail for ever keeps the later ones back.

Symmetry is used for conversations, objects, parts, tasks and responses where the run has no liveness property.
Deadlock is not checked in the Delivery runs (all batches delivered: nothing is left to do but what the
bound forbids), in MCTcpAssembler (a degraded stream never changes again), in MCStreamDecode (all
bytes have passed), in MCNotices (without a notifier and with nothing written, all wait) and in MCTaskFinGap. It is
checked in MCCaptureIntake, where four tasks share a full channel.

Fairness. Delivery: weak fairness of the flush loop, of the timer behind `next_attempt_at`, and
strong fairness of a request reaching the server while the client retries: the network and the crashes may
undo a round any number of times, but not always. ContentUpload: the same for each step of the
command loop; transactions end and content expires (weak). The code's loops run on timers and
never give up, which is what weak fairness says; strong fairness is the assumption that
the network sometimes works for as long as a request takes. The HTTP client sets no timeout, so that
a request ends at all is an assumption too. CaptureIntake: discovery's loop and the lane go on (weak); that
discovery's send succeeds when the channel has room again and again is strong fairness, which tokio's
channel gives, because its senders wait in a queue; nothing of the packet source or the probes. Notifier: its loop ticks and
systemd restarts it (weak), failures are finitely many; nothing of the client. No fairness is assumed of captures, requests, expiries of
requests or restarts.

## 4. The proofs

Every theorem holds for all values of the constants that the named ASSUMEs of the modules allow: bounds are natural
numbers, sizes are positive, the reserve is at most the cap, a stream is shorter than the space of its sequence numbers,
and the like. Bounds on counters are constants too, so no result depends on one. What follows is, for each module, the
inductive invariant and why it is needed.

`Delivery_proofs`. `IndInv` adds to the checked properties what makes them inductive: a receipt is always
for a body the client committed (so equal ids have equal hashes, `KnownIsSameHash`), a batch was applied
exactly as often as it has a receipt, an acknowledged round has a receipt, and each
transition up to a task's cursor is in the body of some batch. From it follow `TypeCorrect`, `AtMostOnce`, `AckedDurable`,
`NothingLost`, and, step by step, `Refinement`: enqueueing is the contract's submit, the first ingest its effect, all else
stutters. `ReserveAlwaysUsable` needs that routine rows keep out of the reserve (`ReserveKept`), and that a sum over the
rows of the outbox changes by the row that comes or goes (`BytesSplit`, `RowLeaves`, `RowAdded`).

`ContentServer_proofs`. `ServerInv` is the conjunction of six invariants, inductive together (types, `OutcomeClosesCommand`
and `RecencyTotal` are only proved, the other three are checked as well): exactness of garbage collection needs that
links belong to listed conversations, and the victims of an eviction need the order to be total (`TouchTotal`).
`LimitRestored` counts: of the survivors the one with most newer conversations is older than all others, so there are at
most `Limit` (`FewSurvive`).

`ContentUpload_proofs`. `UploadInv` joins `ServerInv` with the client's types and the two facts about commands:
they exist only for created requests and one the client has completed has an outcome on the server (`CommandsInv`), and the
one the loop works on is neither unknown nor completed, so only a post that the client had given up can change
a forgotten request (`LoopInv`), and such a post is of a created request (`LateInv`). From it `UploadTypeOK` and `ForgottenIsSettled`. `UploadUsesRawStore` shows that the composition takes only steps of the raw store on the client's
tables, so that `LiveContentReadable` and `PinnedRowsSurvive` are proved about RawStore alone. `LiveContentReadable` has no
condition on what is captured; `NoStaleFile` says that a file which cleanup is about to remove belongs to a row that
has expired, or to one captured while cleanup held its hash (`raced`, section 5). `StoredMeansUploaded` follows one round
of the loop from its manifests to its result; it assumes that there are finitely many conversations, because the property
compares their number with the limit.

`TaskProjection_proofs`. `StoreInv` (types, attempts numbered 1 to the count, one attempt for a response, transitions that
follow) gives `ProjectionTypeOK`, `AttemptsAlwaysCounted`, `ResponseAlwaysOnce` and `PhasesAlwaysFollow`. `LaneInv` says what
the lane's memory knows: a task captured on a connection of the present instance is listed under that instance, which is
in the index (`Attribution`). With it follows `ExitAlwaysSettles`. None of them has a condition: segments and exits
of lost instances, exits of single threads and exchanges of finished tasks are all among the steps.

`AttemptEvidence_proofs`. `EvidenceInv` relates each field that the fold keeps to the events read so far; it holds
for streams of any length, so `ProjectionFollowsStream` and `ExpectableEvidenceEncodes` do. Neither says that the task ends
where TECH_SPEC wants it to: section 5.

`CaptureIntake_proofs`. `IntakeTypes` are the types. `ExitsConfirmed`: `ExitInv` says that a living
process is the newest with its pid, that an instance in the index or among the observed ones has the pid it is filed under,
that an exit record in the ring is of a process or thread that ended, that an observed pid that a poll has passed over has
ended, and that every exit on its way to the lane is of an instance that ended. An instance has ended when its process is
gone, or is mistaken for gone in one of the four ways of `Mistaken`; a failing look-up of a running process can give it a
second instance, so `ExitInv` says of each instance by itself which mistake it was reported by. `SegmentsInOrder`: `OrderInv`
says of each connection that is not raced that its numbers rise along the queue of waiting segments and then the socket,
that what is in the channel or already received is before all of these (`Ahead`), and (`LookedUp`) that
the waiting segments `recv` has looked at belong to no known process. `IntakeTyped`: `LimitInv` says that the queues are
within their limits and that `pending_bytes` is the size of what waits; the queue grows at its end, loses what is dropped
at its front and gives one up from its middle, so this rests on the size of a part, of two parts and of a queue without
one of its elements (`BytesOfPart`, `BytesSplit`, `BytesConcat`, `BytesWithout`). A push drops until the new segment fits (`PushedFits`).

`Notifier_proofs`. `TitlesAlwaysFollow`: `TitleInv` has two parts besides the types. `FileInv` says that what the index
has read of the present file is a prefix of it, that its title is the last of the whole lines read and its partial line what
follows them, that a file with another inode is never taken for the one read before and one written anew only when it has grown back
(`Regrown`), and that what is not read yet has an event or was missed. `RowInv` says that the last change on its way is the title of the index, and that once it has arrived
the rows have it and the batches too, or are about to. Reading on from where the index stopped gives the titles that reading
all at once would give; that is a statement about the loop of `apply_complete_lines` over a sequence in two parts.
`NoticesBalance`: the books of the notifier (`NoticeInv`) change by one notice at a time, and memory
and file agree while the daemon runs. `NoticesTyped` puts both together with `DaemonTypes`.

`TcpAssembler_proofs`. `StreamInv`: what was handed on is a slice of the stream and `next_seq` the number of the byte after
it, and each fragment that waits is the slice that its number says. A number names one position of a
stream shorter than the number space (`NumberOnce`), and an overlap that is less than the segment is the
distance to its start, also across the wrap (`OverlapIsDistance`). `FlushRounds` carries a property of one round
through `flush_pending`. From it `DeliveredInOrder` and `AssemblerTypeOK`.
`GapsAreReal` needs more: `GapInv` says that nothing that follows on waits (`FlushComplete`: each round of `flush_pending`
takes one fragment until none follows), and that, as long as the conditions of `NoFalseGap` hold (`Usual`), the history is
the segments handed on, one after the other and without a hole (`Laid`), what waits are segments from further on
(`Ahead`), and each segment that came has been handed on, waits, or began before the first byte (`Placed`). Then
a segment of which one byte was handed on was handed on whole (`CoveredWhole`), so its overlap adds up in `match_overlap`
(`OverlapMatches`); one that has something new starts exactly at `next_seq` (`StartsThere`); and when a segment waits, the byte
at `next_seq` has not come (`GapSeen`).

Recursive definitions. That a recursive function or a fold is what its equation says is proved by hand where it is needed:
a least number (`LeastNumber`) for which it would fail leads to a contradiction (`RoundsExist`, `SumsExist`, `LinesExist`,
`BytesUnfold`, with `SubsetInduction` for subsets). The provers do not unfold `SelectSeq`; sums and selections that a proof
is about are therefore recursive functions in the modules, one step for each turn of the loop in the code.

Two properties that the runs had checked turned out to be too strong when their proof failed, and were restated
(section 5): `StoredIsUploaded`, because the server counts objects and not parts, and `InOrderUnlessRaced`, because of the second
look-up in `pop_attributed_pending`. TLC finds the second with two pids and two flows, the bounds of the run were below that.

Only model-checked:
- the liveness properties `EventuallyDelivered`, `SavedRequestCompletes`, `GoneIsReported`, `NoticedEventually`: they rest on fairness and
  ENABLED, which the prover does not treat;
- the invariants of StreamDecode (`TypeOK`, `ExchangesFaithful`, `ExchangesOnce`, `ExchangesAll`, `FailsOnlyRefused`). They hold for
  connections that obey their protocol (messages with heads of their own, a preface before anything else, no HTTP after an
  upgrade), and the run has such connections one by one. A theorem for all `Wires` would first need that grammar as an
  assumption, and its decoders are selections, sorts and folds of sequences, which the provers do not unfold.

## 5. Where code and documentation differ

Kept as runs (`findings` in `PROJECT.json`): MCDeliveryOrder, MCTaskFinGap (a gap that is
reported twice from one cursor), MCAttemptEvidence (`response.completed` sets the outcome of the task, which TECH_SPEC lines 7
and 17 reserve to validated Codex events).

Met while modelling; the models have the behaviour, the properties are stated around it:
- A full outbox refuses every record; no routine record is discarded first (`store.rs:1070`, TECH_SPEC line 31).
- A command is marked dispatched before its poll answer arrives, and only pending ones are selected: when the answer
  is lost, or the client crashes before `save_commands`, the request never gets an outcome (`lib.rs:774`; TECH_SPEC
  line 35 has unavailable content complete with `content_expired`). `SavedRequestCompletes` starts at the save.
- A capture that is rolled back leaves its file behind for ever (`store.rs:183`, `RollBack`).
- Content captured again between the SELECT of `cleanup` and its removal of that file gets a row whose file is then removed:
  `BlobStore::store` keeps the old file (`store.rs:446`, `blob.rs:83`; `raced` in `LiveRowHasBlob`). TECH_SPEC lines 10 and 31
  keep content for 72 hours without this exception.
- A post that the client has given up and the server handles late takes a request back: `upload_chunk` writes
  `partial_upload` over any status, also an outcome (`lib.rs:919`; `reopened`).
- The pins of two commands for one task overwrite each other (`store.rs:365`).
- A request that expires during its upload ends as stored, without content (`lib.rs:828`; hence `overdue`
  in `StoredIsUploaded`).
- The server calls a request stored when it has as many linked objects as wanted parts (`linked_object_count`,
  `lib.rs:908`). Two objects of one part, when the content was captured anew between two attempts, make that true before the
  other part has arrived; `StoredIsUploaded` therefore speaks of requests that the client has completed as well.
- An upload that completes after the eviction of its conversation exceeds the limit until the next
  request (`lib.rs:898`; hence `EvictionRestoresLimit` speaks of requests, while TECH_SPEC line 35 speaks of uploads).
- Manifests count the chunks of the uncompressed body, uploads those of the compressed file (`blob.rs:100` and `:114`).
- An exchange that is decoded after its task has ended - lost with its process, or completed - opens the task again, since
  `project_exchange` does not look at the phase (`capture_lane.rs:1106`); TECH_SPEC line 43 has one terminal transition.
  `TaskReducer` in `protocol/src/state.rs` would refuse it, but nothing calls that.
- After a restart the tasks of a process that then exits stay open, and so do tasks captured only on connections of an
  instance that discovery had lost before (`captured` in `ExitSettles`).
- An incomplete response without a reason, a cancelled one with a typed error, an empty message
  or body, or an error before a completed response gives a batch that does not validate
  (`Expectable` in AttemptEvidence excludes exactly these); the daemon ends.
- Reordering around the wrap of sequence numbers, and a fragment overtaken by a longer one, count as gaps
  (`Wraps` and `Aligned` in `NoFalseGap`).
- The HTTP/2 decoder is given the chunk, not the buffer: a preface in two segments, which `h2.rs` itself handles, or
  server frames before it, do not reach it and the stream is misread or the daemon ends (`capture_lane.rs:848`). In
  the same way frames in the segment of the 101 answer are lost to the WebSocket decoder.
- A capture that begins inside an HTTP/1 exchange pairs requests with the answers before them, or ends the daemon
  at a head that does not parse (`capture_lane.rs:880`; the daemon attaches to processes that already run).
- `looks_like_websocket_handshake` compares windows of 19 bytes with a text of 18 and never holds (`capture_lane.rs:1651`).
- A head with a `Content-Encoding` is parsed alone, and decoding its empty body is an error that ends the daemon
  (`capture_lane.rs:1754`, `http1.rs:224`; `EncodedHeadPassed`). TECH_SPEC line 27 has content encodings handled.
- An exchange that `decode_http_exchange` cannot read ends the daemon too (`capture_lane.rs:902`; `UndecodablePassed`).
- A WebSocket request whose answer ends with an event of type `error` is never projected: for HTTP that event is terminal,
  for `consume_websocket` it is not (`capture_lane.rs:1056` against `:1717`; `Answered`).
- A process that runs is reported as exited, and its tasks are closed, by four mistakes (`Mistaken`): one of its threads ends
  (`capture-ebpf/ebpf/src/lib.rs:140`: the tracepoint fires for each thread, and `ebpf_lane.rs:249` reports the process); its
  executable is replaced and cannot be hashed (`capture_lane.rs:378`); a look-up in `/proc` fails, whose error `discover_pids`,
  `process_name` and `executable_path` swallow (`capture_lane.rs:259` to `:288`); or the exit record of the process that
  had its pid is read late. TECH_SPEC line 17 reserves outcomes to validated events or confirmed termination.
- A process is known by pid and path, not by its start (TECH_SPEC line 21): when a pid is reused before a poll misses
  the first process, the first one's exit is never reported (`Reused` in `GoneIsReported`).
- Connection epochs (TECH_SPEC line 23) are the constant 1; a five-tuple that is reused while the index is old goes to the
  process that had it (not modelled).
- A frame that is not TCP ends `recv` as an empty socket does, so the source then waits for its next round although
  frames are there (`RecvNothing`); a frame that does not parse ends the daemon (not modelled).
- A connection that becomes known while `recv` looks gets a later segment delivered before a waiting one (`raced`);
  so does one whose segment waits behind another that is found, removed, and then matches no process any more: the `?` of
  the second look-up ends `pop_attributed_pending`, and `recv` reads the socket next (`capture_lane.rs:131`, `LeftBehind`).
  Reassembly sorts them.
- An exec record read after the exit of its process writes the row of the process again without its exit (`store.rs:1306`).
- A title file that is truncated in place, or removed and made anew under the same inode number, and has grown back to the old offset
  when the index looks is read on from there (`conversation_titles.rs:79`; `Regrown`).
- What is written to the title file between `open` and the watch is not seen until the next change (`missed`); a title
  that changes while the lane persists a summary is overwritten by the old one; a crash between the update and the
  batch of `sync_conversation_title`, or a row inserted after its selection, leaves the server without the title (`raced`).
- A title that is blank or longer than 512 bytes makes every batch of its session invalid (`protocol/src/validation.rs:157`).
- The notifier sees the newest 500 tasks: one whose title comes when it is no longer among them is never
  noticed (`Due`). Its first pass records without sending. A task that is abnormal twice is noticed once.
- Retention (TECH_SPEC line 37) never removes tasks or sessions, removes errors with the events after 180 days, and
  does not look whether a task is active (`lib.rs:2261`); a batch retried after its receipt is gone is applied again. Not modelled.

## 6. Not modelled, and the plan

Not modelled: frame parsing and the grammars of HTTP, HPACK and SSE (data, not control); build profiles and
configuration (read once at the start); queries other than the task list (they change nothing); retention (by age
only: a model of it is a model of clocks); plaintext and TCP-state records of the probes and their assembly, which
`map_loader_record` drops before any consumer; attaching programs, which is the kernel's.

Next, in this order:
1. The grammar of valid connections as a definition, with `Wires` among them, and from it `ExchangesOnce` and then
   `ExchangesFaithful` for HTTP/1.
2. Two clients at one server: the recency order and the eviction are per client.
3. The path from an exit to the outcome: CaptureIntake composed with TaskProjection.
