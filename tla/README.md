# usg-tftp: TLA+ models, checks and proofs

usg-tftp is a TFTP server in Rust (RFC 1350 with the options of RFC 2347-2349 and the
windowsize of RFC 7440), with a client, a web UI, and multicast and worker-pool modes. This
directory models it in TLA+, checks the models with TLC on small instances and proves the
safety results with TLAPS, for every instance.

## 1. Inventory

| component | source | state | operations | talks to |
|---|---|---|---|---|
| read transfer task | `bin/server.rs`, `main.rs`: `handle_read_request`, `send_file_data_*`, `wait_for_ack*` | window, retries, phase | accept, ACK, timeout | client, over its own UDP port (TID) |
| client get | `bin/client.rs`: `get` | `server_tid`, `expected_block`, `block_buffer`, `last_ack_sent`, local file | DATA, OACK, ERROR, timeout | one task |
| write transfer task | `bin/server.rs`, `main.rs`: `handle_write_request` | `expected_block`, `received_data` | accept, DATA, ERROR, timeout, write to disk | any RFC 1350/7440 sender |
| file store | `write_file_safely`, `web/handlers.rs`: `upload_files`, `delete_file`; streaming reads | directory, inodes, open files | check, create, write, flush, rename, delete, read | TFTP and web processes share it without a lock |
| client put | `bin/client.rs`: `put` | block, retries | request, wait, DATA/ACK loop | server |
| dispatch, options | `handle_client`; `process_tftp_packet` of the pool | none between requests | parse, check, negotiate | starts a transfer or answers with an ERROR |
| receive loop | `run`, `buffer_pool.rs` | `active_clients`, buffer pool | receive one or a batch, spawn | dispatch |
| worker pool | `worker_pool.rs` | bounded channels, counters | receive, select, `try_send`, process, batch send | stubs in `lib.rs` |
| multicast | `multicast.rs` | sessions: clients, master, retransmit queue | join, time out, elect, send, repeat | clients, over the group |
| netascii | `lib.rs`, `main.rs`: `convert_to_netascii`, `convert_from_netascii` | `netascii_spillover` | convert, cut into blocks | read transfer |
| path security, configuration, audit, TLS, PROXY protocol | `path_security.rs`, `config.rs`, `audit.rs`, `web/` | none | checks and output | called by the others |

The hard behaviours: datagrams lost, repeated and reordered between two state machines with
timers of their own; several tasks for one client after a duplicated request; block numbers
that wrap at 2^16 and are compared in three different ways; ACKs whose repetition means
"send again"; files shared by tasks and processes with only `rename` to order them; bounded
channels where one side waits and the other drops; counters and buffers that every path must
give back; sessions that clients join and leave while a transfer runs; and text whose length
changes while it is cut into blocks.
`PROJECT.json` lists each hazard at its line with the property that would catch it.

What makes each part correct: a transfer writes a prefix of the file, reports success only
for the whole file, believes in completion only when the other side has everything, and
always ends; the store never shows a partial file, never mixes versions in a read, and
respects `allow_overwrite`; the receive loop gives every datagram a task and loses neither
buffer nor count; both ends of a transfer use the same options; the pool accounts for every
datagram; a session's master is a member and who joins in time is sent everything; a streamed
text is the text converted whole.

## 2. Modules

* **FileDelivery** - what a transfer promises, without packets: the receiver's file grows as
  a prefix, success only with the whole file, and the sender takes the transfer for completed
  only when the receiver has everything. Implemented by both transfer modules
  (`ImplementsDelivery`).
* **ReadTransfer** - a get: `TftpClient::get`, the tasks that RRQ datagrams start, and UDP.
  A file is `lastBlock` blocks, block `i` has content `i`, and only the last one is short;
  `emptyTail` says that it is empty. `binary`, chosen initially like the file and the windows of
  both sides, is `bin/server.rs`, where an empty final block is part of a window, or `main.rs`,
  which sends it once, after the ACK of the last window.
  A task is in phase `oack` or `empty` (`wait_for_ack`: only the wait is repeated), `window`
  (`wait_for_ack_with_duplicate_handling`: a duplicate ACK, an unexpected ACK or a timeout
  repeats the window and uses up a retry) or `tail` (main.rs's final block), and ends as
  `completed` (`transfer_completed` is logged), `closed` (main.rs returned after its tail),
  `refused` or `aborted`. The client's buffer is drained as in the code: all that follows the
  block just written, `is_final` being that of the received block only.
* **WriteTransfer** - an upload: `handle_write_request` per WRQ datagram, a sender and UDP.
  The sender is external to the repository (`"rfc"`: RFC 1350 with RFC 7440 windows) or `put`
  of `bin/client.rs` (`"put"`), which hears nothing of what a task sends from its own port
  (`HearsTasks`) and so never gets past its request. The final block is acknowledged *before*
  `Store`, as in the code. Sent datagrams that find a closed port may make the next receive
  (`DataTimeout`) or reply (`ReplyFails`) fail.
* **FileStore**, **MCFileStore** - paths and inodes. `Tftp` writers share one temporary path
  per stem (`with_extension`), web uploads have one each. Pieces go through tokio's blocking
  thread (`Write`, `Flush`): `write_file_safely` flushes before it renames, `upload_files`
  does not. A rename may fail, with the temporary file in place or without it. Readers hold an
  inode. Deletions (one path or a directory) and the death of either process may come at any
  point. `placedSince` is a history variable: what was renamed to a writer's destination since
  that writer's check. MCFileStore gives the functions `Dest` and `Stem`.
* **Requests** - no state: what one datagram at the listening port leads to, by `handle_client`
  (both binaries) and by `process_tftp_packet` of the worker pool, which has its own checks
  and negotiation. A datagram is a record of what the checks tell apart (opcode, whether its
  strings are well-formed, mode, the verdicts on its filename, its options in order); the
  outcome is an ERROR with its code, a transfer with its `TftpOptions` and the pairs of its
  OACK, a multicast request, or an error that is only logged. `Settled` says when an outcome is
  right; a client takes 512, 5 s and 1 for options that it did not name (`Unnamed`), whatever the
  server's configuration says, and `UnaskedWindow` names the case in which the two ends differ.
* **Listener**, **MCListener** - `TftpServer::run`: the decision between `recvmmsg` and
  `recv_from` (`use_batch_recv`), the buffer pool, `active_clients`, and one task per datagram
  that goes through `handle_client` (Requests), its transfer (here only its end, or a panic),
  `release` and the count down. MCListener lists datagrams and configurations.
* **WorkerPool**, **MCWorkerPool** - `master_receiver_loop`, `worker_thread`, `sender_thread`
  with their channels (`inbox`, `outbox`): `try_send` drops and counts, `send` waits. The
  transfers that a worker spawns are not waited for and are not part of the module.
* **Multicast** - one session of `multicast.rs`. `fresh` is "`last_seen` is recent", set by a
  join only, since nothing calls `record_ack`; a transfer goes from `sending` and `waiting`
  over its blocks to `round` and `repeating`. `heard` records what was sent to the group since
  a client joined; the loss of multicast datagrams is left out, as nothing reacts to it.
* **ReadTransferProofs**, **WriteTransferProofs**, **FileStoreProofs**, **RequestsProofs**,
  **ListenerProofs**, **WorkerPoolProofs**, **MulticastProofs**, **NetasciiProofs** - the
  theorems about the module each is named after (the last: NetasciiStream). Section 5.
* **NetasciiStream** - the two conversions to NETASCII (`lib.rs` byte by byte, `main.rs` in
  chunks with a look at both neighbours), the one back, and the windows that the streaming
  loops of both binaries build from converted reads, over a perfect network. A window that
  client.rs does not acknowledge (`Acknowledged`: neither `windowsize` blocks nor a short one)
  ends the transfer as `failed`; main.rs's empty final block (`SendEmptyBlock`) comes after an
  acknowledged window only, or when there is nothing left to put into one.

Definitions that start with "Mutant of" in their comment are plausible bugs: each property of
a passing run is violated when its mutant takes the place of the definition it names.

## 3. Runs

| run | shows | bounds |
|---|---|---|
| ReadSafety | the local file is always a prefix; completion is never credited too early (main.rs's tail included); a second task is never fed; FileDelivery is implemented; everybody stops | both binaries, 2 tasks, files of 0, 1, 3, 4 blocks with and without empty tail, windows 1 and 2, 2 retries, 1 loss, 1 duplication, reordering, timers at any time |
| ReadDelivery | without faults a get of an existing file between sides with one window succeeds, except of a multiple of blksize that main.rs ends inside a window, which fails; in lock step a get that has begun succeeds in spite of a loss and a duplication (but for main.rs's tail) | both binaries, windows 1 to 3, `default_windowsize` 1 and 2, files of 1 to 5 blocks, ordered network, timers only when nothing is on its way |
| WriteSafety | `received_data` is a prefix and below the size limit; only whole files reach the disk; a final ACK means the whole file; FileDelivery is implemented; everybody stops | 2 tasks, 1, 3 and 4 blocks with room for 3, window 2, disk errors, 1 loss, 1 duplication, reordering, timers at any time; the sender an RFC client or `put` |
| WriteDelivery | an upload past two wraps is received whole and stored although the windows of sender and server drift apart; in lock step also in spite of a loss and a duplication; what the sender takes for done is stored. The one exception, named in both properties, is a disk error in `write_file_safely`, which comes after the final ACK | disk errors, files of 1, 2, 8, 10 and 19 blocks with 8 block numbers, windows 1, 3 and 4, `default_windowsize` 1 (it also holds with 2 and 3: the sender's repetitions draw the ACKs that the server holds back), ordered network, the sender's timeout the shorter one |
| StoreSafety | served files are whole (a web upload up to its last, unflushed piece), a read sees one version, what is logged as written is what is stored, failed uploads leave no temporary file, and with `allow_overwrite` off a rename replaces only what a rival put there since the writer's own check | 2 TFTP writers of one stem in turn, 1 upload, 1 reader, 2 pieces, 1 deletion, 1 crash, disk errors, `allow_overwrite` on and off |
| Netascii | decoding a converted file gives its text back, wherever chunks begin; with main.rs the client always gets every converted read, which is the whole file converted unless a read ends between CR and LF, and it completes unless the last window is not full and has no short block; with bin/server.rs exactly when no block outgrows blksize and the last one stays short | every file of 1 to 5 bytes over CR, LF, NUL and another byte, blksize 2 and 3, windows 1 and 2, chunks of 2 |
| Listener | pool and buffers in use never fall below what was allocated, `active_clients` is the number of unfinished tasks (one that panicked counts for good), answers agree with the request, switches and patterns, and both ends use the same options but for the window of a client that asked for none when `default_windowsize` is not 1, every task leaves if `default_windowsize` is in range, every datagram gets a task | 2 datagrams of 11 kinds in 3 configurations (adaptive, always and never batched; `default_windowsize` 1, 16, 65536), pool of 2, batches of 2, 1 socket error |
| WorkerPool | the counters account for every datagram; `ClientHash` keeps a client's datagrams in order; answers agree with the request and the switches, options as in Listener, `allowed_patterns` not looked at; what is in a channel is handled | 3 datagrams of 5 kinds from 2 clients, `default_windowsize` 1 and 8, 2 workers, channels of 1, batches of 2, the 3 strategies, 1 error per system call, shutdown at any time |
| Multicast | the master is a member, exactly one while there are members; who joins during the first pass is sent every block by the end; transfers end, by a panic only if block numbers wrap in a build with overflow checks | 2 clients, 3 joins, 2 transfers, files of 0, 2 and 4 blocks with 3 block numbers, 1 failing call, builds with and without overflow checks |

The bounds are small because the errors they look for are: one lost and one repeated
datagram, two tasks, two windows and a final block in each position of a window make every
branch of both loops happen (TLC reports each as taken). `BlockMod` stands for 2^16; it
exceeds the file in the safety runs, as for every file below 32 MiB at 512 bytes, and is less
than the file in WriteDelivery and ReadWrap, where the wrap is the point. In the other runs two
datagrams suffice for a batch, three for a full channel behind a busy worker, two transfers for
a session that outlives one, and five bytes for two reads, two chunks and a rest. A datagram is
never late by the whole range of block numbers: WriteTransfer lets datagrams overtake each
other only in files without a wrap.

Three runs find a violation, each of a statement of the documentation:

| run | property | what happens |
|---|---|---|
| ReadWrap | `Integrity` | `client.rs:250` compares block numbers without wrapping; a window that an early timer repeats across the wrap is buffered as future and written later. `CHANGELOG.md:42` announces wrapping-aware arithmetic |
| ReadWindowLoss | `StartedGetSucceeds` | one lost datagram of a window of 4: the server's repetitions are answered with a duplicate ACK per block already written, each of which costs a retry (3 in the run, `MAX_RETRIES` is 5 and the default window of the client 16) |
| StoreSharedTemp | `AtomicWrites` | two TFTP writes of `boot.img` and `boot.cfg` share `boot..tftp-tmp`; a mixture becomes the file. StoreSafety assumes that clients write one file per stem at a time (`OneAtATime`) |

Other things seen while modelling, without a run of their own:

*Transfers.* A client that sends no option gets windows of `default_windowsize`
(`server.rs:804`), and its ACKs of single blocks use up the retries, although
`WINDOWSIZE_PERFORMANCE_ANALYSIS.md:279` says "Does NOT affect legacy RFC 1350 clients" and :200
"legacy clients get windowsize=1". `RequestsSettled` names this as the one option on which the ends
differ, and `FaultFreeDelivery` is about equal windows only. main.rs sends the empty final block
after the ACK of the last window (`main.rs:2033`), and `client.rs:290` acknowledges full blocks
only when they fill a window: a file that is a multiple of blksize and does not end at the end of a
window is sent until the retries are used up and then given up, without any fault of the network,
although `CHANGELOG.md:40` says "Empty final DATA block now sent correctly in streaming path when
windowsize > 1 and file size is an exact multiple of block_size". `FaultFreeDelivery` and
`StreamedAsWhole` both state exactly this exception; the code at 2033 is not reached with this
client. The final ACK of an upload goes out before the file is written (`server.rs:2064`), so
that a disk error loses what the sender takes for stored. A windowed upload
that loses a datagram is ended with "Out of order block" (`server.rs:1999`), where RFC 7440
asks for an ACK of the last block in order. Half of the number range tells old blocks from new
ones (`server.rs:1992`), so that a repeated block of a window above 32768 aborts an upload: with
8 block numbers `UploadStored` holds for windows up to 4 and fails for 5. The server's write
timer sends an ERROR and repeats nothing, although `rfc-compliance-improvements.md:133` quotes
the RFC's "retransmission of the last packet". A final block that overtakes its predecessor
leaves the get waiting (`client.rs:303`). `put` listens only to the listening port
(`client.rs:350`) and would send no short block after a multiple of blksize (`client.rs:413`);
`get` does not flush its local file.

*Store.* A TFTP write and a web upload of a new file both pass `exists()`, and the later rename
wins although `allow_overwrite` is false. `ReplacesRivalsOnly` says that nothing else is ever
replaced: neither a file that was there at the check, nor one whose writer was done before it.

*Netascii.* `lib.rs` turns CR LF into CR NUL CR LF, `main.rs` leaves it; a read of main.rs that
ends between the two does the former. bin/server.rs sends blocks longer than blksize, of which
the client's buffer keeps the first blksize bytes. `tsize` is the size before the conversion.

*Requests.* `default_windowsize` has a documented range (`config.rs:639`) that
`validate_config` does not check: with 0 a read sends no block, with 0 or 65536 the task of a
write panics and keeps its buffer and its place in `active_clients`. The worker pool ignores
`allowed_patterns` (`worker_pool.rs:861-875`), although `write-operations.md:10` says "Only files
matching allowed patterns can be written": its `RequestsSettled` is `Settled` without the patterns,
which the Listener's has, and fails with them. It ignores the option multicast, too, and answers
every failed request with code 0; `handle_client` answers with codes or, for malformed requests, not
at all.

*Worker pool.* The master's loop awaits nothing unless its socket fails (`worker_pool.rs:391`),
so that it keeps one runtime thread to itself; packets after the first that `sendmmsg` does not
take are dropped and not counted; a `worker_count` or channel size of 0 would panic. In
bin/server.rs the pool's transfers are stubs.

*Multicast.* Since no ACK is ever recorded, every block waits for its timeout, and the
"selective" retransmission is one more pass over the file. A session is never removed: who joins
after the end is told of a transfer that does not come. Block 65536 is queued as number 0, and
`block_num - 1` (`multicast.rs:787`) is not the "checked arithmetic" of the comment above it: with
overflow checks the transfer panics, which `TransfersEnd` accepts of such files only. If the OACK to
the first client fails, the session has a master and no transfer. A full session refuses its own
members, and a master that joins again stays `master_client` but loses its flag and is told it is
not the master. A file that is a multiple of blksize has no short last block. When all members have
timed out, a new client starts a second transfer, and if the first is still in its rounds it takes
blocks from the queue that a later client needs: `JoinersServed` does not hold without `~overlap`.

## 4. Fairness and timers

`Termination` and the delivery properties assume weak fairness of the client (or sender) and
of each task: tokio polls a task that can run and fires a timer that is due. The network is
under no fairness: it may lose what it likes within its bound, and a datagram that stays on
its way is covered by the timers. With `LateTimers` a timer may fire at any time, which
covers every ratio of timeouts to delays; without it, a timer fires only when nothing it
waits for is on its way. In ReadTransfer the client's timer then waits for the server's
retries, the case of a patient client; in WriteDelivery (`SenderFirst`) the sender's timeout
is the shorter one. Both are assumptions about configuration, needed because neither the
client's get nor the server's write ever retransmits on its own timer.
Listener: `run` never returns and the runtime runs every task; no fairness for arrivals, socket
errors or panics, and a transfer ends because of what ReadTransfer, WriteTransfer and Multicast
show. WorkerPool: master, workers and sender each keep being polled, which takes a runtime with
more than one thread, because the master's loop never yields; a shutdown ends all of it.
Multicast: a spawned transfer runs on, all its waits having timeouts. NetasciiStream has no
liveness property.
CHECK_DEADLOCK is off since a transfer, a store whose work is done, and a server to which nothing
arrives any more, really stop.

## 5. Proofs

The proofs hold for every value of the constants that the named `ASSUME`s allow: any number of
tasks, clients, workers, writers, blocks, pieces and datagrams, any windows, capacities and
retry limits, and any number of losses, repetitions, errors and crashes. TLC evaluates each
`ASSUME` in the runs. Where a theorem has a further hypothesis it is written in its statement.

| module | theorem: property | hypothesis |
|---|---|---|
| ReadTransferProofs | `TypeCorrect`: `TypeOK`, `OneTask`: `OneTaskServed` | |
| | `IntegrityHolds`: `Integrity`, `CompletedDelivered`: `CompletedMeansDelivered`, `ClosedAllButTail`: `ClosedMeansAllButTail`, `Refinement`: `ImplementsDelivery` | `NoWrap` |
| | `QuietIntegrity`: `Integrity`, `QuietCompletion`: `CompletedMeansDelivered`, `QuietSuccess`: `NobodyGivesUp`, `QuietRefinement`: `ImplementsDelivery` | `QuietNetwork`, `SameWindow` |
| WriteTransferProofs | `TypeCorrect`: `TypeOK` | |
| | `PrefixReceived`: `ReceivedInOrder`, `WholeStored`: `OnlyWholeFilesStored`, `DoneIsReceived`: `DoneMeansReceived`, `Refinement`: `ImplementsDelivery` | `NumbersFit` |
| FileStoreProofs | `TypeCorrect`: `TypeOK`, `UploadsCleanUp`: `UploadCleansUp`, `RivalsOnlyReplaced`: `ReplacesRivalsOnly` | |
| | `FilesServedWhole`: `ServedFilesWhole`, `OneVersionRead`: `ReadsOneVersion`, `CompletedStored`: `CompletedIsStored` | `OneAtATime` |
| RequestsProofs | `ServerSettles`, `WorkerSettles`: `Settled` of what `handle_client` and `process_tftp_packet` return | |
| ListenerProofs | `TypeCorrect`: `TypeOK`, `ResourcesAreAccounted`: `ResourcesAccounted`, `RequestsAreSettled`: `RequestsSettled`, `NoTaskPanics`: `NoPanic`, `TasksInOrder`: `InOrder` | |
| WorkerPoolProofs | `TypeCorrect`: `TypeOK`, `PacketsAreAccounted`: `PacketsAccounted`, `ClientsInOrder`: `ClientOrder`, `RequestsAreSettled`: `RequestsSettled` | |
| MulticastProofs | `TypeCorrect`: `TypeOK`, `MasterAlwaysMember`: `MasterIsMember`, `LateJoinersServed`: `JoinersServed` | |
| NetasciiProofs | `TypeCorrect`: `TypeOK`, `RoundTripCorrect`: `ConversionRoundTrip`, `StreamCorrect`: `StreamedAsWhole` | |

Hardly any of these is inductive alone. Each component module ends with the invariant that is
(`IInv`, `AnySizeInv` and `QuietInv` of reads, `BaseInv` and `StoreInv`, `ListenerInv`, `PoolInv`,
`StreamInv`), which TLC has checked with the constants of the runs, or for files that wrap with
`BlockMod` 3; its proof has a lemma for the initial states and one per action.

*Reads.* `IInv` adds what is on its way: an ACK in flight names a block that the client has
written and goes only to `server_tid` (`AcksOk`); a DATA block in flight belongs to the file
(`PacketsOk`); a buffered block is stored under its own number (`BufferOk`); a task's window
starts at most one block after what is written (`TaskOk`). Hence the ACK a task expects can
only exist when its window has been written, and the block the client expects can only be the
next one. `ServerFrame`, `ClientFrame` and `ChannelFrame` say what a step that leaves the other
parts alone must establish. `Refinement` maps server steps to `Credit` or a stutter and client
steps to `Extend`, `GiveUp` or a stutter.

A file with more blocks than block numbers (32 MiB at the default blksize) is another matter:
`get` tells old blocks from new ones by comparing the numbers as they are, and in the run ReadWrap
a single timer that fires early is enough for a wrong file. Two kinds of things hold of such files.
What does not depend on numbers, the types and retry limits and that a second task is never fed,
holds on any network (`AnySizeInv`). And on a network that loses, repeats, overtakes and delays
nothing (`QuietNetwork`), with the same window on both sides (`SameWindow`: the default
`default_windowsize` of 1 or a client that asks for a window; with main.rs also no empty final
block, or a full last window before it, which is what its client acknowledges), nothing goes wrong
past any number of wraps: `QuietInv` says that one task runs, and that either exactly the blocks of
its window that the client has not read are on their way, or exactly the ACK of the whole window. So
every block is the expected one, `block_buffer` stays empty, the distance to the last ACK, which the
client computes modulo 2^16, is right because it is at most a window (`Distance`), every ACK is the
expected one, and no timer is ever due (`QuietTimers`). `QuietSuccess` is the safety half of
`FaultFreeDelivery`: nobody gives up.

*Writes.* Here wraps are covered. `handle_write_request` takes a number up to `MaxBehind` behind
the expected one for a duplicate and acknowledges it. `NumbersFit` says of each file and window
that the blocks, or the window, and `MaxBehind` together do not exceed the range of numbers: with
16 bits, files of up to 32769 blocks with any window, or files of any length with windows of up to
32769. Where numbers wrap the network keeps the order, and the order of a channel bounds how old
its next datagram can be (`DataOk`: less than a window; `AcksOk`: at most `MaxBehind`), so that a
number that is expected stands for the block that is meant. Beyond `NumbersFit` the properties are
false and TLC finds it with few numbers: with 6 numbers and windows of 5 `ReceivedInOrder` fails,
and with 8 numbers, 6 blocks, a window of 6 and reordering so does `DoneMeansReceived`, because a
block far ahead of the expected one looks like a duplicate and is acknowledged. With 16 bits this
takes windows of more than 32769 blocks, which RFC 7440 and the server's limits allow.

*Store.* `BaseInv` holds whoever writes what when: a temporary path holds an inode that a writer
of that path created (`TempsOwned`), and with `allow_overwrite` off the destination of a writer past
its check is free or holds what a rival has put there since (`OnlyRivals`): the check found it
free, a deletion frees it, and every other rename to it is recorded in `placedSince`. With
`OneAtATime`, `StoreInv`
divides the inodes into those that a writer has open or that are at a temporary path, which nobody
can see (`Private`), and those that are served (`Served`); an inode moves from the one to the other
in the single step of a rename, complete but for the last piece of an upload. Without `OneAtATime`
the theorems are false (StoreSharedTemp). `TempAssumption`, that no client asks for a file by the
name of a temporary one, is an assumption about clients: `path_security` refuses names that
begin with a dot, as those of uploads do, but not `boot..tftp-tmp`.

*Requests.* `ServerSettles` and `WorkerSettles` are about lists of options of any length, with
repetitions: the one that counts is the last of its name (`RequestedIsLast`), a value that is
accepted is legal (`AcceptedIsLast`), and the OACK confirms exactly what was accepted
(`ConfirmedIsAccepted`). An option that was not accepted leaves the server's default, which is the
client's for blksize and timeout (`ServerDefault`), while the windows then differ exactly under
`UnaskedWindow` (`WindowAsked`, `ChosenAgree`). Listener and WorkerPool then only show that each
task or worker answers its own datagram (`AnswerOk`, `AnswersOk`).

*Receive loop.* `InOrder` numbers the datagrams: those with a task, then those of the batch, then
those in the socket. With it every step moves exactly one datagram between the counted sets, and
`CountMoves` (RequestsProofs) turns this into an equation between the cardinalities of
`ResourcesAccounted`. `NoPanic` has its condition, `default_windowsize` in range, inside:
`validate_config` does not establish it, and with 0 or 65536 tasks do panic.

*Worker pool.* The same numbering; a worker's datagrams are in order and unanswered up to the one
it is at (`WorkerOk`), no two workers hold the same one (`Apart`), and under `ClientHash` a
datagram is with the worker of its client (`HashOrder`), which has answered no later one. A packet
that finds its channel full disappears from the order without breaking it.

*Multicast.* The session (`MasterIsMember` with the finiteness of `clients`) and the transfers are
nearly independent. `JoinersServed` rests on `QueueOk`: while one transfer runs, every block that
its first pass is past is in `retransmit_queue`, so that who joins finds what it missed there
(`JoinerOk`), and the first round repeats all of it.

*Netascii.* The conversions are concatenations of one piece per byte, chunk or read, so that what
they compute takes induction over the file. It is done over the set of lengths for which a claim
holds, by `BoundedInduction`, which follows from the well-foundedness of the subsets of a finite
set. `RoundTripCorrect` is that decoding undoes each piece, whatever neighbours its byte has and
wherever chunks begin. For the streaming loops `StreamInv` says after how many reads which converted
bytes are with the client, in the window and in `netascii_spillover` (`MainInv`), that the client
has whole windows of full blocks up to the last one (`WholeWindows`), which decides whether that one
is acknowledged (`EndsInside`), and that the empty block after an acknowledged window is never
reached; or, for
bin/server.rs, that the client has or will get what it keeps of the block of each read, at most
`blksize` bytes (`ServerInv`). `StreamCorrect` then compares the reads converted one by one with the file
converted as a whole: they differ exactly if some read ends between a CR and its LF.

Only model-checked: all liveness properties (fairness is out of the prover's reach), and what the
three runs that find a violation show. Every other property of a run is proved.

## 6. Not modelled, and what is open

Not modelled: socket options, TLS, the PROXY-protocol header, static files, listings and
status pages, audit formatting, configuration parsing and the walk over canonical paths (I/O,
presentation or libraries); the block loop of `put`, which is not reached with this server;
`record_ack`, which has no caller; the transfer functions of `lib.rs`, which are stubs. Each
module stands for one part; they meet where the code calls from one to the other: Listener and
WorkerPool take their answers from Requests, and the ends of their transfers from the transfer
modules.

What the proofs leave open: reads past the wrap of the block number on a network that is neither
quiet nor arbitrary, one that keeps the order and only loses datagrams, say. There a window that is
repeated across the wrap is kept in `block_buffer` as if it were still to come, as in ReadWrap, even
in lock step, so that a theorem would have to say where in the file datagrams may be lost.
