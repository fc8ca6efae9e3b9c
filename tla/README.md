# TLA+ models of Computer_Network_lab

The repository holds two kinds of programs: a *remote backup system* (a UDP
command server, a client, a TCP channel for large files, an HTTP management
server with metrics, under `src/reliable-remote-backup-system`) and the
*original labs* it grew out of (`src/original-labs`: a Go-Back-N simulator
`gbn.c`, a Selective Repeat simulator `stable.c`, and the first backup server
and client). This directory models them in TLA+, checks the models with TLC on
small instances and proves the most important invariants with TLAPS.

## 1. Inventory

| Component | State | Operations | Interaction |
|---|---|---|---|
| Go-Back-N simulator (`gbn.c`) | A's `nextseqnum`, `base`, ring `winbuf`/`winfront`/`winrear`/`pktnum`, ring of buffered messages; B's `expected_seqnum`; event list (timers, packets under way) | `A_output`, `A_input`, `A_packet_time_rinterrupt`, `B_input`, `starttime_r`, `stoptime_r`, `tolayer3` | callbacks of one event loop; a channel that loses and corrupts by pattern strings |
| Selective Repeat simulator (`stable.c`) | as above, an ACK mark per packet, one timer per packet, B's `recv_window` and `recv_marked` | the same handlers | the same emulator |
| Backup server (`server.cpp`) | the UDP socket, `currentClientAddr_`, `currentTcpPort_`, locals of the running handler, the backup directory | `handleLs`, `handleSend` (small and large), `handleRemove`, `handleRename`, `handleShutdown` | datagrams from any client, one TCP connection at a time; shares the directory and the metrics with the HTTP threads |
| Backup client (`client.cpp`) | where its command stands, the command, its sockets | `ls`, `send`, `remove`, `rename`, `shutdown`, `quit` | UDP request/answer with a 5 s receive timeout, TCP upload; questions to the user |
| Wire format (`message.h`) | none | two structures read as each other | |
| HTTP server (`http_server.cpp`) | `running_`, `serverThread_`, a request and a stream per thread, the directory | list, upload, delete, rename, metrics; start, stop | a pool of threads, without a lock around the directory |
| Metrics (`metrics.cpp`) | counters, latency statistics, three mutexes | record, read, percentile, reset | called from every thread; some maps under a mutex, the statistics atomics one by one |
| File names and utilities (`utils.cpp`, `file_utils.cpp`) | none | validation, sanitising, joining, listing | pure, or a single file system call |
| First backup server and client (`server.cc`, `client.cc`) | `server_state`, `current_tcp_port`, locals of the handler, the backup directory; the client's state and command | the five commands, and OVERWRITE as a command by itself | datagrams over a non-blocking socket, one TCP connection; the new name follows a RENAME unasked |
| Error codes, logger, `main.cpp`, web page, containers, CI | none of interest | | |

### What is hard here

* **Rings and windows.** A ring whose cursors meet is full or empty; the freeing
  loop of `gbn.c:224` takes it for empty. Slots of `stable.c`'s receiver are
  shared by all packets of one residue.
* **Timers.** `gbn.c:170` starts the window's timer one packet late; `stable.c`
  must keep one timer per packet until its ACK and none afterwards.
* **Loss and duplicates** of packets and of ACKs, which the protocols exist for.
* **A handler that receives.** The server's UDP socket is non-blocking
  (`server.cpp:91-98`), so that each receive inside a handler either takes a
  datagram that is already there or fails at once; the timeouts set above them
  have no effect. What comes too late is read by the main loop as a command.
* **Bytes without a type.** A file's content and a command are both bytes in a
  datagram, and files are read and sent as binary (`client.cpp:318`,
  `client.cc:194`). Where a command is expected, the first byte of a late content
  says which one it is (`server.cpp:194`, `server.cc:113`).
* **Writes that nobody looks at** (`server.cpp:452`, `:551`, `server.cc:511`): ACK 0
  is sent although the disk took only a part.
* **Answers without numbers.** Any datagram answers the command at hand; and
  `clientAddr`, to which a handler answers, refers to `currentClientAddr_`, which
  each receive overwrites with the sender of what it took.
* **Waiting without a limit** in `accept()`, on a port that is used once.
* **Partial steps**: a file is emptied before its content comes, a rename deletes
  its target before it renames; a client may be killed in between.
* **Threads.** The HTTP server's threads and the UDP thread share the directory
  without a lock: what one has checked may be otherwise when it acts, and a file
  may be emptied, renamed or deleted while a stream writes to it. The metrics
  add to counters by atomic operations of their own and retry a
  `compare_exchange_weak`; `reset()` takes three mutexes one in another.
* **A command without a memory.** The first server's main loop takes OVERWRITE
  for a command and keeps nothing of the SEND that it answers.

`PROJECT.json` lists every hazard at its line with the properties aimed at it.

### What makes each component correct

* Data transfer: the receiver passes up each message once, in order
  (`ReliableTransfer`); the sender never takes for acknowledged what was not
  received; nothing waits that nothing would send; faults cost only time.
* Backup: what a client reports is true of the directory; a refused command
  changes nothing; a command touches only the files it names, and only valid
  names come into the directory; no answer is left for a later command; the
  client connects to a listening server; the server returns to its main loop. Of
  the first lab: what its client prints is so, no whole file is replaced
  unasked, and it waits in `accept()` only for a client that comes. Both backup
  systems keep most of this only until a content is taken for a command, which
  nothing in them prevents.
* HTTP server: a file is one whole content unless two wrote to it at a time, or a
  write failed; a rename replaces no file (it does, section 6); `stop()` returns
  (when the server listened).
* Metrics: when no call is under way they are what the calls amount to, the
  maximum is the largest latency, a percentile is the nearest rank, and no two
  calls wait for each other's locks.

## 2. Modules

| Module | What it is |
|---|---|
| `ReliableTransfer` | The abstract specification: submit the next message, deliver a longer prefix. |
| `GoBackN` | `gbn.c`: sender, receiver, timers, channels. Implements `ReliableTransfer`. |
| `SelectiveRepeat` | `stable.c`, likewise. Implements `ReliableTransfer`. |
| `BackupProtocol` | Server, clients, datagrams, TCP connections and the directory. |
| `MCBackupProtocol` | Names and contents for TLC. |
| `HttpServer` | `http_server.cpp`: start and stop, requests in threads, and the file operations of the UDP thread beside them. |
| `Metrics` | `metrics.cpp`: counters, statistics, readers and reset, an atomic operation at a time. |
| `LabBackup` | `server.cc` and `client.cc`: the first server and client over a lossy network. |
| `MCHttpServer`, `MCMetrics`, `MCLabBackup` | Threads, names, contents and latencies for TLC. |
| `GoBackNProofs`, `SelectiveRepeatProofs`, `BackupProtocolProofs`, `BackupOneClientProofs`, `HttpServerProofs`, `MetricsProofs`, `MetricsTotalsProofs`, `LabBackupProofs` | Theorems and their proofs; `BackupOneClientProofs` extends `BackupProtocolProofs`, `MetricsTotalsProofs` extends `MetricsProofs`. |

`BackupProtocol` and `HttpServer` meet in the directory: `BackupProtocol` has the
UDP server's handlers in full and no other thread, `HttpServer` has their file
operations, as those of its thread `Main`, between the ones of the HTTP threads.

### Go-Back-N and Selective Repeat

One action per event handler of the emulator: `FromLayer5` (the event
`FROM_LAYER5`, which calls `A_output`), `A_input` and `B_input` (a packet at the
head of a channel), `A_packet_time_rinterrupt(s)` (a timer of packet `s`), and
`Perish` for a packet or ACK that the pattern strings lose or corrupt; a
corrupted one is discarded by the checksum test at the start of its handler,
which changes no state, so that the two are one action. The fate of a packet is
drawn when it leaves the channel rather than when it enters: nothing reads it in
between. A loop of a handler is a single step, given by its result: how many
slots are freed (`LoopStopsAt`), how many buffered messages are sent
(`Drained`), how many packets are passed up (`DeliverRun`).

Time is left out: any scheduled event may be the next one. The emulator gives
all packets the same delay and orders events of one time by insertion, so that
packets of one direction are never reordered, and the channels are FIFO queues.
Every run of the simulator is a behaviour of the model; the model also has
timeouts that come earlier than the constants of `main` let them.

A message is its number. Statistics and traces are left out. `timers[s]` counts
the events `time_R_INTERRUPT` of packet `s` on the list, since `starttime_r` may
add one twice and `stoptime_r` removes the first it finds.

*Assumptions.* `gbn.c` writes its ring of 5000 messages without a look at the
load; `NoBufferOverflow` considers the simulations in which it does not
overflow. (Without it `InOrder` fails.) `stable.c` exits when its ring is full,
which is modelled (`exited`); its receiver's arrays have eight slots, and
larger windows, which would index past them, are left out.

### The backup system

`pc` is where the server waits: its main loop, a receive inside a handler
(`confirm`, `small`, `newName`, `renameConfirm`), `accept`, `recv`, or `down`. A
handler is one action up to its next receive (for instance `handleSend`), and
each outcome of the receive is an action that runs to the next one or to the end
(`OverwriteAnswered`, `ConfirmationMissing`). An outcome "nothing received" is
possible at any time, since the socket does not block. `filename`, `filesize`
and `newFilename` are the handler's locals. `Receive(c)` stores the sender in
`currentClientAddr`, as `recvfrom` does, and the answers that follow go there.

`cpc[c]` is where client `c` waits: the prompt, the answer to a command, a
question to its user, `connect`, `stream`, or `dead`. One action per answer
follows `client.cpp` case by case, including its defaults (an answer that is
neither an ACK nor `FILE_EXISTS` sends the client down the small file's path).
`cmd[c]` and `result[c]` are the last command and what it reported, `before[c]`
is a history variable: the directory when the command was typed.

The network: a queue of datagrams per client and direction. Datagrams of one
sender stay in order and are not duplicated, which holds on the loopback and
Docker networks the system is documented for; those of different senders arrive
in any order; up to `MaxLost` are lost. `conn[c]` is the client's TCP
connection: open, reset by the server, cut by the client's death, or the content
that was streamed.

Data: a name or a content is a model value. `ValidNames` are the names that
`isValidFilename` accepts; names are short enough for the message's field. A small
content fits in a datagram (`SizeOf[d] <= DATA_BUF_LEN`).

A datagram does not say what it is. `ReadAs[d]` is what the bytes of content `d` are
when they are read for something else: the command of the first byte with its
fields, and the name that they begin with, if it is one. A content is sent with
these fields (`DataMsg`), and each receive reads of them what it expects: the main
loop executes a late content as LS, SEND, REMOVE, RENAME or SHUTDOWN, a handler that
waits for a confirmation takes it for one, and one that waits for a name takes its
text (`NameIn`). The converse is modelled as well: what comes in place of a content
is stored as the file (`Stored`). `misread` is a history variable: a content was
taken for something else. What follows is the content's choice, and its answer goes
to a client that did not ask; so the properties of the passing runs hold *until
then*, and the run `backup_misread` shows that it happens, with one client and
nothing lost. `ReadAs` is a constant: the theorems hold whatever files contain.

What a file holds is a content, `Damaged` (bytes that no client asked to store: the
emptied file before its content comes, or what was cut short), or `Partial`: what a
write that failed left of it. `Written` allows the failure at every write, and the
ACK 0 that follows is sent all the same. Opening, deleting and renaming may fail too.

A TCP connection may break while it is open or before it was read (`Drop`, when
`MayDrop`); the client then returns without the answer that the server still sends.

*Assumptions.* Nothing is typed after a shutdown, whose ACK the client never
reads. With `LateAnswers = FALSE` the client's 5 s are longer than any answer
takes: it times out only when no answer is on its way and the server is not
about to send one (`Silent`). Requests of the HTTP threads to the directory are
in `HttpServer`.

### The HTTP server

`main` is where `Server::run` stands, `thread` the `serverThread_`, `running_` its
flag; `start` sleeps for 100 ms and goes on whatever became of the thread, which
is why `Slept`, `ThreadRuns` and `Listen` come in any order. httplib is modelled
by how it is used: `listen()` returns when it fails or was stopped, and its pool
is done with its requests; `stop()` does nothing to a server that does not listen.

Each thread (`Workers`, and `Main` for the UDP commands) runs through a request
in steps that are one file system call each: `OpenExisting` or `OpenNew` and
`Write` block by block and `Close`; `ExistsChecked` and `deleteFile`;
`ExistsChecked`, `TargetChecked` and `renameFile`. `disk` leads from names to
inodes and `content` from inodes to blocks, since an open stream keeps its file
when the name is renamed or deleted; a stream writes at its own offset
(`Written`), so that a file emptied under it gets a hole. The UDP rename asks its
user when the new name is taken, and deletes the target (`TargetDeleted`). Any
call may fail, and an upload answers that it succeeded all the same when a write
fails (`http_server.cpp:196` is not checked). History: `spoilt` files were written
by two streams at a time or not to the end; `early` says that `stop()` was called
before the server listened.

### Metrics

One action per atomic operation, and one for what is done under a lock that is
held. A counter is found under `requestMutex_` (`getOrCreateCounter`) and added
to without it (`fetch_add`); `recordLatency` adds to the count, loads and
exchanges the sum (`SumLoaded`, `SumExchanged`) and the maximum, and stores a
sample under `sampleMutex`. The readers change nothing but hold locks. A
`compare_exchange_weak` that fails of itself is a stutter. `asked` and `noted`
are what the calls amount to; `overlap` says that a `reset()` and another call
overlapped, after which the counters agree with nothing (`reset()` is documented
as a thing of tests). One command's statistics: the maps keep those of others
apart. The doubles' sums are taken to be exact, and so is the percentile's index:
`ceil(p / 100.0 * n)` equals `(p * n + 99) \div 100` for the percentiles the code
asks for (50, 95, 99) and any number of samples it keeps (the two were compared
up to 200000), but not for some others, such as 7, 14, 28 and 55. `Sorted` is the
sorted copy that `percentile` makes, given as the one sequence with the same
latencies in order.

### The first lab

`server_state` is where the server waits. Its UDP socket does not block
(`server.cc:85-86`): `SmallFileReceive` is tried once and finds nothing, as the
client sends a content only after an answer, so that **no small file is ever
stored**: the client takes the ACK 1 for the go-ahead, sends the content to the main
loop and waits for an answer that comes only if the content is a command
(`SmallFileAnswered`). `NewNameCame` finds the new name when it came with the
command, which the client sends in one go, and `NotYetCome` ends the command
unanswered when not. OVERWRITE is a command of the loop, so that a content that
begins with a line break (10) confirms an overwriting.

`ReadAs[d]` is the command that a small content's first bytes are, `misread` says
that one was taken for a command or a name. A first byte of text is beyond the end
of `cmd_string` and may end the server (`UnknownCommand`). A command without a name
is one on the backup directory itself, which is there, cannot be opened for writing,
and can be removed when it is empty. `Damaged` is a file that is not, or not yet,
whole: emptied, cut short by a client whose `send` failed and that awaits its answer
all the same (`StreamFile`), or written in part (`Written`).

Fields that the code does not set are drawn from all their values: the name and
size of a rename's confirmation (`client.cc:538`), the answer that a rename looks
at after a timeout (`client.cc:589`; what it then prints is `renamedUnread`, of
which no property speaks). `agreed` is the name whose overwriting the user agreed
to, `before` the directory when the command was typed, `blind` that a confirmation
with unset fields was sent. Answers come within the client's five seconds or not at
all (`Silent`).

## 3. Runs

| Run | Module, cfg | Bounds | Shows |
|---|---|---|---|
| `gbn` | `GoBackN`, `GoBackN.cfg` | window 4, 4 buffered, 8 messages, at most 4 in flight before a resend | order, window, buffer, timers, refinement, delivery |
| `sr` | `SelectiveRepeat`, `SelectiveRepeat.cfg` | window 3, 3 slots, 6 messages, 3 in flight | ring, timers, held packets, refinement, recovery from a fault |
| `backup` | `MCBackupProtocol`, `BackupProtocol.cfg` | one client, 2 valid names and 1 invalid, 3 contents (2 small, 1 of them a REMOVE), 3 commands, 2 ports, 1 loss, client may be killed | what clients are told, what the directory holds, that the server returns |
| `backup_pair` | `MCBackupProtocol`, `BackupProtocol_pair.cfg` | two clients, 1 valid name and 1 invalid, 2 contents (the small one an OVERWRITE), 3 commands, answers may be late, connections may break | names of files stay valid when a handler takes the datagrams of another client |
| `lab_backup` | `MCLabBackup`, `LabBackup.cfg` | 2 names, 6 contents (4 of the 5 small ones begin like a command), 4 commands, 1 loss | what the client prints, what is overwritten, whom `accept()` waits for |
| `metrics` | `MCMetrics`, `Metrics.cfg` | 3 threads, 3 calls, 1 error code, latencies 1 and 3, 2 samples kept | nothing lost, maximum, percentiles, every call returns |
| `http` | `MCHttpServer`, `HttpServer.cfg` | 2 workers and the UDP thread, 3 requests or commands, 2 names, contents of 1 and 2 blocks, 5 inodes | whole files, `stop()` |
| `gbn_lonepacket`, `gbn_ring`, `sr_twolosses`, `backup_misread`, `backup_selfrename` | the other cfgs | as small as the case allows | violations, see section 6 |

*Why the bounds are enough.* `gbn`: eight messages go twice round a ring of four
slots, so that every slot is reused while an old packet of it may be resent, and
all four buffer slots are used. `sr`: six messages go twice round sender's and
receiver's slots, and the buffer fills up to the exit. `MaxInFlight` only stops
timeouts from piling up resends: a window's worth in flight, with any of them
lost, gives every mixture of new packets and duplicates. `FaultBound` is where
the count of faults saturates, not a bound on faults. `sr_twolosses`: three messages
in a window of two, so that one is not yet sent when the ACKs of a packet are lost;
room for three in flight, since each of the two packets may be under way again
beside an ACK. `backup`: three commands
give every pair of commands on one file and a third that observes it, or that
meets what the first two left under way; one loss at any place is enough for
every receive to miss its datagram, which the non-blocking socket does without a
loss as well; two reachable ports, so that the third transfer finds none left. The
initial directory is any one of the valid names and contents. One client: with two
the system's answers get mixed up (section 7), which `RELIABILITY.md:101` excludes.
`backup_pair` has the two clients, equal up to their names (symmetry), for what
still holds of them; one of its commands finds the file of the first there, and
the third comes while the second is answered, or is given up. `lab_backup`: four
commands, so that a command can meet what two others left under way and a fourth
observe it; a lost datagram or connection at any place; contents that remove a
file, remove the directory itself, announce a large file and confirm an overwriting.
`metrics`: three calls at a time in three threads are enough for a load, another's
exchange and a third's in between, and for a reset that holds a lock while two
others each hold one; two samples and three latencies fill the reservoir and go
past it. `http`: the directory is empty at first, so that the requests make the
files that they then rename or replace; three requests in three threads can be
a rename that has checked, a second thread that puts a file to its new name and
a third that writes it; a content of two blocks has a step in the middle, and
five inodes are never used up.

`CHECK_DEADLOCK FALSE`: the simulators stop when all messages are delivered, the
backup systems when the commands are used up or the server is shut down, metrics
and HTTP server when the calls and requests are used up.

*What the properties are about.* `InOrder`, `WindowBound`,
`BufferedOnlyWhenFull`, `ResendReadsWritten` and `TimerForFullWindow` say that
Go-Back-N is right although its ring loses step with its window;
`RingHoldsWindow`, `OneTimerEach`, `AckedIsHeld` and `ArrivalsInWindow` that
Selective Repeat's ring, timers and receive window stay in step. In
`BackupProtocol`, `ReportsAreTrue`, `RefusedLeavesDisk`, `OthersUntouched` and
`OnlyValidNames` relate what a client was told to the directory, and
`NoStaleAnswer`, `DatagramHoldsFile`, `ConnectFindsListener` and `ServerReturns`
say that client and server keep in step; all of them until a content is misread.
`ReportsAreTrue` allows, after "completed", the file or the part of it that a failed
write left, and nothing else: not the old file, and not another content. In
`LabBackup`, `OnlyWhatWasAsked` is the action property that matters for a server
without memory: whatever OVERWRITE arrives, only what the user agreed to is
replaced, until a content is taken for a command. `ReportsAreTrue` makes no such
exception there, because nothing that a content does is reported under another
command. In `HttpServer`, `FilesAreWhole` says exactly how far the unlocked directory
is safe; the exception it makes (`spoilt`) is reached, and without it the property
fails. Its renames are not safe (section 6), and no property speaks of them. In
`Metrics`, `NothingLost` and `LargestKept` are about the
retry loops, `EveryCallReturns` about the order of the locks.

## 4. Fairness

*Simulators.* The main loop takes the events in the order of their times and
stops only when none is left: every scheduled event is handled. Hence weak
fairness of each handler while its event is scheduled. `GoBackN` assumes none for
timeouts, since delivery without faults does not need them; `SelectiveRepeat`
assumes it for each packet's timer. `sr_twolosses` has strong fairness of the timers
besides (`PromptSpec`): `MaxInFlight`, which the code does not have, must not be what
keeps a timer from going off. The channel is not assumed to stop losing:
the liveness properties say what holds after a bounded number of faults
(`EverythingDelivered`: none; `RecoversFromOne`: at most one).

*Backup.* The server's loop and each client's program run on (`WF(ServerStep)`,
`WF(ClientStep(c))`). Users need not type or answer. `ServerReturns` is claimed
as long as no datagram is lost, no client killed, no content misread and the next
port is within reach: `accept()` has no timeout.
A client that waits for its user is not waited for by the server, which the
non-blocking socket turns into the failures of section 6.

*HTTP server.* Its threads run (`WF` of `Slept`, `ThreadRuns`, `Listen`,
`ThreadEnds`, `Joined` and of each thread's `Continue`); requests, commands and the
shutdown need not come. `StopReturns` excepts a `stop()` before the server listens,
and fails without that exception (`early`).

*Metrics.* A thread inside a call runs (`WF(Continue(t))`); whether it calls is its
own affair. This weak fairness is enough although a lock may be taken by another
first and a `compare_exchange` fail because another's succeeded: the calls are
bounded, and so are those that can come first. With calls without end, a thread
might starve: neither `std::mutex` nor the loops promise more.

## 5. Proofs

`GoBackNProofs`, for every `WINDOWSIZE`, `MAXBUFSIZE`, `NSimMax` and
`MaxInFlight` that satisfy the two assumptions. The properties are not inductive
by themselves: that the next packet B accepts holds the next message depends on
what the channel holds, which depends on what a timeout reads from the ring.
`IInv` adds

* `Prefix`: `delivered` has `expected_seqnum` messages, in order;
* `Supply`: the buffer holds the messages from `nextseqnum` up to the last
  submitted, in order;
* `Channels`: every packet under way is `Genuine`, one that A has sent, with the
  message of its number; every ACK is below `expected_seqnum`;
* `Ring`: every slot written so far holds a genuine packet; and on the first lap
  `winfront = base`, `winrear = nextseqnum` and each slot holds its own packet,
  which shows that a slot that was never written is never read.

It says deliberately little of the ring after the first lap, where `winfront`
may lag behind `base`: a timeout may then resend old packets, but genuine ones.
Proved: `TypeCorrect`, `DeliveryInOrder`, `WindowBounded`, `NoMessageStranded`,
`ResendInitialised`, `TimerCovers`, and `Refinement`, that the protocol
implements `ReliableTransfer`.

`SelectiveRepeatProofs`, for every window up to eight and every `MAXBUFSIZE`,
`NSimMax` and `MaxInFlight`. Packets overtake each other here, and B stores by
`seqnum % WINDOWSIZE`, so it must be shown that no packet is taken for, or
written over, another one of the same slot. `IInv` rests on two facts:

* `Ring` and `Timers`: the ring's cursors follow `base` and `nextseqnum` on every
  lap, and packet `q` of the window has a timer exactly while its entry has no
  ACK (`Waits`). So the searches by sequence number find the packet or nothing
  (`PendingIsWaiting`);
* `Arrivals`: a packet under way is at most a window behind B, behind what B
  holds and behind each packet *ahead of it* in the channel. A sends nothing older
  than `base`, and the channel is a queue. When a packet meets another one in its
  slot, they are a multiple of the window apart; the one in the slot cannot be the
  later one, and the earlier one has been passed up (`OverwriteIsSafe`). This is
  why what B acknowledged it keeps (`Acks`), why `base` never passes what B has
  passed up (`AckedIsPassedUp`, which needs that B's loop leaves nothing ready,
  `NothingReady`), and why `B_input`'s last branch is dead.

`Supply`, `Prefix` and `HeldAreGenuine` are as above. Proved: `TypeCorrect`,
`DeliveryInOrder`, `WindowBounded`, `RingInStep`, `OneTimer`, `AckedKept`,
`NoMessageStranded`, `ArrivalsKnown` (every invariant that `sr` checks) and
`Refinement`. A channel that reorders would break `Arrivals`: the proof depends on
the emulator's equal delays.

`BackupProtocolProofs`, for any set of clients, names and contents, any losses
and any crashes, late answers included. `TypeCorrect` says more than types: the
locals a handler uses are set wherever it waits. `NamesStayValid`: only valid
names come into the directory. `handleSend` takes the name under which it stores
from the confirmation, which may even come from another client than the
command, and does not validate it; so the invariant `IInv` follows it back:
every confirmation that is no content carries a valid name or none
(`ClientDatagrams`), because a client that is occupied with an upload has a valid name and a content
as its command (`Uploading`), because the client validated it before the
command. A handler's `filename` is then valid or absent, unless a content was
misread (`HandlerOK`), and a file that can be opened has a name (`Opens`). The types
are kept whatever is misread.

`HttpServerProofs`, for any set of threads, names and contents. `FilesWhole`:
whether a file is whole depends, while it is written, on how far its stream has
got; `Streams` says that a stream to a file that is not `spoilt` is its only one,
and that the file holds just what that stream has written (`Copies`). Deletes and
renames touch names, and not the inodes it speaks of.

`BackupOneClientProofs`, for one client, no late answers and no connection that
breaks (`Alone(c)`), and for any names, contents, sizes and ports, whatever the
contents begin with, any number of commands and losses, writes that fail, and a
client that may be killed at any time. The three hypotheses are those of the run,
and the promises need them: with a second client, an answer after the five
seconds, or a broken connection, they are broken (sections 6 and 7). Proved are the
six other invariants of `backup`: `ReportsHold`, `RefusalsHold`, `OthersHold`,
`AnswersAreTaken`, `BufferHolds` and `ConnectionsMeet`. They follow from
`ProgramsStayInStep`: `OneClient(c)` below holds until a content is misread. And
`TextIsNeverMisread` says when that never is: if no content begins with the code of
LS, SEND, REMOVE, RENAME or SHUTDOWN (`TextOnly`). A condition on the first byte in
the main loop is enough, because in the other places, where a confirmation or a
name is expected, the invariant shows that no content can come.

No datagram says which command it belongs to, and each of the two programs takes
the next one for what it waits for. What keeps them right is that at most one of
them has anything of use to receive. `OneClient(c)` says so for each place where
the server waits (`InStep`): where the client can be then, which datagrams can be
under way, and what they mean.

* In the main loop (`InMain`) all requests but the last are `Idle`, leftovers of a
  handler that gave up, which the loop drops; the last may be a `Request`, and
  then it is the command the client has just typed, no answer is under way and
  nothing has changed since. Or there is one answer under way, and it is true of
  the directory (`AnswerTrue`); or two ACKs (`TwoAcks`): the server asked for a
  small file, found nothing and sent the error at once. The client then takes the
  first for the request and the second for the outcome, which is why a `failed`
  is one for which nothing has changed.
* In a handler (`InConfirm`, `InSmall`, `InNewName`, `InRenameConfirm`) the command
  has changed nothing so far (`NothingDone`), and one side has the move: the
  question is under way, or asked, or its answer is under way. The answer's name is
  the command's, so what is stored goes under a name that the user typed.
* In `accept` (`InAccept`) either the client is on its way to the announced port
  with the file that is expected (`Offered`, `Connecting`, `Streaming`), or it never
  will be (`Stuck`): the announcement or the connection was lost, or the client was
  killed. Commands typed after that are not answered, so they report nothing.
* In `recv` the accepted connection is the client's, and what it holds is the file
  of its command (`Streaming`) or what was streamed when it was cut.

`ClientKnows` adds what the client holds when it waits: no report before the
command is done, a small file where it sends a datagram and a large one where it
connects, and an untouched directory while a question is open. The proof has a
lemma per action (`handleSendFits`, `ClientTimeoutFits`, `CrashFits`, ...). A
timeout fits because `Silent` leaves it no answer that could come later, a crash
because a dead client sends nothing more and the server's answers to it are
dropped, a loss because whoever then has nothing to receive goes on without: the
handlers, whose receive does not block, and the client, which times out. `OneClient`
was checked by TLC before it was proved. The proof uses that a content is none of the
names of a connection's states (`BackupAssumption`), which are all in one variable.

`MetricsProofs`, for any threads, latencies and bounds. `MaximumIsLargest`: what a
thread loaded before its exchange is never above the maximum (`LoadedBelow`), so
that an exchange that succeeds raises it, and a thread that is done has a maximum
of at least its latency. A `reset()` would break this; one that overlaps no call is
alone (`ResetAlone`). `Measured` says that a thread inside its call has a latency.

`MetricsTotalsProofs` proves the other two invariants of `metrics`.
`TotalsAreRight`: `NothingLost` speaks of the moments when no call is under way; the
invariant has to say, at every moment, how far each counter is behind what the
calls amount to. A counter is short by the number of threads that have yet to add to it
(`OwingCounter`, `Owing`); the sum by the latencies of those that have yet to
exchange it, written as the size of a set of pairs of a thread and a unit of its
latency (`Units`), so that a step adds or takes one thread's part and no
induction over the threads is needed. Of the count all are kept as samples, up to
`MAX_SAMPLES`, but for those whose threads have yet to store them
(`SamplesTotal`). `PercentileRight`: the sample at index
`ceil(p * n / 100) - 1` of the sorted copy is the nearest rank. That a sorted copy
exists, which `Sorted` chooses, would be shown by induction; instead each sample is
given its rank (how many are smaller, or equal and earlier), ranks are shown to be
one to one, and the copy is the inverse of the rank.

`LabBackupProofs`, for any names and contents, any number of commands and any
losses. Server and client take turns, but not strictly: a rename that gave up
leaves its new name in the queue, shutdowns are sent without an answer, and what
is left over comes before the next command. `IInv` says that

* in the main loop all but the last request is `Idle`, which the loop does nothing
  to the directory for, and the last is `Current`, the one of the command that the
  client is busy with (`RequestsInLoop`), or the content of its small file. So an
  OVERWRITE the loop obeys is the user's word on *this* client's SEND or rename, or
  a content;
* at most one answer is under way, and what it says of the directory is so
  (`AnswersFit`);
* where the server waits and where the client does agree (`PlacesFit`): `accept`
  with the client that has the port or is about to get it, `recv` with the one that
  writes, whose content the connection holds. While the server is busy with a
  content (`Misled`), the client waits for an answer and times out at the latest, so
  that what the content did is never reported as another command's doing.

Proved: `TypeCorrect`, `ReportsTrue`, `AcceptAwaited` and `OnlyAsked`, that is
all that `lab_backup` checks, and `TextIsTakenForNothing`: if every small content
begins with text, nothing is ever misread, and `AcceptAwaited` and `OnlyAsked` hold
without that exception.

*Only model-checked:* all liveness (`EverythingDelivered`, `RecoversFromOne`,
`ServerReturns`, `EveryCallReturns`, `StopReturns`), since liveness under fairness
is out of the prover's reach. Every safety property that a passing run checks, and
both refinements, are theorems.

## 6. Where code and documents disagree

| Run | The code |
|---|---|
| `gbn_lonepacket` | No timer runs when only the packet at `base` is outstanding: its loss is never noticed. `rewrite-plan.md:43` has one timer, for `base`. |
| `gbn_ring` | An ACK that finds the ring full frees no slot; a timeout then resends packets of an earlier window. `gbn.c:266`: "rensend all pkt in window". |
| `sr_twolosses` | A duplicate is acknowledged once more and then never again: when the ACK of a delivered packet and its repetition are lost, the sender repeats it for ever, and the message behind the window is never sent. `rewrite-plan.md:48`: timeouts and retransmission deal with loss. |
| `backup_misread` | The content of a small file, come after the server has given up on it, is executed as a command, and removes a file that the user never named. `RELIABILITY.md:144`: UDP commands are untrusted and undergo "size checks". |
| `backup_selfrename` | Renaming a file to its own name and confirming the overwrite deletes it. `RELIABILITY.md:41`: rename is atomic. (The confirmation has to be there when the server looks for it, as with a delayed server thread or scripted input.) |

Further disagreements are in the models too, and no run is spent on them, since each
is seen in one or two handlers:

* After `READY_FOR_NEW_NAME` the server gives up at once, unanswered, when the new name
  is not there yet (`ConfirmationMissing`). `rewrite-plan.md:125`: stable across
  networks with delays.
* Ports are used once (`LargeFileEnds`): with the eleven ports that Docker maps, the
  twelfth large transfer waits on one that nobody outside can reach.
  `RELIABILITY.md:102` speaks of concurrent transfers.
* A write that fails half-way is acknowledged, and the part stays (`Written`).
  `RELIABILITY.md:29`: "Files are written completely or not at all".
* Removing a file that is not there fails (`handleRemove`, ACK 1). `RELIABILITY.md:15`:
  "Deleting non-existent file returns success".
* A client whose connection breaks (`Drop`) leaves the server's last answer unread; its
  retry takes that for its own and connects where nobody listens.
  `RELIABILITY.md:84`: "client should retry entire upload".
* A file uploaded over HTTP between a rename's check of its new name
  (`TargetChecked`) and the rename is replaced, and gone. `RELIABILITY.md:52-56` lists
  the existence checks as mitigations of races.
* A shutdown before the HTTP server listens does not stop it, and the join waits for
  ever (`early`): `start()` sleeps for 100 ms in place of waiting until it listens.
  `rewrite-plan.md:380`: the server exits normally.

TLC finds a counterexample to each of these documents' claims on instances as small
as those of the runs above.

## 7. Not modelled, and the plan

*Known and left out of the passing runs:* with two clients a datagram of one is
taken for the other's confirmation or content, and the answer goes to the wrong
one (`ReportsAreTrue` fails); with `LateAnswers = TRUE` an answer that comes after
the timeout is taken by the next command; with a window of one `gbn.c` stops
after its first message, because ACK 0 is taken for a damaged one. With
`MayDrop = TRUE` a retry meets the server's last answer (section 6), and what
`backup` checks may fail from there on. After a content was misread all that `backup`
and `lab_backup` check, but the types and the lab's `ReportsAreTrue`, may fail.

*Seen in the code and not stated by a run:*

* `RELIABILITY.md:37` ("Last-write-wins") does not hold for two uploads of one name
  at a time, whose blocks mix; an upload over HTTP is answered 200 even when its
  write failed.
* `success_rate_pct` wraps when there are more failures than sessions
  (`http_server.cpp:487-488`); `by_command` looks up `ls` (`:456`) where
  `server.cpp:200` records `CMD_LS`; `percentile(0)` is the maximum; an average can
  exceed the maximum, because a reader takes the count before the sum; and a
  `reset()` among calls lets the counters of one latency disagree.
* The first lab never stores a small file.

*Left over:* the pure functions, each of which a unit test covers well (validation
and sanitising of names, packing of the list into 3000 bytes, the checksum of the
simulators); the transfer counters, each one atomic addition; and what several
clients that are never in a handler at the same time may still rely on.

*Not planned:* the web page, containers, build and CI (no behaviour of their
own); the logger and the tables of error names; option parsing and signal
handlers of `main.cpp`; the bytes of the messages.
