# Verification of the Computer-Networking-Labs programs

TLA+ models of the programs in this repository, TLC runs that check them on
small instances, and TLAPS proofs of the results that hold for every instance.
The repository holds three course assignments: a file server (Assignment 1), a
reliable transfer protocol in two versions (Assignment 2), and distance-vector
routing in two versions (Assignment 3). All of them are modelled; section 5
says what of them is not.

## 1. The system

### Assignment 1: MYFTP (`src/Assignment 1`)

A file server with one thread per connection, and an interactive client.

| | |
|---|---|
| State | server: per connection connected / authenticated, the shared `filedir/`; client: `connected`, `authenticated`, one socket |
| Operations | OPEN, AUTH, LIST, GET, PUT, QUIT; file contents as 1024-byte DATA messages |
| Interaction | request and reply over one TCP connection, in lock step; threads share the directory and nothing else |
| Hard | two threads on one file, a peer that disconnects in the middle of a transfer, messages that TCP joins, client flags that survive a failed login |
| Correct when | no file command is served before AUTH; what GET delivers is the content some PUT or the initial directory gave the file; client and server agree on whose turn it is; what one client does never ends the server |

### Assignment 2: RTP (`src/Assignment 2`)

One file transfer over UDP, as two programs each: `src/` acknowledges
cumulatively, `opt_src/` acknowledges every packet (selective repeat).

| Part | State | Operations |
|---|---|---|
| `sender.c` | - | connect, send the file's bytes, close |
| `rtp_connect`, `rtp_sendto` | `winStart`, `i`; in `opt_src/` also `rcb->ack_record` | START, windows of DATA, collecting ACKs until a 500 ms timeout, END |
| `rtp_listen`, `rtp_recvfrom` | `rcb->seq`, `seq`, `end_seq`, `total_len` | accept START; accept, drop, record and acknowledge packets of one chunk |
| `receiver.c` | `ack_record`, `buffer`, the file | call `rtp_recvfrom` until it returns 0, write each chunk |
| UDP | datagrams in flight | lose, repeat, reorder, corrupt |
| `util.c` | a table | CRC-32 of a packet |

Sender and receiver share no memory (each process has its own `rcb`); they
interact through datagrams only. Inside the receiver process, however,
`rtp_recvfrom` and the loop of `receiver()` share `ack_record`: the first uses
it as "was this packet received", the second as "how long is this packet", and
its slots are reused every `MAX_WINDOW` packets.

Hard: every combination of loss, repetition, reordering, corruption and early
timeouts; a window and a chunk buffer of different sizes that both move; the
last packet, which is shorter or empty; END, which both ends the chunk and
causes it to be written. Correct when nothing the sender forgets is missing at
the receiver, the file is always a prefix of the message and whole at the end,
and the transfer ends under the faults the test-case document lists
(`testcase/测试用例详解.docx`, quoted below by paragraph).

### Assignment 3: distance-vector routing (`src/Assignment 3`)

Router processes and one agent that drives them (`AutoTest/Handin/...`), and
an earlier attempt with persistent connections (`attemp/`).

| | |
|---|---|
| State | router: `costTable`, `routers[].dv`, `routers[].neighbour`, `nextHop`, `dvCount`; the listen queue |
| Operations | on a neighbour's vector: store it, `UpdateDV`, `SendDV` if something changed; on the agent's DV, UPDATE, SHOW, RESET, QUIT; in `attemp/` also the set-up of all connections before the first command |
| Interaction | one TCP connection per message; a router handles one message at a time and connects to its neighbours in order while handling it |
| Hard | vectors in flight while links change, count to infinity (costs above 1000 are no route), full listen queues, routers that end because a neighbour has, or because it does not listen yet |
| Correct when | after the last update and enough messages the vectors are the shortest paths of the topology and next hops lead there |

The hazards of all three, with the line where each bites, are in
`PROJECT.json`.

## 2. Modules

| Module | Models | Kind |
|---|---|---|
| `RtpNet` | the UDP sockets between the RTP programs | external environment |
| `Rtp` | what both RTP programs share: handshake, receiver loop, chunk writing, properties | component |
| `RtpGbn` | `src/`: windows, cumulative ACKs | component |
| `RtpSr` | `opt_src/`: per-packet ACKs, sender's `ack_record` | component |
| `FileTransfer` | what a transfer promises | abstract specification |
| `RtpInv` | the inductive invariant of both programs, the step either may do, the refinement mapping to `FileTransfer` | invariant |
| `RtpGbnInv`, `RtpSrInv` | what cumulative, selective ACKs add to it | invariant |
| `RtpSafety` | the proofs about both programs: types and channels; `IInv` is inductive; `FileInv` is, and the refinement | proofs |
| `RtpGbnProofs`, `RtpSrProofs` | what follows for each program, and that nothing acknowledged is lost | proofs |
| `DvRouter` | the handed-in routers and their agent | component |
| `DvRouterInv` | what routes rest on; what neighbours were told | invariant |
| `DvRouterProofs` | their safety, and the exactness of settled routes, for every topology | proofs |
| `DvConnect` | the earlier attempt's connections, from start to quit | component |
| `DvConnectProofs` | their safety for every set of links | proofs |
| `Ftp` | MYFTP's server threads and clients | component |
| `FtpInv` | connection by connection: what keeps blocks in their places, what a client is told of its login, requests and replies in lock step, what an only client's transfers leave | invariant |
| `FtpProofs`, `FtpPlaces`, `FtpTurns` | login and life of the server; the blocks of its files, and whole files; the conversation of a client and its thread; for any number of clients, whole files for one | proofs |
| `MCRtpGbn`, `MCRtpSr`, `MCDvRouter`, `MCDvConnect`, `MCFtp` | instances for TLC | model checking |

`RtpGbn` and `RtpSr` extend `Rtp`, which extends `RtpNet`; the other components
are separate programs and share nothing with them.

A wrong variant of an operator (`MoveWindowFar`, `KeepRecord`, `SendToFirst`,
...) stands before it. It is a plausible slip in that line of the code;
`PROJECT.json` records which property notices it.

### RTP: state and steps

`spc` is where the sender process is: `connect`, `await_start` (in
`rtp_connect`'s `rtp_recvstatus`), `send` (the `for` loop over the window),
`collect` (from `CLEAR_BUFF` on), `await_end`, `done`, `failed`. `rpc` is where
the receiver process is: `listen`, `recv` (in the loop of `rtp_recvfrom`),
`write` (in the loop of `receiver()`), `done`, `failed`. The other variables are
the program's own: `winStart`, `next` (`i`), `base` (`rcb->seq` at the call,
then `*seq_begin`), `seq`, `endSeq` (`end_seq`), `total` (`total_len`, then
`recv_bytes`), `rec` (`ack_record`), `buf` (`buffer`), `wpos` and `wrote`
(`seq` and `total_bytes` of the writing loop), `file`; in `RtpSr` also
`ackRecord` (`rcb->ack_record` of the sender). `toReceiver` and `toSender` are
the datagrams in flight.

Bytes are not modelled. The content of packet *i* is the "piece" *i*; lengths
are kept, because `ack_record` stores lengths and the empty last packet has
length 0. The value `Stale` is a place of the chunk buffer nothing was copied
to. `Message` is the sequence of the non-empty pieces with their lengths, and
the file is compared with it.

One action per system call or loop round that another process can observe:
`SendOne` or `SendOrSkip` (one round of the window loop), `CollectAck` and
`EndRound` (one `rtp_recvstatus`: ACK, or timeout / wrong checksum),
`AcceptData`, `AcceptEnd` and `DropPacket` (one round of `rtp_recvfrom`, with
everything the round does, including the ACK), `ReturnChunk`, `WriteOne`,
`NextChunk`. `while(ack_record[seq % MAX_WINDOW]) seq++` is part of the
accepting step (`FirstGap`); when it would run for ever the step is never
completed.

`rtp_recvstatus` has three outcomes (`TimesOut`, `GetsCorrupt`, `GetsAck`). With
`Timely = FALSE` a timeout may happen at any time, also while an answer is on
its way; with `Timely = TRUE` only when no answer can come any more (the
situation of the test-case document, which injects one fault at a time and does
not test delay, paragraphs 12 and 13).

After END the receiver closes the socket, so the next `recvfrom` fails and
`rtp_recvfrom` returns 0: `NextChunk` goes to `done`. `rtp_recvfrom` also
returns 0 when the chunk has no bytes (`ReturnChunk`).

`ack_record` of `receiver()` is a local array nobody initialises. `RtpInit` lets
each slot hold any member of `StackGarbage`; `{0}` is the state a fresh stack
page gives, and `{0, 1}` what optimised builds were seen to leave.

The network: a channel is a sequence of at most `RcvBuf` datagrams; what is sent
to a full channel is dropped, as a full receive buffer does. `Losable`,
`Duplicable` and `Corruptible` name the kinds of datagram each fault may hit and
`Reorders` says whether datagrams overtake each other. There is no bound on the
number of faults. A corrupted datagram is one whose checksum the recipient finds
wrong; that CRC-32 detects it is assumed.

### Routers (handed in): state and steps

`cost[r]`, `nbr[r]`, `vec[r]`, `nextHop[r]` are router *r*'s row of `costTable`,
the `neighbour` flags, the `dv` of every `routers[s]` (`vec[r][r]` is
`myRouter->dv`) and `nextHop`. `queue[r]` is the listen queue: every message has
a connection of its own, so the order of the queue is the order in which
messages are handled, and a vector and its link are not tied together.
`up` are the routers that run and listen, `started` those that have come to
listen, and the history variable `missed` says that somebody connected to one
that had not. `sending[r]` is what is left of `SendDV`'s loop; while it is not
empty the router accepts nothing. `agent`, `job`, `issued`, `last` are the agent: what it
waits for, which routers it has still to connect to for the present command,
the commands given, and the last that changes anything.

At first nobody listens. `Start` is a router's way from `main` to `listen`
(`router.cpp:37-63`); routers start in any order, and the user may give commands
before all have, as nothing in the programs waits for them. A connection to a
router that does not listen yet is refused like one to a router that ended, and
`SendDV`'s -1 then ends the router that called (84, 199, 242).

One action per message of the accept loop (`HandleVector`, `HandleDv`,
`HandleUpdate`, `HandleShow`, `HandleReset`, `HandleQuit`), per neighbour of
`SendDV` (`SendToNext`, `SendRefused`), per command and per connection of the
agent. `connect` and the `send` that follows it are one step: nothing reads the
connection before its turn in the queue. `connect` blocks while the queue is
full (`CanConnect`) and is refused when nobody listens. `UpdateDV` is the
operator of that name: its two loops, written as the choice of the first
cheapest valid way; `LoopResult` has the inner loop round by round, and
`VectorsAreCurrent` compares the two in every state.

`dvCount` is counted and reset but never read, and is left out. An UPDATE whose
two ends are the same router is not among the inputs. With `Patient = TRUE` the
user gives the next command when the routers have settled, as `test.py` does by
sleeping `WAIT_TIME` for each router after every command (line 258).

### Routers (earlier attempt): state and steps

A router of `attemp/` first accepts the agent, then connects to its neighbours
with a higher index and accepts those with a lower one; every connection is kept.
`pc[r]` is how far it is, `agentfd[r]` and `routerfd[r]` are the descriptors,
named by who called, `queue[r]` the callers waiting, `told` how many routers the
agent has connected to. `RAC_CONN` and `IRC_CONN` are both 0 (`common.h:25`, `:32`), so
a router that calls early enough is taken for the agent: `AcceptAgent` takes
whoever is first. `orderly` is chosen at the start: TRUE is a start in which the
routers run before the agent and let it connect to all of them first. The listen
queue (20) is never full, as there are at most 15 routers.

### MYFTP: state and steps

`th[k]` is the thread of connection *k*: where it is (`recv`, sending or
receiving file data), `authenticated`, and `last`, the message buffer as `recv`
left it - its result is not looked at, so at the end of the stream the request
before is handled once more (`Request`). `cl[c]` is a client: the prompt or the
reply it waits for, `connected`, `authenticated`, its socket, its own files.
`toSrv`, `toCli` are the two directions of a connection; `closed` the connections
whose client end is closed and `reset` those on which a message met a closed end,
after which the next `send` raises SIGPIPE. `filedir` is shared by all threads;
`login` is a history variable.

One action per request a thread handles, per block of a file it sends or stores,
per command, per reply. A file is a sequence of blocks named by who wrote them and
where they stood, so that a block in the wrong place, or of the wrong file, shows.
A block is what stdio passes on at once (4096 bytes), not a DATA message.

Undefined behaviour is a choice: the refusal of a command without login is a text
sent from an uninitialised message, whose type may be a stale PUT_REPLY
(`HandleRefused`), and `data_message` of `recv_file_data` is whatever the stack
holds when the client is gone before the first block (`RecvNothing`).
`HandleUnknown` leaves a thread that ended without closing its socket.

`Unwritable` are the names the server's `fopen(directory, "wb")` cannot open: one
in a directory that does not exist (`put sub/x`), or a file without permission.
The server then exits, for all its clients (`OpenForPutFails`,
`myftpserver.c:187`, `:204-207`), and does so too for the directory itself, which
is what is left of the name of a put whose client is gone. `FailedPut` says that
some user's put was of such a name. A client whose server ended during a download
writes its last block again and again (`DownloadNothing`); `CutShort` names that
file. `badopen` is `open` with a wrong address: the client ends (`OpenRefused`),
also while the server runs.

GET sends
its reply and the first data message one second apart and the client reads with
one `recv`; `Punctual = FALSE` allows the client to be later than that.

## 3. Runs

| Run | Question | Answer |
|---|---|---|
| `gbn_faults` | does `src/` lose, mix or repeat data under any faults (START not repeated)? | no: `AckedIsHeld`, `FileIsPrefix`, `WholeFileOrNone`, `EndMeansAllHeld`, `FileInv`, and it implements `FileTransfer` |
| `gbn_fifo` | ... when the last packet is empty and END is alone in a chunk? can the sender's window move back without reordering? | no (`WholeFileOrNone`); no (`WindowNeverSlidesBack`) |
| `gbn_live` | does it recover lost and corrupted DATA? | yes (`Delivered`) |
| `gbn_acklost` | does it recover a lost ACK of DATA (paragraph 7)? | **no**: livelock |
| `sr_faults` | the question of `gbn_faults` for `opt_src/` | no data mixed or truncated: `FileInv` (which has `FileIsPrefix` in it), `WholeFileOrNone`, `ImplementsTransfer` |
| `sr_live` | does it skip only what the receiver has, and recover lost, corrupted, reordered DATA? | yes (`AckedIsHeld`, `Delivered`) |
| `dv_race` | three routers that start in any order, in a line, a link that goes down, DV and QUIT at any moment, queues that fill: are routes explained, no distance too short, nobody ended? does the exchange end? | yes: `RoutesExplained`, `NoPhantomRoute`; `NobodyEndsUnasked`: unless somebody was called before it listened; `SettlesOrCircle`: unless routers wait for each other in a circle of full queues |
| `dv_live` | a triangle, links that go down and change, a patient user, every command: are the settled vectors the shortest paths? do the exchanges end? | yes, unless somebody was called before it listened: `SettledIsExact`, `QuitEndsAll`; in any case `VectorsAreCurrent`, `Settles` |
| `dv_connect` | four routers: does the start work, and does quit end all? | yes, if the agent connects first: `OrderlyStartIsSafe`, `LinkEndsMatch`, `EveryoneGetsReady`, `QuitEndsAll` |
| `ftp_two` | two clients, a file both use and one the server cannot open, punctual, not killed: do requests and blocks stay in order? | yes: `NoWrongHeader` while the server runs, `ServerSurvives` but for a put of the file it cannot open, `BlocksInPlace` but for a download this cuts short |
| `ftp_any` | one client that reopens, is late, is refused, is killed, and puts what the server cannot open: does a file command ever pass without login, when does the client forget its login, what ends the server, what is damaged? | `NoFileWithoutLogin`, `ClientKnowsLogin`, `ServerEndsOnlyByLoss`, `MisplacedOnlyByLoss`, `TransfersExact`, `CommandsEnd` hold |
| `ftp_badlogin` | does the server survive a refused login? | **no**: the second refusal answered to a closed socket ends it for all |

What the properties say is with each of them in the modules. The deepest:

- `AckedIsHeld`: packets the sender will not send again, and packets an ACK in
  flight speaks for, lie in the receiver's buffer or stand at their place in
  the file. It relates both processes and everything in between.
- `ImplementsTransfer`: every step is a step of `FileTransfer` or changes
  nothing the user sees; in particular a piece is never appended after the
  receiver ended, and it ends only with all of the file or none.
- `NoPhantomRoute`: in whatever order vectors and updates arrive, and however
  stale the vectors are, no router has, says or hears a distance below `Floor`.
- `SettledIsExact`: the answer files in `AutoTest/Test/TestCases` expect the
  shortest paths after every DV; here for every order of messages and every
  sequence of updates, against a reference definition.
- `NoFileWithoutLogin`: a client keeps its own `authenticated` when it opens a
  second connection, and asks; the server's thread must know better.

### What the models show besides

Each of these takes the constants of a run with the change given; TLC then
finds the property violated. They are not runs of their own.

| Change | Property | What happens |
|---|---|---|
| `gbn_live`, `Losable = Corruptible = {}`, `Reorders = TRUE` | `Delivered` | reordered ACKs (paragraph 10) move the window back below the receiver's, which never acknowledges that: livelock |
| `gbn_fifo`, `StackGarbage = {0, 1}` | `WholeFileOrNone` | slots that are not zero at first count as packets received |
| `gbn_live`, `MsgLen = 3`, `Losable = {"START_ACK"}` | `Delivered` | the sender gives up and says END once (paragraph 8), without waiting for its answer |
| `sr_live`, `Duplicable = {"DATA_ACK"}` | `AckedIsHeld` | a repeated ACK (paragraph 11) marks the slot of a later packet, which is never sent |
| `sr_live`, `Corruptible = {"DATA_ACK"}` | `AckedIsHeld` | a damaged ACK ends the round early, a packet is sent and acknowledged twice, and the late ACK marks the slot of a packet `MAX_WINDOW` further on |
| `sr_live`, `MsgLen = 6` | `Delivered` | an empty last packet that comes early is acknowledged but not recorded; the receiver waits for ever |
| `dv_live`, `Patient = FALSE`, `MaxCommands = 2`, DV and QUIT only | `QuitEndsAll` | a router that ended is refused to its neighbours and to the agent, which ends before it has told the others |
| `dv_race`, `Backlog = 2` or `3` | `NoConnectCircle` | routers connect to each other's full queues and wait for ever; the code's queue is 20 long, so it takes an impatient user whose vectors do not fit in it. `SettlesOrCircle` says that nothing else keeps the exchange from ending |
| `dv_race`, DV only | `up = started` as an invariant | a DV given before all routers listen: the vector for a neighbour that has not started is refused, and the router ends, then the others as they connect to it (`router.cpp:84`, `:199`, `:242`); the harness starts the agent after the routers and waits for none of them |
| `ftp_any` | `ClientKnowsLogin` without its last condition | `open` resets `connected` but not `authenticated` (`myftpclient.c:220`): the client asks on the new connection and is refused |
| `ftp_two` | `server` as an invariant | `put` of a name the server cannot open ends it for every client (`myftpserver.c:204-207`); another client reads its old reply once more |

The two cases about the selective ACKs need a message of more than `MAX_WINDOW`
(500) packets. In `Ftp` four ways to be stuck are part of `CommandsEnd`
(`Stuck`): after a refused login the client's socket is closed but `connected`
stays, so AUTH and QUIT loop in `send` (`myftpclient.c:342`); a download from a
server that is gone writes the same block for ever; a client so late that it
reads from the middle of a message waits for the rest of it; a thread that ended
over an unknown message leaves its socket open. The command `exit` of Assignment 1's
README is none the client knows (`myftpclient.c:473`).

Deadlock is not checked: the programs terminate, or wait for input; a receiver
whose END is lost waits for ever (listed as a hazard; nothing in the code or the
document claims otherwise).

### Bounds and why they are enough

RTP: the constants are small but shaped like the real ones (`MAX_WINDOW` >
`TOTAL_PACKET`, several chunks per message, windows both smaller and larger than
a chunk, a short or an empty last packet). Messages are of four to eight packets
in chunks of two to four, so that slots of both `ack_record`s are used again;
that the results do not depend on these numbers is what the proofs are for. No
counter needs a cap: the window is bounded by the message and `seq` by the END
that ends the receiver. Only the channels (`RcvBuf`) and the message (`MsgLen`)
bound the state space. `MaxPacket` is the code's `MAX_PACKET`, a number no packet
reaches.

Routers: three, in a line or a triangle, so that there is a router without a
direct link, a way around, and, once link 0-1 is lost in the line, the counting
up of two routers that believe each other; `MaxCost` is 5 instead of 1000, which
only shortens it. `MaxCommands` bounds the user. `Backlog` is 2 in `dv_race`, so
that the few vectors of its commands fill a queue, as many do in one of 20 (with
3 the run passes too), and 4 in `dv_live`, whose user waits. What
holds for every value is proved. Connections: the kite has routers with two lower
neighbours, two higher, and one of each.

MYFTP: two clients are two threads on one file; two blocks of a file are a block
in the middle and one at the end; two connections of one client are enough for a
flag to survive. One of the two files of `ftp_two`, and of the three of
`ftp_any`, cannot be opened by the server (`Unwritable`). `MaxOpens`, `MaxCommands` and `MaxBlocks` bound connections,
commands and the length a file can get when a block is written again and again.

### Fairness

RTP: `WF` of the sender and of the receiver process: they are ordinary processes
whose calls return (select has a timeout, recvfrom returns when a datagram is
there). `SF` of accepting packet *i*, for each *i*: a packet that is sent again
and again, and that the receiver could accept each time, arrives at some point;
without it the network could lose everything for ever. Nothing is assumed of
ACKs.

Routers: `WF` of the agent and of every router that runs; users need not start a
router, nor give a command.
In `DvConnect` the processes are also started, each at some point. MYFTP: `WF` of
every thread and of every client's reaction to a reply; users need do nothing. A
blocked call is a disabled action, so `WF` promises it nothing.

## 4. Proofs

### RTP

| Theorem | In | Assumes | Says |
|---|---|---|---|
| `TypeCorrect` | `RtpGbnProofs`, `RtpSrProofs` | - | `Spec => []TypeOK` |
| `FileInvariantHolds` | both | `CleanStack`, `StartNotDuplicated` | `Spec => []FileInv` |
| `FileIsAlwaysPrefix` | both | the same | `Spec => []FileIsPrefix` |
| `DoneMeansWhole` | both | the same | `Spec => []WholeFileOrNone` |
| `TransferImplemented` | both | the same | `Spec => ImplementsTransfer` |
| `EndOnlyWhenAllHeld` | `RtpGbnProofs` | the same | `Spec => []EndMeansAllHeld` |
| `AckedPacketsAreHeld` | `RtpGbnProofs` | the same | `Spec => []AckedIsHeld` |
| `WindowAdvances` | `RtpGbnProofs` | the same, `Fifo` | `Spec => WindowNeverSlidesBack` |
| `AckedPacketsAreHeld` | `RtpSrProofs` | `CleanStack`, `RoundsEndEmpty`, `WindowFits` | `Spec => []AckedIsHeld` |

They hold for every message, packet, window and chunk size allowed by
`RtpAssumption`, and for every loss, reordering, corruption and repetition,
except the cases the assumptions name, in which the property really fails:
`CleanStack` (the first `ack_record` is zero), `StartNotDuplicated` (the receiver
would take a second START for packet 0), `Fifo` for the window (no datagram
overtakes another or is repeated) and, for the selective ACKs,
`RoundsEndEmpty` (no timeout beats an answer, nothing is repeated, no ACK
damaged) and `WindowFits` (the window is not larger than `ack_record`).

**Both programs at once.** `RtpInv` describes `EitherStep`, a step that leaves
open which packets of the window are sent, what number an ACK has and how far it
moves the window. The shared proofs are about `EitherStep`; `GbnStep` and
`SrStep` show that each program's steps are such steps. So whatever reaches the
file does not depend on the ACKs at all: a wrong ACK can stop a transfer and
never spoil it.

**`IInv`.** `FileIsPrefix` is not inductive: it says nothing of datagrams on
their way, nor of a slot of `ack_record` in the middle of the chunk. `IInv` adds:
what may be in flight in either direction (`RequestsSound`, `AnswersSound`); a
set slot belongs to exactly one packet of the chunk, which is where the buffer
has it (`SlotsSound`); no gap below `seq` (`ChunkFilled`); START in flight at
most once, and none once it was accepted (`StartOnce`); END's number is the
message's end, unless the sender gave up (`EndSound`). The heart of the
induction is `GapInChunk`: the search for the next gap stops inside the chunk,
because slots of one chunk are distinct (`SlotsDistinct`, arithmetic of `%`) and
the slot after the chunk's last packet is empty as `MAX_WINDOW` >
`TOTAL_PACKET`. There is one lemma per action.

**`FileInv`.** The receiver never compares packet numbers when it writes: it
stops when `total_bytes` reaches the `recv_bytes` that `rtp_recvfrom` counted as
packets arrived in any order. So the invariant says that `total` is the bytes of
the packets `ack_record` holds (`TotalSound`; a repeated packet must not count
twice), that the writing loop's position and its byte count agree
(`WriteSound`), and that the file is the message up to the chunk or up to that
position (`FileSound`). `ChunkComplete` joins them: when `rtp_recvfrom` returns,
what is recorded is exactly the packets from `base` below `seq`, so `total` is
the difference of two offsets in the message, and the loop ends at `seq` (or
before an empty last packet) and nowhere else. `DoneWhole` says that a connected
receiver ends past the message. The refinement follows: `WriteOne` is `Deliver`,
the steps to `done` and `failed` are `Close`, every other step leaves the file
alone.

**`GbnInv`** adds for the cumulative ACKs that an ACK in flight, and the window,
promise no more than `seq`. **`FifoInv`** adds what holds while datagrams keep
their order: the numbers of the ACKs in flight only grow (`AnswersInOrder`) and
none is below the window (`AnswersAhead`), though the receiver, told a packet
again, repeats its last ACK. **`SrInv`** adds for the selective ones that a slot
of the sender's `ack_record` that is set stands for one packet of the window
(`MarksInWindow`), which the receiver has or will find empty (`AckedGot`), and
that in a round a packet, or its ACK, is in flight once, unmarked and within the
window (`FlightSound`, `NoneTwice`). The window slides over marked slots only
(`RecordAckEffect`), so it passes nothing that is in flight, and a cleared slot
is free for the packet `MAX_WINDOW` further on.

### Routers

| Theorem | In | Says |
|---|---|---|
| `TypeCorrect` | `DvRouterProofs` | `Spec => []TypeOK`: every next hop is a router |
| `NobodyEnds` | `DvRouterProofs` | `Spec => []NobodyEndsUnasked`: a router ends over QUIT, or after somebody was called before it listened (`missed`) |
| `RoutesAreExplained` | `DvRouterProofs` | `Spec => []RoutesExplained` |
| `NoPhantom` | `DvRouterProofs` | `Spec => []NoPhantomRoute` |
| `VectorsCurrent` | `DvRouterProofs` | `Spec => []VectorsAreCurrent` |
| `DvInvariance` | `DvRouterProofs` | `Spec => []DvInv` |
| `SettledExact` | `DvRouterProofs` | `Spec => []SettledIsExact`: likewise unless `missed` |
| `TypeCorrect` | `DvConnectProofs` | `Spec => []TypeOK` |
| `OrderlyStart` | `DvConnectProofs` | `Spec => []OrderlyStartIsSafe` |
| `LinksMatch` | `DvConnectProofs` | `Spec => []LinkEndsMatch` |

`DvRouter`'s use `DvAssumption` (what a topology file gives) and
`FloorAssumption`: `Floor` may be any table consistent with every cost a link
ever has, so in particular the cheapest paths over the cheapest costs. The
invariant: the neighbour flags are the valid costs (`Neighbours`); messages in
queues and in the agent's job are genuine, and a QUIT among them means the user
said so (`Mail`, `Jobs`); every stored vector is above `Floor` (`Sound`). `UpdateDV`
keeps the last because a way is a link plus what the neighbour said, which is
what `FloorAssumption` bounds, however old that is. That the cheapest way exists
uses `LeastNat`. For `NobodyEnds`: routers start in any order, and a connection
is refused by a router that ended or has not come to listen. The second sets
`missed`, and while neither that nor QUIT has happened all that started are up,
so nobody is refused and nobody ends; the other theorems need no such condition,
`SettledExact` apart.

**`DvInv`** (`DvRouterInv`) leads from there to `SettledIsExact`, for every network,
costs, updates and length of the queues, and for a user who waits for nothing.
It has three parts.

- *The vector is what the tables give* (`Current`). `ChosenWay` says which way
  `UpdateDV`'s loop ends with; `LoopIsChosenWay` shows it, by following the loop:
  after each round the way kept is the chosen one of those seen so far
  (`RoundChooses`), also while no way seen is valid. With that, `Current` is
  `VectorsAreCurrent`. It holds in every state, because whatever changes a
  row, a neighbour or a stored vector ends in `UpdateDV`.
- *Who was told what* (`Told`). After a DV command, if nobody was called before it
  listened (a router that ended, or was not there, is not told), take a link from
  *s* to *r*.
  Either *s* is still to be told DV, or to connect to *r*, or the last vector of
  *s* that waits at *r* - or, if none waits, the one *r* has stored - agrees with
  what *s* has now, up to entries that are no route on both sides (`Differ`).
  That exception is needed: `UpdateDV` sends nothing when only such entries
  change. UPDATE changes a vector and sends nothing, and makes a new neighbour
  who was never told; so the invariant also says that behind each UPDATE waits a
  DV (`UpdatesFirst`), which is the case as one agent gives both. No router
  hears of itself (`NoOwnVector`).
- *At rest, that leaves one solution.* With nothing on its way, what *r* stores of
  *s* is what *s* has, so the distances are a solution of the equations of
  shortest paths (`AtRest`). They are not longer than any path of *k* links
  (`RestNotLonger`, on *k*), as far as `MAX_COST` goes. And they are not shorter
  (`RestNotShorter`): every link costs something, so the next hop is nearer to the
  target; the number of routers that are nearer (`Nearer`) falls along the route,
  and the route has at most `N - 1` links.

The induction theorems of the library need an operator as parameter. In their
place a least counterexample is taken (`LeastBad`), which the provers can follow;
`LoopRounds` and `WithinRounds` show that the two recursive functions satisfy
their equations. TLC checked `DvInv` on the two routers' runs, and on a line and a
triangle with an impatient user, before it was proved.

`DvConnect`'s need `ConnectAssumption` only. The invariant follows each call from
the caller's loop through the queue to the table of the called: a router stands
where its loop is (`Stages`), is in a queue only if it called (`Calls`), once
(`OneCall`), and what is taken for a link is that link's call (`KnownLinks`).
`InOrder` says of an orderly start that nobody has gone on before the agent has
connected to all. Without it a router may be taken for the agent (the message
"Connection from Agent established", `router.cpp:290`, is then wrong).

### MYFTP

| Theorem | In | Assumes | Says |
|---|---|---|---|
| `TypeCorrect` | `FtpProofs` | - | `Spec => []TypeOK` |
| `LoginNeeded` | `FtpProofs` | - | `Spec => []NoFileWithoutLogin` |
| `ServerEndsByLoss` | `FtpProofs` | - | `Spec => []ServerEndsOnlyByLoss`: only a client that left without QUIT, or the put of a file it cannot open |
| `MisplacedByLoss` | `FtpPlaces` | - | `Spec => []MisplacedOnlyByLoss` |
| `EveryBlockInPlace` | `FtpPlaces` | `~Kills` | `Spec => []BlocksInPlace`: but for a download the end of the server cuts short (`CutShort`) |
| `TransfersAreExact` | `FtpPlaces` | `OneClient` | `Spec => []TransfersExact` |
| `LoginKnown` | `FtpTurns` | - | `Spec => []ClientKnowsLogin`: on a first connection, or where the right password was sent |
| `HeadersRight` | `FtpTurns` | `Careful` | `Spec => []NoWrongHeader`: while the server runs |
| `ServerLives` | `FtpTurns` | `Careful` | `Spec => []ServerSurvives`: but for the put of a file it cannot open (`FailedPut`) |

All else is `FtpAssumption`: any number of clients, connections and files, and,
without an assumption of its own, clients that are killed at any moment. A refusal takes a login back, so the
invariant must know that when a client reads a refusal nothing it asked before
is still being answered: AUTH is the last request on its way and its reply the
last reply (`AuthInStep`); a connection outside a login has no file data on its
way and no good password either (`LoginFirst`). `Sockets` says whose connection
is whose, `Threads` that a thread that goes on has not read QUIT. For the third
theorem, `PutsKnown`: a thread that receives a file was asked for one that has a
name. If the server cannot open it, either that is a file nobody could write
(`FailedPut`), or the name is the directory's, which only a request handled once
more, after the client left, can have.

**`PlaceInv`** (`FtpInv`). A block has no number on the wire; what puts it at its
place is only that the messages before it were the blocks before it. So the
invariant follows one conversation: the blocks on their way continue what the
other end has (`Numbered`, in `Uploads` for a put, `Follows` for a get), and a
count says how far: the client's position is what the thread took plus what is
on its way. It is lost when a message is taken for one of another transfer, and
that is what the other parts exclude: at the prompt nothing but left-over file
data is on its way (`Quiet`), a request is the last thing sent and has one reply
at most (`Awaits`), it is for the file the client waits for (`Asked`), and a
thread leaves a put before the client may ask again (`Ended`). The client may
reopen (`Opens`), fail to open its file and leave a download in the socket, or
be refused; the same facts hold. Only a thread whose client was killed in the
middle of a put writes its last block again and again (`Runaway`); the files it
may spoil, on the server and then wherever they are fetched, are `Spoilt`, and
the invariant speaks of all others. Without kills `Finishing` says that every
thread in a put has its end on its way, and `Spoilt` is empty. A client's own
file may have its last block again and again where the server ended before the
download did (`CutShort`), for whatever reason that was. `MisplacedByLoss`
and `EveryBlockInPlace` both come from this one invariant.

**`ExactInv`** (`FtpInv`), for `OneClient`: one client, while it is on its first
connection and was not lost. Blocks in their places may still be blocks of two
files, or too few; this invariant adds whose file it is and how much of it. Of a
put the thread has the first blocks of somebody's file (`Part`), what is on its
way goes on with that same file (`Carries`), and either its end is on its way
too or the client still has the rest (`Stores`); of a get the same holds the
other way round (`Fetches`). Every other file is whole (`Rests`), which is why
the next transfer starts from a whole file. A put cut short would leave a part:
`Leaves` and `NoPut` say that a thread whose client's end is closed has no PUT
to handle any more, and that a client goes on while its thread does. The client
may give any command, be refused, ask for what is not there, or be unable to
open its file. `PlaceInv` supplies that data is never taken for that of another
transfer. The hypothesis is needed: while a second client stores the same file
two puts mix in it, and each of its blocks is still in its place.

**`LoginTold`** (`FtpInv`), for all clients: they may reopen, give wrong
passwords, leave the arguments of `open` or `auth` out, be late and be killed. The
client's `authenticated` and the thread's are two flags set by one message each
way, so the invariant says what is between them: an answer to AUTH on its way says
what the thread decided (`Says`), and where a client is not waiting for one, what
it believes is so (`Agrees`) - on its first connection, or on one where it sent the
right password (`Told`; `open` keeps the flag of the connection before). A usage
error only makes the client forget, which is why `Agrees` goes one way. That needs
AUTH to be answered once (`AuthInStep` again) and the thread to be there: while the
server runs it has ended, or will, only for a client that said QUIT or was killed
(`Leaving`); the client of a refused login keeps `connected` and a closed socket,
and its thread is not logged in (`LoginFirst`).

**`LockStep`** (`FtpInv`), for clients that are `Careful`: one connection each,
right addresses, passwords and arguments, files they can write themselves, in time
and not killed; what they put may be what the server cannot open, and the
invariant holds while it runs. It says who has the word: a client that waits has a
request last on its way to a thread that reads requests, or will when it has come
to the end of a put (`Unanswered`), or the reply of that kind first on its way
back (`Answered`); a download is the rest of a file that ends with END
(`Streams`); an upload meets a thread that takes it. A thread has ended only when
its client has read the reply to QUIT, or is about to, so nothing is ever sent to
a closed socket, and `StepServes` finds one step only that ends the server: that
of a thread that opens a file of `Unwritable` for a client that is logged in.
Every limit of `Careful` is needed, as TLC shows: a second connection breaks both
properties; a late client reads two messages as one; a file that cannot be
written leaves a download in the socket; a refused client, a killed one, one that
ended over a wrong address, and one whose usage message made it forget that it is
connected, leave a thread without its client, which ends the server. So is `server` in
`NoWrongHeader`: once it is gone, a careful client reads its old reply again.

### Only model-checked

All liveness (`Delivered`, `Settles`, `SettlesOrCircle`, `QuitEndsAll`,
`EveryoneGetsReady`, `CommandsEnd`): the prover has no fairness. That no circle of
full queues forms (`NoConnectCircle`) is neither run nor proved: an impatient user
can make one, and `SettlesOrCircle` only says that there is no other obstacle.

## 5. Not modelled

- CRC-32 itself (`util.c`): RTP only relies on a damaged packet being noticed.
- The exchange of vectors of the earlier attempt (its `select` loop, UPDATE with
  a link made anew, RESET): the handed-in program replaced it.
- Routers: a `socket`, `bind` or `listen` that fails, which ends a router that
  then is as one never started.
- MYFTP: accept, thread creation and start-up of the server, its password file
  and listing beyond their outcome, and the memory layout behind stale buffers
  beyond the choices named above.
- Arguments and the input file of sender and receiver; errors of `sendto` and
  `recvfrom` that make them exit; wrap-around of 32-bit sequence numbers (a
  message would need 2^32 packets); connections that time out (ETIMEDOUT).
- Templates, the test harness, build output and data: no logic of the system.
  The harness and its answer files are read as statements of what is expected.

## 6. Plan

1. RTP (done): both programs, their refinement of `FileTransfer`, what is
   acknowledged.
2. Routers and agent, both versions (done but for the earlier attempt's exchange
   of vectors, which could share `UpdateDV` with `DvRouter`).
3. MYFTP (done).
4. `Crc`: the table algorithm against its bitwise definition, on small words.
