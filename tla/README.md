# driverKit: specifications, model checking and proofs

driverKit is a Linux kernel module, with libraries and programs for the user's
side, that moves media data between *channels* (encoders, decoders, sockets),
converts it on the way, and lets processes and kernel modules register text
commands that a terminal lists and runs. It is threads, mutexes, reference
counts and file life cycles throughout, and little of that is reached by its
tests, which are programs one runs by hand (`src/usr/test`). This directory
holds TLA+ modules translated from its C and C++ sources, the TLC
configurations that check them on small instances, and TLAPS proofs of what
matters most for every size.

`PROJECT.json` is the index: components, runs, the source lines of each
definition, a mutant for each property, findings, hazards and theorems.

To check: `tlc -config FddBuf_pool.cfg MCFddBuf.tla` (and so on, see the table
of runs), `tlapm FddBufProofs.tla`.

1. [The system](#1-the-system) – 2. [Modules](#2-the-modules) –
3. [Runs](#3-the-runs) – 4. [Findings](#4-findings) – 5. [Proofs](#5-proofs) –
6. [What is not modelled](#6-what-is-not-modelled) – 7. [Plan](#7-plan)

## 1. The system

Data goes from left to right, control from top to bottom:

```
  process --- cp file ------> va_cp ---> vn_chan (ADD_NODE, DEL_NODE)     mt_ca <--- terminal (usr/mt)
  process --- chan file ----> va_chan_base (bind, connect, disconnect)      |
                                  |                                       mt_mgr (commands, views)
  PUT_DATA -> vk_chan --+         v                                         |
                        +--> switch (fdd_port) --> converters (vc) --+    mt_ua <--> library in a process
  socket -> vn_tcp/udp -+    blocks and buffers (fdd_buf)            |
                                                                     v
                             queue (fdd) -> vk_chan GET_DATA      socket
```

### Components

For each: its state, its operations, whom it meets, what is hard, what makes it
correct. (Paths below `src/`.)

**FDD block and buffer manager** (`kern/fdd/fdd_buf.c`, `kern/include/fdd_buf.h`).
State: free list, current block, a reference count and a fill level per block,
headers that point into blocks. Operations: allocate a small buffer
(`FDD_AllocBuf`) or a block of one's own (`FDD_AllocPrivBuf`), trim
(`FDD_TrimBufLen`), hold and clone (`FDD_HoldBuf`, `FDD_CloneTmpBuf`), free.
Callers: every producer and consumer of data, from several threads and from the
receive work of sockets. Hard: the mutex is dropped between looking for a block,
taking one and putting one back; counters are changed outside of it; some
allocations sleep. Correct: a block is never lost, shared by accident or reused
while a header points into it; buffers of a block do not overlap; nobody sleeps
while there is a block for them.

**Queues of a channel** (`kern/fdd/fdd.c`: `FDD_QueueBufSg`, `FDD_SgDequeue`).
State: a list of lists of packets, the list being gathered, two counters, a
limit. Correct: a list is a frame, or is recognised not to be one; the limit
bounds what is kept.

**Kernel channels** (`kern/chan/vk_chan.c`, `vk_file.c`, `vk_venc_chan.c`,
`vk_vdec_chan.c`). A process puts frames in at one end, others poll and get
frames out at the other. State: the packet under construction of a PUT_DATA,
the queue and wait queue of a reader. Hard: a put that fails in the middle of a
frame; channels connected or disconnected between two packets; short buffers;
wakes. Correct: a reader gets whole frames, in order, none twice.

**Switch** (`kern/fdd/fdd_port.c`, `kern/fdd/fdd.c`, `vc/vc_mgr.c`). State: listen
port, conversion tree, ports and their lists of each channel; one mutex for the
connections (`gstFddCb.stMutex`), one per listen port for the data. Operations:
init, listen, connect, disconnect, release of a channel; forwarding. Hard:
conversion trees are made step by step, shared by receivers, and die with their
last child; a release drops the mutex several times and meets connects of the
same channel; the second step of making a conversion may fail. Correct: data of
a channel reaches exactly the channels it is connected to, in their type; no
converter stays without a receiver; no pointer to what was freed; a release ends.

**Converters** (`kern/fdd/vc/*`). State: a stream's sequence numbers, parse state,
and the rest of a packet not yet cut to size. Four of them make RTP, RFC 3984
RTP, program and transport streams of elementary streams. Hard: arithmetic at
the end of packets, frames that arrive with holes, audio between the packets of
a picture, no buffer for a piece. Correct: what comes out can be put together
again and is numbered and marked so that the receiver can.

**Management registry** (`kern/mt/mt_mgr.c`, `mt_ca.c`). State: commands, views,
their counts, a flag per open terminal. Operations: register and remove views
and commands (from kernel modules, from processes through `mt_ua`), the queries
of terminals. Hard: a terminal reads by many ioctls, between any two of which
the registry changes; the flags are set after the change under the lock again.
Correct: counts are right; a terminal at rest shows what is registered.

**Management terminal** (`usr/mt/*`). State: its copy of views and commands, each
view's commands as a tree of items; the line being edited, the history, what it
thinks is on the screen. It loads, polls its flag, loads again; it edits, completes
(TAB), explains (`?`) and executes lines. Hard: the tree is built in the order in
which commands come; matching, helping, completing and executing each have their own
rules, and the kernel (`kern/mt/mt_cmd_proc.c`) takes an executed line apart again by
rules of its own; the screen is drawn by counting. Correct: a loaded command can be
executed, as itself and with the values typed; what TAB and `?` say is so; the screen
shows the line, and nothing typed is lost.

**User agents** (`kern/mt/mt_ua.c`, `usr/lib/mt_usr.c`). State: per agent a lock, the
command being executed, three flags; per thread of its process whether it
executes. A command typed in a terminal is executed by a thread of the process
that registered it; the terminal's kernel thread waits for it with a timeout.
Hard: the agent's lock is held *while its thread is in user space*; timeouts
race with late answers; processes die at any point. Correct: a command is
executed at most once, its parameters stay as long as the callback runs, and
every execution ends.

**Network channels** (`kern/chan/vn_chan.c`) with the **control process** (`kern/comm/va_cp.c`)
and the **core registry** (`kern/comm/va.c`). State: a bit map of the nodes, the table
of channels, the devices and drivers, the callbacks and the file reference of
each socket, the open control files with the process each belongs to. Operations:
ADD_NODE, DEL_NODE, open, close (which releases the process's nodes), load,
unload. Hard: a node is spread over six places that are changed one by one, with
five ways to fail; files are inherited by fork and closed by whoever is last;
four mutexes are taken in three different orders. Correct: a node is whole or
gone, belongs to a process that still has a file, leaves its socket as it was,
and nobody waits for ever.

**Channel manager** (`kern/chan/va_chan_base.c`, `vk_file.c`). State: a table of channels
per type, made and destroyed by the driver of the type, or filled and emptied node by node
(`vn_chan.c`); a reference count per channel; the channel each file is bound to. Hard: no lock from
finding a channel to counting and binding it, and a channel is freed before its entry is cleared.
Correct: a channel has a reference for each that has it and no others.

**Loading** (`kern/comm/va.c` with the init and exit of every part). State: the list of
parts, by level and link order; drivers and devices. Hard: any part may fail,
drivers and devices come and go in either order, programs are there already. Correct:
nothing is used before it is made or after it is gone; what failed is undone.

**File system** (`kern/fs/va_fs.c`). State: registered files, mounts, entries. Files come
and go before, during and after mounts. Correct: a mount shows what is registered.

**Transports** (`vn_tcp.c`, `vn_udp.c`). State: the receive ring with two free-running
indices, a work item; a datagram loop; the header and the iovecs a TCP channel sends with. Hard: packets
across segments and across the end of the ring, bytes that are no header, indices that wrap, two
listeners that send by one channel. Correct: packets are
forwarded as they were sent, once and in order, and there is always room to read on.

**Configuration** (`va_cfg.c`), **displays**, **boards**, **utilities**, **user library and
tests**: see section 6.

### What is hard to test

The 40 hazards of `PROJECT.json` list it line by line; 37 of them are what some property is
for, the others say why no property covers them. The groups: shared blocks (fdd_buf), holes in streams (vk,
fdd queue, vc), connect against release (fdd_port), a copy made by many calls
(mt_mgr, usr/mt), two parsers and a screen drawn by counting (usr/mt, mt_cmd_proc),
timeouts and deaths (mt_ua), partial failure and lock order (vn_chan, va_cp, va), a ring
with wrapping indices (vn_tcp), loading and unloading (va, va_fs, va_chan_base).

## 2. The modules

| module | models | uses |
|---|---|---|
| `FddBuf` | `kern/fdd/fdd_buf.c` | |
| `VkChan` | `kern/chan/vk_chan.c`, queues and forwarding of `kern/fdd/fdd.c` | `FrameStream` |
| `FrameStream` | what a reader of a channel is promised | |
| `FddSwitch` | `kern/fdd/fdd_port.c`, `fdd.c` | `FddConnections` |
| `FddConnections` | what those who connect channels are promised | |
| `MtRegistry` | `kern/mt/mt_mgr.c`, `mt_ca.c` | |
| `MtTerminal` | `usr/mt/mt_main.cpp`, `mt_io_cmd.cpp` | extends `MtRegistry` |
| `MtUa` | `kern/mt/mt_ua.c`, `usr/lib/mt_usr.c` | |
| `VcEs`, `VcRtp`, `VcTs` | the converters as operators | |
| `VcStream` | converters in their port (`vc_mgr.c`, `fdd_port.c`) | extends `VcRtp`, `VcTs` |
| `VnNode` | `kern/chan/vn_chan.c`, `kern/comm/va_cp.c`, `va.c`, tables of `va_chan_base.c` | |
| `VnTcp`, `VnUdp` | `kern/chan/vn_tcp.c`, `vn_udp.c` | |
| `VnRx` | the receiving end of a channel, by either transport | extends `VnTcp`, instance of `VnUdp` |
| `MtToken` | the words and checks of `usr/mt/mt_parse.cpp` and `kern/mt/mt_cmd_proc.c` | |
| `MtItems` | the items of a command on their way to the terminal (`mt_mgr.c`, `usr/lib/mt_usr.c`) | extends `MtToken` |
| `MtTree` | the tree of commands of `mt_parse.cpp`: entering, matching, help, completion | extends `MtToken` |
| `MtCmdProc` | the kernel's list of values (`mt_cmd_proc.c`) | extends `MtToken` |
| `MtParse` | from registration to execution of a line | extends `MtTree`, `MtItems`, `MtCmdProc` |
| `MtInput` | the line editor, history and screen (`usr/mt/mt_input.cpp`) | |
| `MtShell` | the loop of the terminal (`mt_main.cpp`), key by key | extends `MtInput`; `MCMtShell` adds `MtTree` |
| `VaFs` | `kern/fs/va_fs.c` | |
| `VaChan` | port tables and binds of `va_chan_base.c`, `vk_file.c` | |
| `VaCore` | `kern/comm/va.c` and the init and exit of the parts | extends `VaFs`, `VaChan` |
| `MC…` | instances of these for TLC | |
| `…Proofs` | theorems | extend their module |

Conventions. Variables and actions have the names of the code, as far as it has
one. What runs between a lock and its unlock (or a sleep) is one action; what
runs outside of a lock is an action of its own. A helper the code calls is an
operator of the action. Names that end as a sibling's with another body
(`BitKept` beside `BitCleared`) are the mutants of `PROJECT.json`: plausible bugs
that the property named there must notice.

### FddBuf

A block is on `stFreeHead`, or a thread is between two steps of taking it or
giving it back (`pc`, `call`), or has a count `stRef`. A header (`buf[h]`) has a
block, an offset and a length; `ShareBuf` stands for `FDD_HoldBuf` and the clones of
a buffer that share its bytes, `tail` says that the header ends where the block is
filled to. The mutex is not a variable. `AllocFromCurr` is the allocation from the
current block; `AllocFromNew` the one that found too little room there and took a
block, with the case (`fdd_buf.c:159`) that another thread has made a new current
block while this one slept; `WaitCheck` and `WaitAgain` are the two halves of
`wait_event`, `WakeUpAll` runs after the unlock, as the code has it. Temporary
headers live on the stack of `FDD_FwdDirectData`.

`WaitersServed` is about free blocks only: a waiter also sleeps on although
another thread's new current block has room for it. The bytes are not modelled:
`FDD_CloneTmpBuf` of a header keeps none of the bytes it gets room for
(`fdd_buf.c:244`), so data that comes in from the network and is queued for a
reader is not there when it is read; the paths that are modelled end to end go
through `FDD_FwdBufData`.

### VkChan and FrameStream

`PutData`, `PutPkt`, `PutFails`, `QueueBufSg`, `DropPkt`, `Signal` are the steps of
`PUT_DATA`; `GetData` is `GET_DATA`, one action as the list it dequeued is its own;
`Poll`, `PollCheck`, `PollWake` are the poll with its wait queue. A packet is its
header with the frame it came from, which the code does not know. The `setting` is
chosen at the start of a behaviour and stays: the channels there are, the faults, the
limit of the queues, the reader's buffer, the frames. So a property can say for which
of them it holds.

What a reader may rely on depends on them, and the properties say so:
frames whole and in order, each at most once, with one sender and no failing
header allocation (`GotWholeFrames`, `Streams`, which is `FrameStream`); and always,
also in `GotWholeFrames`, runs of packets numbered from 0 up to the one marked as the
last. With a failing header, with two senders, or after a reconnect
(which does not clear `pstSg`), packets of different frames can be joined. All of
them, with one sender, without faults and limit (`NothingLost`). An `ENOMEM` of GET_DATA consumes
the frame. Left out: the VCAP_ENC branch of PUT_DATA (`vk_chan.c:87-105`, no
channel type of that kind is registered), counters that are only displayed, and
faults of the *reader's* memory. One PUT_DATA at a time per channel is assumed:
nothing in the kernel enforces it.

### FddSwitch and FddConnections

A channel names its listen port and the vsw in it; `<<l, r>>` is the port of
receiver r at listener l, converters are `VswId`. `ConnectStart` takes the mutex and makes the port;
`Compare` is one round of the loop over the vsw of the listener; `Decide` says what converters
are needed (`op.make`) when none fits; `CreateVsw` makes the next
of them, `CreateFails` undoes what was made; `Attach` puts the ports of `op.todo` into their
lists one by one, each under the listen port's own mutex. So data that is
forwarded meanwhile, which takes only that mutex, sees every state of the model.
A release is `ReleaseStart`, `TakeListen`, `FreeDisconnect`, `FreeListen`, `NullListen`,
`TakePorts`, `DropPort`, `ClearChan`.

`FddConnections` knows channels and pairs only; `Connects` says that the pairs `Reached` by
following the forwarding lists change just as it says: to connect
or disconnect two channels is of no consequence to others. The registry of converters is open
(`VC_RegVcer`), but only ES→{TS, PS, RTP, 3984} ship; the run adds TS→ES so that
every branch of `FDD_AddToListenPort` is taken. The type of the receiver is read anew in each round
of the loop, when it is decided what to make, and when a converter is made (`fdd_port.c:474, 483, 492, 509,
522`), and `VN_AddNode` may set it up meanwhile, without the mutex (`SetUp`): a receiver that matched nobody
may then get a converter that is there already. What `late` remembers is the types this may
have happened to, and `NoIdleConverter` claims "no type twice" of the others only. Left out: the hash table of listen ports and `stPortCnt` (display).
Assumed: nobody forwards on a channel any more when it is released
(`FDD_FwdBufData` reads `pstListenPort` without a lock, see hazard `fdd.c:640`), and
connects and disconnects come by id through the ioctls.

### MtRegistry and MtTerminal

An action is a section under `gstMtMgr.stLock`. A registrant (`Cbs`) is a kernel
module or a process with `mt_ua` open; a terminal (`Cas`) is a process with `mt_ca`
open. `MT_NotifyCa` is an action of its own, as it takes the lock once more:
between a change and the flags there is a window, in which terminals load. A
terminal's load is one action per ioctl (`GetClCount`, `GetAllViewIds`,
`GetViewInfo`, `GetAllCmdIds`, `GetClInfo`, `RegClInView`), each of which fails when
what it asks for has gone.

Names are abstracted: any registrant's name may be taken (`MayBeTaken`). `MT_GetClInfo` reads
the view of a command after the unlock (`mt_mgr.c:796`); the model lets it get any
id if the command has gone. Left out: QUIT and the terminal's own commands,
`MT_Exit`, failures of the terminal's own `malloc`, and commands that conflict in
the tree of their view (`MtParse` has those). The last two would matter: `Renew() < 0`
(`mt_main.cpp:85`) compares a `bool`, so a renewal that fails is never noticed
and is repeated only at the next change. `InSync` shows that for failures *the registry* causes this does no harm: the
change that made the load fail sets the flag once more.

### MtUa

The manager's lock is `exec.pc # "idle"` (other operations of the registry only wait
for it); the agent's lock `stLock` has a value only while it is held *across*
calls. `ExecBegin` leaves the command (`ulExecId` and `pstCurrEnv`, set and cleared
together, are one variable), `ExecWaited` ends the wait because it finished or
timed out, `ExecClear` takes the agent's lock again and clears. `GetExecParam`,
`GetParam`, `GetFails`, `EndExec` are the ioctls of a thread, between which it runs the callback.
`Kill` may come anywhere; `FreeUa`, `FreeUaFinish`, `UnRegMt`, `FreeEnvs` are what the
last close does. Excluded, as `usr/lib/mt_usr.c` never does it: END_EXEC without
GET_EXEC_PARAM, and registering a command from a callback, which would wait for
the lock its own thread holds (`mt_ua.c:196`). An agent freed while a command is about to
begin costs the caller the whole timeout; that is modelled and harmless.

### VcEs, VcRtp, VcTs and VcStream

The converters are pure operators: state and packet in, new state and a list of
calls to the port out (what walks over pieces, `FillMiddle` and `SumLens`, is a recursive
function, so that the prover can follow it). `VcStream` makes these calls one by one, as other threads use
buffers between them. Lengths are scaled down, with the relations the code
depends on as assumptions (`LensAssumption`, `TsAssumption`): a packet of 7 bytes
gives every rest that 1420 gives. A byte is
`<<kind, frame, place>>`, so that a property can look for each one. Left out: time
stamps and contents of headers (one length stands for all PS headers). RFC 3984
assumes, as the code does, that a frame's first packet contains the start of its
slice. A full buffer never happens, as `FDD_BUF_MIN_RSVD_LEN` is more than a
network packet.

`Decodable`, `NothingLost` and `Framed` (packets are numbered without a gap, `Numbered`, and
the ends of frames are marked, `Marked`) are claimed between two conversions, without memory failure;
after one, only `Packaged` is, which is about the buffer between converter and network:
`VC_ES2Rtp` and its siblings ignore that the port had no
buffer, so a packet may be sent without its header. Other things that are so in
the code, and are in the model: the end of a frame can wait in the buffer of a
TS converter until the next frame comes (`vc_es2ts.c:418-422` returns before the flush of
288 and 301); that the last packets of a frame were lost is not noticed; `VC_CheckEsEncFormat`
refuses I frames in packets of less than 5 bytes, with all that refers to them;
an RFC 3984 P frame whose first packet was lost is sent with the NAL byte and E
bit of the last one.

### VnNode

Agents are the threads that call ioctl, the cp files (for their last close) and the
process that unloads. `lock` has the four mutexes; a section between two lock
operations is an action, named by the place (`At`) it starts at. A socket is
`sk` (its callbacks and `sk_user_data`), `fileRef` (references of the module to its file);
`tainted` marks those an ADD_NODE failed for after it had put its callbacks in
(`vn_chan.c:171-177` does not put them back, so that part of `NodesWhole`, `SocketsRight`, says
nothing of them). `NodesWhole` is claimed while nobody has the mutex of the nodes.
A process is known by its pid, which is reused. Any process may delete any node,
as the code lets it. A socket is given to one node at a time (`Given`): two nodes
of one socket leave each other's callbacks behind. Left out: a callback under way while
its node is released (nothing in the code prevents it, see the hazards), the reference counts of
channels around a release, ids of other types.

### VnTcp and VnUdp

The stream is in three places: `wire` between the hosts, `sock` in the receiving socket,
`ring`. A segment is any part of `wire` (`DataReady`, which queues the work). The work is
`RxWork`, which calls `kernel_recvmsg` once for the room there is, and then `Forward`,
`Skip` or `Wait` for each packet. The indices are added and subtracted modulo `IdxMod`
(2^32), of which the ring's size must be a divisor; the double mapping of the ring is
in `ByteAt`. What a connection that begins in the middle of a packet has left
of it is `Remains`. `VnRx` gives the receiving end one of the two transports.

The sending end is what `VN_TCP_OutPkt` does with the channel's only header and its only pair of iovecs. Each
listener the channel is connected to (`Senders`) forwards with its own mutex held and no other
(`fdd_port.c:138`, `:155`), so two may be in it at a time: `OutPkt` writes the length into the header, two
`Fill` write `iov_base` and `iov_len`, `Send` sends what is there then, and what lies behind a payload that is
shorter than `iov_len` is `Stray`. `mixed` remembers that two have met: the wire may have had anything since.

So in the code and in the model: an empty packet waits for a byte behind it
(`LeftLen <= HdrLen`); the UDP work returns at the first datagram of a stranger, or without bytes, and leaves
the rest until the next one comes: `Forwarded` claims order and that none is left out between others, and
of no datagram that it is forwarded by and by; when the sender's socket takes only part of a packet,
`VN_TCP_OutPkt` counts it and goes on with the next, and the receiver takes the next
packet's header for payload: `Forwarded` claims the stream only where that has not
happened (`cuts = 0`) and no two senders have met (`~mixed`), `RoomLeft` always. It also claims it only where what is skipped, the remains
of a packet and packets of `MaxPkt` bytes and more, has no '$' but the first (`Harmless`): the code
has nothing else to tell where the next packet begins. `Due` is what has to be forwarded: the
packets that are not too long, the datagrams of the remote end that have bytes. Left out: the exit of the TCP transport, which
does not cancel its work where UDP's does (a hazard without a property: nothing in the
code orders the two).

### MtToken, MtItems, MtTree, MtCmdProc and MtParse

A word is a sequence of characters, an item what a command asks for at a place: a
name, a string, a number, a channel, an address. `MtToken` has the checks of both
sides side by side, as they differ: the kernel's are named `MT_…`, as there. `MtTree` is
the tree: a node is known by the items that lead to it, since equal items share one
`CMtEntry` by the cache. `RegFrom` is the recursion of `CMt::RegEntry` over an array of
items with its alternatives, with the marks it changes on its way; `MatchFrom` that of
`MatchCmdLine`. Groups of alternatives are what `MT_GetClInfo` marks in one array.
`MtCmdProc` finds the values a callback asks for by id.

`MtItems` has both routes of registration. A module's items become entries at once
(`EntryOf`: common items are looked up, ranges of strings cut, the name of the registrant put
in); a process writes them into a flat array with marks (`UsrItems`), from which the
kernel puts alternatives together again (`AddUsrItems`); the terminal gets the entries in a second
flat array (`AstItem`), with marks set by other code. The kernel parses with the entries, the
terminal with the array: `RunsAsTyped` compares what comes of it. `DbgCmdLines` are the
commands everyone gets for debug levels. Left out: the sizes of the buffers (8 and 16
KB, of which commands take a fraction), and the type for passwords.

Each of the two programs takes the line apart with its own operator, the terminal at blanks (`GetToken`),
the kernel at any white space (`KGetToken` of the line as it was typed). `RunsAsTyped` therefore says where they agree and how
they differ: a string that is shorter than its item wants, or that has a TAB in it, may be refused by the kernel alone;
a name may be taken for an earlier alternative (`Hides`); nothing else is refused, bound to another item or id, or lost.

`MtParse` puts them in order: commands are loaded in any order and one may be refused,
which clears the view (`GetClInfo`, `Cleared`); words are typed that the tree
accepts so far; in each state of the line the properties ask what Enter, `?` and TAB
would do and what the kernel would make of it. A command with *two* groups of
alternatives is not in the instance: no source registers one, and
`RegEntry` would enter it wrongly (see section 4).

### MtInput and MtShell

`MtInput` is the editor as operators on one record: history, place in it, cursor, and
the row and column of the screen. Every function of `mt_input.cpp` that writes to the screen
does so in the model (`Out`, `Back`, `Cr`, `CrLf`, external: a row of cells), so that
`ScreenShowsLine` compares what is drawn with what is edited. `MtShell` has one action per
key with all that follows up to the next wait: the terminal has one thread. Bound: lines
fit into one row of the screen.

`?` and TAB are typed at any place of a line, and stay in it and in the history when they are not
its last character. A TAB that is drawn takes the cursor to the next stop, but `EraseInput`
counts one column for it: `tabbed` says that one was drawn on the row the cursor is on, and
`ScreenShowsLine` claims nothing of such a row (the code leaves characters behind there, see
section 4). It claims everything again from the next row on. `TypedIsKept` holds with TABs anywhere.

`Arrow` is what `ParseFuncKey` does for the four arrows. For any other function key it calls
`getchar` until nothing is left, or until a `~` comes (`Skipped`): nothing of the editor changes. What it
takes from the keyboard meanwhile, and what stays in the buffer of `getchar` beside the `read` of `GetChar`, are
keys that come later, as parts of other keys, or not at all, which the model has as other keys in its place.

What the parser makes of a line with a TAB in it is a parameter, `GivenBack`, and so are the
commands there may be (`Trees`): the loop needs of it only that it returns the line as it was, or with
something added and a TAB at the end (`ParserAssumption`). `MCMtShell` gives it `ParseInputCmdLine` of
`MtTree` and a tree with one command, so that the run is about the real parser, and TLC evaluates the assumption
for every line of the instance. Any other line comes back as it was entered (`Parsed`). A completion
may make a line longer than `MT_MAX_INPUT_LEN`; `MaxLine` bounds that.

### VaFs, VaChan and VaCore

`VaFs`: the list of files, mounts of the one super block, the names in its root, the files
whose `pstDentry` is set; memory may be short for any entry of a file of `Short`.

`VaChan`: tables, counts, files. A bind has the steps of the code, each open to all others: it
finds the entry of a channel (`BindChan`), counts the channel (`GetChan`), writes the file
(`Bound`). A channel that goes is released and then cleared, one after the other: the board's with its driver
(`DestroyPortTbl`), a node's under `stLock` when ADD_NODE fails (`AddFails`, `Clear`) or by DEL_NODE, which
counts it first (`DelNode`, `ReleaseChan`, `Clear`, `Deleted`). Two things go wrong there in the code, and the
model keeps both: `lost` counts references that a second bind of a file wrote over, which nobody will put, and
`stale` holds the freed channels a bind counted, after which nothing is claimed of them.
`BoundIsLive` says that the count is otherwise exact at every moment, and that the board's channels
are never counted when freed. The board's driver goes first only when the module is unloaded or a load fails:
the reference of the kernel keeps the module while a file is open, and no part that comes after the drivers of
channels can fail. Each driver has one port (`board_xxx.c`), so its channels are seen all at once.
Calls that have a file open keep their channel; `VA_CHAN_Ioctl` and the displays of mt, which find and put a
channel by themselves, are left out.

`VaCore` puts each part into the list where `VA_RegMod` does, in every link order, and
runs its init or exit as the sequence of calls that make or take back things
(`FsMod`, `MtMod`, …, one per source file): files, drivers, devices, types of channels,
commands. Calls that register files or start drivers are actions with their effects, the
others (`Make`, `TakeBack`) add or take a name; those that can fail and whose result the code looks at
may fail (`InitFails`). `Uses` says what a call depends on, which is nowhere written in the
code. In the meantime programs mount, open, bind and close, and add and delete nodes once "cp" takes
their ioctls (`Programs`).
The drivers of TCP and UDP meet the devices of nodes only, which `VnNode` has.

## 3. The runs

`PROJECT.json` has a mutant of a definition for each property here: with it TLC
must find the property violated, so that none holds by the shape of the model.

| run | asks | bounds, and why they are enough |
|---|---|---|
| `FddBuf_pool` | blocks and buffers under every interleaving | 2 threads, 2 blocks, 2 headers, 6 bytes a block, all flags: two threads meet at every step, the pool runs empty, a block is trimmed, shared, current and private. The proofs need no bound |
| `VkChan_frames` | what readers get, and whether a poll returns | four settings: 1 sender and 1 reader, 3 frames of 1 or 3 packets, no faults; the same with failing puts and lists, a limit of 2 and a short buffer; 2 readers with failing holds; 2 senders with reconnects: a frame begun late, cut, cleared at the limit, and the next one |
| `FddSwitch_tree` | trees, releases, refinement of `FddConnections` | 4 channels of 3 types, 2 of them listeners, converters both ways, one less than needed: shared, chained and failing conversions, a listener that is found, and connected, before it is set up, so that the second converter above is made |
| `MtTerminal_load` | copy of the registry | 2 registrants, 1 terminal, ids below 4: any two changes between any two ioctls of a load |
| `MtUa_exec` | executions, timeouts, deaths | 2 agents, 3 threads, 3 commands; the agent that is killed has one thread |
| `MtUa_kill` | *finding*: death with two threads | the same, agent b killed |
| `VcStream_all` | all converters | 3 frames of 5 shapes, 1 audio packet, 1 packet lost or buffer missing: a hole, what depends on it, and a fresh start. `Packaged` is proved without bounds |
| `VnNode_life` | life of nodes, lock order | 3 threads of 2 processes, 2 files, 2 channels, 2 sockets, 1 failing copy: two nodes that compete for a number, a close during an ioctl, an unloading |
| `VnRx_stream` | what the transports forward | ring of 8 bytes, indices modulo 16, packets below 4 bytes, 3 sent by two senders, or 2 if these meet, of which one may be cut; 3 datagrams of 4 hosts, with bytes or without: the ring wraps and fills up, the indices wrap in the third packet, a header lies across the end. Both are proved without bounds |
| `MtParse_lines` | what lines mean, to both parsers | 12 commands with names cut short, of processes and of modules (`mt_test.c`, `mt_video_test.c`, `mt_kern_test.c`, debug levels), of which some conflict and one is not ended, in every order, and lines of up to 4 of 24 words: names that begin alike, strings beside names, as long as they may be, too short and with a TAB before, after and inside, so that the kernel finds fewer words, more, or as many others; two and three alternatives of which one begins another or is a string, every type of item, half channels and addresses |
| `MtShell_keys` | the screen and what was typed | 2 characters, lines of 2 and completed ones of 3, 3 lines of history, prompts of two lengths: every key at every place of a full line, also `?` and TAB inside a line that is then recalled and edited |
| `Va_load` | loading, unloading, binding | 11 parts in every link order (`venc` is like `vdec`, `cfg` like `cp`), every failure, memory short for one file, 2 mounts, a channel of the board and one of a node, 2 files and 2 threads that bind them, 3 references a channel: both threads bind one file or two while the node goes and comes |

Deadlock is checked in `FddSwitch_tree`, `MtTerminal_load`, `MtUa_exec`, `MtParse_lines` and `VnNode_life`. It is
not in `FddBuf_pool` (threads may all wait for blocks nobody frees), `VkChan_frames` (nobody has to
put, frames are bounded), `VcStream_all` (upstream stops after `MaxFrames`), `VnRx_stream` (packets
are bounded), `MtShell_keys` (the terminal ends at "exit"), `Va_load` (a load that failed, an
unloaded module and a fault are ends) and `MtUa_kill` (the violation is that something
waits for ever).

Symmetry is used in `VnNode_life`, for threads of one process and for files; it
checks no liveness.

### Fairness

- `FddBuf`: threads inside of a call are scheduled (WF). Nobody has to free.
- `VkChan`: a call under way and a poll go on (WF).
- `FddSwitch`: WF for the steps of a connect and of a release; SF for a release that waits for the
  mutex (`TakeListen`, `TakePorts`): mutexes serve their waiters in turn.
- `MtTerminal`: system calls that have begun end (`Finishing`, `Loading`); a line ends; `Renew` is
  looked at again and again, as `GetChar` polls for 1000 ms at most.
- `MtUa`: SF for who waits for a lock; the timeout of the wait; callbacks return (WF of
  `EndExec`); the kernel closes the files of the dead.
- `VcStream`, `VnNode`, `VnTcp`, `MtParse`, `MtShell`, `VaCore`: none. Of `VnNode` no liveness is claimed; in its place
  `NoDeadlock` says that there is never a circle of agents that wait for each other,
  and that no agent that has returned has a mutex.

## 4. Findings

One run ends in a violation:

- `MtUa_kill`: if a process dies while one of its threads executes a command and another
  waits in GET_EXEC_PARAM, the second cannot die, the file is not closed, and the
  whole command manager is locked.

Other things that are so in the code were met while modelling it. The models follow
the code in them; no run is kept for each.

Data path:
- A channel whose node is added while it is being connected gets a second converter of the kind its listener has
  already (see FddSwitch in section 2): its type was unknown in the loop (`fdd_port.c:474`) and
  is known when the converter is made (`:509`, `:522`). The second one works, and dies with its receiver.
- A temporary header that was redirected into a block keeps the TEMP flag
  (`fdd_buf.c:246`), is cloned again by the next port, and its reference is never given back.
- GET_DATA returns 0 and no frame when a list has none (`vk_chan.c:199`).
- RFC 3984 video has the payload type of audio once audio came (`vc_es2_3984.c:272`).
- A TCP sender whose socket is full counts a packet sent in part both as an error and as
  sent, and leaves its peer with a stream out of step (`vn_tcp.c:97-137`).
- Two listeners that forward to one TCP channel at a time share its header, its iovecs and its `stTxMsgHdr`
  (`vn_tcp.c:111-126`): a packet goes out with the other's length or payload, twice, or with what lies behind
  it in memory.
- A datagram without bytes, as one of a stranger, ends the receive work of UDP (`vn_udp.c:36`): the datagrams behind it wait
  until another arrives.

Terminal:
- `RegEntry` unmarks items for good while it enters a group of alternatives, so that a
  command with two groups would be entered wrongly (`mt_parse.cpp:1319`).
- Who is capable of just one level of debug messages registers an array of one alternative, which
  `MT_FillUserArrItem` never marks as ended (`mt_mgr.c:713-740`); the terminal refuses it
  (`mt_parse.cpp:1292`), and with that the whole view. The modules of the repository have none or several.
- The kernel takes the first alternative that begins with the word, the terminal prefers
  the whole name, and a name to a string: with alternatives of which one begins another, or is a string, they differ.
- A string has a least length in the kernel only (`mt_cmd_proc.c:527`): the terminal executes a line that the kernel refuses.
  No command of the repository wants more than one character.
- `CheckPartChan` counts digits from the start of the word: a channel id of more than three
  digits in all cannot be typed, though ports go to 31 and channels to 255
  (`va_chan_base_mt.c:202-203`).
- `?` or TAB inside a line are part of the line, which is then refused or executed. For the kernel a TAB ends a word
  (`mt_cmd_proc.c:476`), for the terminal it does not (`mt_parse.cpp:87`): a string with a TAB in it is refused as too
  many words, or loses the TAB, or the words go to other items.
- A TAB inside a line stays in it and in the history. When the line is drawn, the TAB fills several columns; it is
  erased, and the cursor taken back, as if it filled one (`mt_input.cpp:167-194`, `263-279`): until the next row
  characters stay behind and the cursor is in the wrong place.
- Of the keys that send `ESC [` and are no arrows only those that end in `~` are skipped: after Home (`ESC [ H`) the terminal
  spins until a `~` is typed, since the end of the input is neither 0 nor `~` (`mt_input.cpp:217-229`). `getchar` reads ahead of
  the `read` of `GetChar`: keys typed right behind a function key are held back until the next one, and may then be dropped.
- Ctrl+C on a recalled line clears the line in the history; so does editing change it.
- One command that conflicts clears the whole view (`mt_io_cmd.cpp:197`): the terminal does not
  start, or after a renewal has "exit" and "quit" only; "quit" in the root view then
  sets a null view.
- "exit" typed and not entered leaves the terminal after a second.
- With "cb" and "cbc" registered, "c" is refused by `?` though "c" and Enter may execute "cb".
- A completed line may exceed `MT_MAX_INPUT_LEN`, which the kernel then refuses.

Loading:
- A file that no entry could be made of is not in the list, and `VA_FS_UnRegFile` takes it out
  of the list all the same: a fault (`oops` in `VaCore`). What `VA_FS_RegFile` returns is
  ignored by every caller.
- A load that fails while the file system is mounted leaves the mount behind.
- When `FDD_InstInit` fails, the driver of the memory device stays registered.
- A driver whose init failed is kept ("fix me", `va.c:101`).
- `VA_CHAN_DestroyPortTbl` clears `pstPortTbl + i` instead of `pstPorts + i` (`va_chan_base.c:426`);
  a port table that grows is copied with the new length (`:338`).
- Two binds of one file at a time both succeed; one reference is lost.
- A bind that found a node's channel (`va_chan_base.c:105`) before ADD_NODE failed or DEL_NODE freed it (`:195`, with
  the entry still there) counts it and binds the file to freed memory (`:106`).

## 5. Proofs

Eight modules, some 23800 obligations, all checked. They assume the named assumptions of the modules (finite
sets, sizes that fit, distinct names, `IndexAssumption` of `VnNode`) and nothing else; `TypeOK` of
these modules is a theorem or proved on the way.

**FddBufProofs** – for any threads, blocks, headers and sizes: `TypeCorrect`,
`CountsCorrect` (`RefsCounted`), `NoBlockLost` (`BlocksConserved`), `FreeBlocksUnused`
(`NoUseAfterFree`). The counts alone are not inductive: that a count is right when a
header goes depends on where blocks *without* a count may be. The invariant is
`TypeInv` (`TypeOK` and what a thread in a call has in its hands) and `RefInv`:
`RefsCounted`, `PlaceInv` (a block is on the free list, or counted, or in the hands
of just one thread, and of these only one at a time) and `NumInv` (the length of the list).
`BuffersApart` (`BufsDisjoint`) rests on these and `SpaceInv`: behind a buffer that may be trimmed
there is no other, which is why its trimming can move the free offset back, and it is never in the
current block, from which others are carved meanwhile; a block whose private buffer is about to be carved
starts at 0. That nobody else moves the offset of such a block is `PlaceInv` once more.

**VkChanProofs** – for any channels, rooms, lengths, settings, faults and limits: `FramesAreWhole`
(`GotWholeFrames`), `FramesInOrder` (`Streams`, the refinement of `FrameStream`), `NoFrameIsLost`
(`NothingLost`), `QueuesAreCounted`, `QueuesAreBounded`, `ChannelTypes` (`TypeOK`). What stops the loop
of GET_DATA is found as the least index (`ResultIsRun`).

- `ConnInv`: without reconnects all packets go to the same channels, so a receiver sees of a call
  only that it begins, ends, goes to the next packet or stays (`Phases`).
- `ChainInv` is what `WholeFrame` needs of the lists: each packet is a first one, or follows the packet before
  it in the same frame, and what is gathered ends with the packet before the one to come
  (`LastFits`). A list may still hold pieces of several frames; a run numbered from 0 is inside one of them. A packet
  that is dropped because a list cannot be had keeps this, one that is dropped
  for want of a header does not.
- `OrderInv`: what was got, the lists queued and the one being gathered have ever later frames,
  those queued none that is still `Open`. It holds whatever is dropped.
- `LosslessInv`: the frames whose last packet is known were got or are queued, each once, in order
  and `Complete`, and what is gathered is the part of the next with room for the rest. That a frame
  fits needs sums of lengths for lists of any length: `SumsExist`, `SumsAgree`, `TotIsSum`.
- `CountInv`: what a queue says of itself, its length and its bytes, is what the lists on it come to,
  also when lists are dropped from its front and the one gathered goes to its end in one step
  (`BytesCut`, `BytesAppend`, `BecomesCounted`). With reconnects and faults too, unlike the first three.
- `BoundInv`: with a limit, lists are dropped until the bytes queued are within it, or none is left
  (`TrimRange`), and only then is one added, whose bytes were within the limit before its last packet.
  So a list has at most the limit and `MaxPktLen`, a queue twice the limit and `MaxPktLen`, which is reached:
  the setting bounds a queue, but not at what it says.
- `NumberedInv`, `ReaderInv`: no list has a packet of a frame beyond the last one put, and what readers and
  connections are; with the counts this is `TypeOK`.

**FddSwitchProofs** – for any channels, types, converters and any memory for them: all safety
of the switch. `PairsAlwaysAgree`, `NeverStalePort`: the two lists of a port differ while it is being
connected, and a channel's listen port is taken away in four steps; so `OpInv` says what a
connect under way relies on and has done, `RelInv` how far a release is. `TreeIsSound`,
`DataIsConverted`, `SwitchConnects` rest on `TreeInv`:

- `CountInv`, `ListInv`: a reference per port that hangs in a converter, one of whoever is making
  it, two of a listen port for its own; every converter is on the list of one listener and hangs in `ParentOf`, the base
  port or, for that one, the listener; a converter on a list has a reference.
- `StreamInv`: a converter takes what its parent makes, a receiver gets its own type, the base port makes the
  base type, and a listener makes no type twice but those that came `late`.
- `ConnInv`: a connect under way has one of the shapes `Looking` (what was compared does not fit, unless the
  type came late), `Making` (nothing attached yet), `JoinOld`,
  `JoinOne`, `JoinTwo` (0, 1 or 2 new converters and what is left to attach). The order of attaching
  (the port before its converter, the converter before the base port) is why no step makes a pair
  reachable before the last one, which is the step the refinement maps to `Connect`.

`DyingChain` says what a released port takes along: nothing, its converter, or that and the base
port, and no other receiver's. `AttachCases` and `CreateCases` go through the shapes; `BelowIsPairs`
turns `Below`, three generations deep, into the pairs of the abstract specification, and
`ConnectionsStep` maps every step to a step of `FddConnections` or to none.

**MtTerminalProofs** – for any registrants, terminals and bound on ids:
`TypesKept`, `CountsAlwaysRight`, `IdsAlwaysFit`, `AlwaysInSync`. `RegInv` (ids are
unique, a command is in the view of its registrant, every view has an owner that
has registered it) makes the counts inductive. `LoadInv` says of every step of a
load what the terminal has by then, *unless it is dirty*: every change makes every
terminal dirty, only a renewal, which starts from nothing, ends that.

The same module proves of `MtShell`, for any characters, prompts, lines, histories and parser as
`ParserAssumption` wants it: `ScreenIsRight` (`ScreenShowsLine`, so on rows without a TAB), `TypedIsNeverLost`
(`TypedIsKept`, TABs anywhere). The invariant is `Fit`, the editor's indices in range and the row and the column as
they should be when every character has one column, and that the lines there are were typed. Keys draw only a part: the lemmas say what the screen shows
after each piece (`Drawn`, `Echoed`), and that erasing, which counts from the prompt and the
line, leaves nothing as long as nothing is behind what it counts (`Within`, `EraseClears`). A
character that is put into the middle erases when the line is already one longer than what is
shown (`InsertEdits`, `AppendEdits`); when the line ends behind it, it is written alone (`EchoDraws`).

**MtUaProofs** – for any agents, threads and commands: `TypesAlwaysRight`,
`ParamsAlwaysLive`, `TakenAtMostOnce`, `NothingFreedInUse`. `LockInv` ties the lock
that is held across calls to the thread that executes, or was killed at it; `EnvInv`
ties the agent's command to the kernel thread that waits; `OnceInv` says why a
command that was taken cannot be taken again; `FileInv` what is freed when.

**VnProofs**, of `VnNode` – for any threads, processes, files, sockets and channel ids: `NodesAreOwned`,
`NodesAreWhole`, `NoDeadlockHolds`, all from the invariant `VnInv` (`VnInvHolds`). `LockInv` says
from where an agent is which mutexes it has (`Has`), `AloneInv` who is by itself (a close has
its file, the unloading the module). `OwnedInv` is stronger than `NodesOwned` in that it holds
in the middle of a close: the scan has yet to come to every node that only it will release
(`OwnerOf`). `BitInv`, `DevInv`, `RefInv` and `SkInv` are `NodesWhole` with what an ADD_NODE or a release
under way has done so far. No circle of mutexes closes (`NoCircle`): who has one only needs a
later one in the order cp or instance, vn, core (`LaterNeeds`), and the unloading, which goes against
it, is alone (`ExitAlone`). `IndexAssumption` (every index below `TotChanNum` is some channel's) is what `Before`, a
sum by a fold over the boards, comes to; TLC evaluates it on the instance.

**VnProofs**, of `VnRx`, `VnTcp` and `VnUdp` – for every ring, limit of a packet, width of the indices and payloads: `AlwaysRoom`
(`TypeOK` and `RoomLeft`, for any stream of bytes) and `AllIsForwarded` (`AllForwarded`). Adding and taking away
distances below the ring's size never passes the other index; the receiver waits only
when what it has is shorter than a packet that fits, which is why there is room. What is on the
way is `Rest`, the bytes of ring, socket and wire as one sequence: a segment that arrives and a read
leave it as it is (`RestArrives`, `RestRead`; what is sent is the packet of the one who sends by `TxInv`), since indices less than a ring apart are at
different places of it, also when they wrap (`PlacesApart`); a packet that is sent is put behind it, and the
receiver takes bytes from its front. `StreamInv` says that there is a number of packets that are done
with: what was forwarded is what was due of them (`Taken`), and the others lie one behind the other in
`Rest` (`Lies`), with nothing before them that looks like a header. What the receiver takes for a header is
then that of the next packet (`FirstPacket`), which is forwarded whole or, when it is too long,
skipped byte by byte. `DatagramInv` says the same of the datagrams, whose socket is a queue.

**VcStreamProofs** – for every length of packets, headers, fragments and buffers, any converters, frames
and faults: `PacketsAreWhole` (`Packaged`). What a converter does to the buffer of a port depends on the calls
it makes later, which are data: a conversion returns a sequence of calls, and losses and buffers not to be had come between
them. `Paced` says what is needed of such a sequence: there is a bound on what is held before and after each of its
calls, which no call exceeds, an RTP packet begins with nothing held, and a flush leaves nothing. Sequences that are
`Paced` can be put behind each other (`PacedBoth`, `PacedFlat`) and cut at the front (`PacedTail`), which is a
step of the port. Each converter is shown to return one: the pieces of `VC_ES2Rtp`, the headers of a
program stream and the fragments of RFC 3984 fit into a network packet and flush each
(`RtpPaced`, `PsPaced`, `Paced3984`); a transport stream gathers TS packets across conversions, from
what its stream counts in `outLen` before to what it counts after (`TsPaced`, from `Underway`, which
each of the `VC_Es2Ts...` functions keeps). `StreamInv` then says that a buffer never holds more
than the calls to come count on: a call that fails for want of memory only leaves less in it, and
so does a flush that the port skips. (That the model sends no frame after one for which there was no
buffer, a bound, is not used.) It also says what the packets of upstream are (`PktFacts`), as RFC 3984 looks
for start codes in the first one. Recursion (`FlattenSeq`, `SumLens`, `FillMiddle`) is dealt with
by the least place at which a claim fails (`LeastOf`).

**VaCoreProofs** – for any parts that include those `kern/Makefile` always links, any link order,
point of failure, files, mounts, channels and threads: `ShownWhileLoading` (`FilesShown`; and
`AlwaysShown`, for the file system by itself in whatever order files come and go),
`ServicesAlwaysUp`, `DevicesStartOnce`, `AllIsUndone`, `BoundChannelsLive`: all safety of `VaCore`
and `VaChan`. Nothing in the program says which things are there at a moment; the proof has to:

- `PartsFit`: every thing has one owner and one place in its init and its exit, and an exit takes back
  what the init made, but for types of channels. `Placed` is all the proof needs of the levels.
- `LoadInv`: what a part has left to do is the end of its init or exit (`TodoInv`), the list is in the
  order of the levels (`OrderInv`, `PlaceFits` for `RegMod`), and exactly what `Standing` tells from the
  place in the list is made (`UpInv`), but for what an exit leaves behind by intention or by
  mistake (`Sure`: types, and the driver of fdd after `FDD_InstInit` failed). `ServicesUp`
  is then about levels: what a call uses belongs to a lower level, or is made earlier in the same part.
- `StartedOnce` is inductive with `NotYet`: nothing is made that is there.
- `RefInv`: a channel has a reference for its table until it is released, for each file, each bind that has
  counted it and a deletion that has, and more only if crossing binds lost some. It is inductive because a table
  is only made of channels without any (`FreshInv`: its driver was not there), because a channel is
  taken back by one at a time (`BusyInv`), and because a bind that has found a channel of the board counts it before it can be
  released (`LookInv`). With `QuietInv` (`VA_Exit` runs when nobody has a file open, and nobody can open one then) and `NodeInv` (no
  nodes in a load that fails) it leaves no channel to the end.

Only model-checked: all liveness (`WaitersServed`, `PollReturns`, `ReleaseEnds`,
`Converges`, `ExecEnds`, `FreeEnds`: fairness and ENABLED are out of the prover's
reach), `Decodable`, `NothingLost` and `Framed` of `VcStream` (what every byte of every frame becomes), `MtParse` (folds and recursion over data), that the parser meets
`ParserAssumption` (on the instance), and what is named above as not proved.

## 6. What is not modelled

- **Data**: bytes of buffers (but for the converters, which have names for each), texts of
  commands and views, time stamps, statistics.
- **Memory of the kernel**: failures of `kmalloc` in `mt_mgr.c`, `mt_ua.c` and faults of
  user memory there; leaks between modules (hazard `vk_chan.c:128`).
- **Channel manager** (`va_chan_base.c`): a table that grows while it is used, the ioctls of
  CONNECT and DISCONNECT (`FddSwitch` has what they call).
- **Transports**: the exit of TCP against its work; the datagrams UDP sends.
- **Commands**: printing of results and debug output; upper and lower case and
  hexadecimal numbers, which both sides treat alike; lines longer than a row of the
  screen, and the columns of one with a TAB; what the terminal swallows after a function key. Command files are compiled out (`MT_FILE_CL_SUPPORT` is defined nowhere).
- **Configuration**: its one ioctl, which copies the numbers of a board's channels out and changes nothing.
- **`va_proc_fs.c`** (chosen instead of `va_fs.c` when building), **displays**, **boards**,
  **utilities**, **compatibility library and tests**: formatting, tables and thin wrappers,
  with little state. The displays read the switch without its lock.

Seen while reading, in parts that are not modelled:
`vc_es2ts.c:687` does not free the rest of an audio packet; `fdd_port.c:251-287` does
not free the buffer a converter fills; `VC_RTP_PT_AUDIO` (160) does not fit into seven
bits; an audio-only transport stream has no tables unless its format is not known.

## 7. Plan

Done first: what everything else stands on (blocks, queues, switch), then the
parts with several processes (manager, terminal, agents), converters, nodes; then
the transports, command lines, loading, files and binds.

Every safety property of the runs is proved but for those of the parser and what `VcStream`
claims of single bytes and of whole streams (`Decodable`, `NothingLost`, `Framed`). Of the latter, `Numbered` is the nearest:
`Paced` would have to count packets besides room.

Of the code, what section 6 names: the ioctls of the channel manager would join `VaCore`,
the exit of TCP `VnNode`. New questions join runs that ask
similar ones, so that the table of section 3 stays one a reader can keep in mind.
