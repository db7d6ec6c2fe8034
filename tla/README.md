# Hydra microkernel: specification and verification

TLA+ models of the kernel's core, its two servers, its network driver, its libraries
and the programs linked with them, the TLC runs that check them on small instances,
and theorems that TLAPS checks for every value of the constants. Every definition is
translated from the C source; `PROJECT.json` maps each to the lines it models.

## 1. The system

Hydra is a small RISC-V kernel for one hart. It is **cooperative**: interrupts
are never enabled (`kernal/main.c:58-60`) and the trap vector is never set
(`kernal/sched.c:57-61`), so a flow of control runs until it calls `task_yield`.
What happens between two yields is one atomic step, and that is the grain of all
models. Tasks share nothing but the kernel: they talk through messages.

| component | state | operations | who calls it |
|---|---|---|---|
| scheduler, `kernal/sched.c`, `switch_riscv.s` | task table, `current_task`, `num_tasks`, one saved context per task | `create_task`, `task_yield`, exit | boot, every task |
| message passing, `kernal/ipc.c` | free list of message structs, one queue per pid | `send_message`, `recv_message` | system calls of every task |
| heap, `kernal/mm.c` | list of blocks inside the heap, bytes allocated | `kmalloc`, `kfree` | `ipc_init`, libc, libhydra |
| bullet server, `server/bullet.c` | table of migrations | migrate, query, loop turn | clients, through messages |
| network server, `server/net_srv.c` | table of sockets with receive rings | seven socket commands, loop turn, packet routing | clients, through messages |
| network driver, `kernal/net_driver.c` | packet pool, receive queue, counters | interrupt, send, receive, free | network server, libnet, console |
| libnet, `lib/libnet` | table of socket descriptors | BSD calls, packet functions | applications |
| libhydra, `lib/libhydra` | none of its own | wrappers of messages and tasks, capabilities | applications |
| libc, `lib/libc`, and `kernal/printk.c` | none that lasts | strings, conversions, formats, `malloc` over `kmalloc` | applications, kernel |
| applications, `apps`, and the console of `kernal/main.c` | none that lasts | library test, image server, UDP broadcast, commands | kmain |
| timer and traps, UART, printk, boot | device registers, a ring of characters | | not running, or output only |

How they interact: `sched_init` makes three idle tasks, `kmain` makes the two
servers (pids 3 and 4) and then yields in a loop. A client function sends a message
to a server's pid and receives; a server's loop receives one message, handles it,
replies with a message, and yields. All messages come from one pool of 64 structs
(`MAX_MESSAGES`, `ipc.h`) that `ipc_init` took from the heap. The network server
polls the driver's receive queue once per turn.

What is hard here:

- **identity of flows**: a context switch that saves to or loads from the wrong
  slot makes one flow run under two pids. The boot flow has no slot of its own
  and shares slot 0 with the first idle task;
- **fairness** of the search for the next task while tasks come and go;
- **pointer structures shared by all**: one `next` field links a struct into the
  free list or a queue; block headers of the heap stay readable after merging,
  until a caller's bytes or another header are written over them;
- **a pool at its limit**: requests and replies compete for the same slots;
- **receiving does not wait** and takes mail of any sender: a client cannot tell
  which call an answer belongs to;
- **text through two interpreters**: libc formats and printk formats again;
- **sizes** that are checked without the 4-byte prefix, rounding that overflows;
- **stale names**: socket slots, request ids and headers that are used again.

`PROJECT.json` lists each hazard at its line with the properties that watch it.

## 2. Modules

| module | models | notes |
|---|---|---|
| `Sched` | scheduler and exit | flows, slots and the CPU |
| `SchedProofs` | | five theorems about `Sched` |
| `Mailboxes` | what send and receive do to mailboxes and pool | a value and operators on it |
| `IPC` | what the message calls promise | abstract specification over `Mailboxes` |
| `IPCLists` | `kernal/ipc.c` with its linked lists | `ImplementsIPC` is the refinement |
| `IPCAudit` | the status functions of `ipc.c` | their checks of the lists, over `IPCLists` |
| `IPCListsProofs` | | invariants of `IPCLists`, that it implements `IPC`, and that `IPCAudit` finds nothing |
| `Heap` | `kernal/mm.c`, the allocation functions of `lib/libc/stdlib.c` | headers by address |
| `HeapProofs` | | seven theorems about `Heap` |
| `ServerClients` | tasks that use servers, over `Mailboxes` | shared by both servers |
| `Bullet` | `server/bullet.c` | extends `ServerClients` |
| `NetServer` | `server/net_srv.c` | extends `ServerClients` |
| `Hydra` | both servers and their clients over one pool | instances of `Bullet` and `NetServer` |
| `OrderProofs` | | lemmas on what mailboxes may hold, and on what clients and a server do to the requests and answers between them |
| `BulletProofs`, `NetServerProofs` | | types, ids and order of answers of the two servers, the rings of the second |
| `HydraProofs` | | the order of answers with both servers on one pool |
| `NetDriver` | receive side of the driver and its users in libnet | |
| `Libnet` | `lib/libnet/socket.c` | a call is an operator from a system to the system it leaves |
| `Strings` | the functions of `lib/libc/string.c` that write | on one memory |
| `Programs` | tasks that use sockets, packets and strings, the applications, console commands | over `Libnet`, `Strings` and an instance of `NetDriver` |
| `LibrariesProofs` | | six theorems about `Programs` (sockets, mailboxes, strings, packets) and four about `Libraries` (libc) |
| `Libc` | conversions and formats of `lib/libc`, `kernal/printk.c`, the addresses of `socket.c` | operators on values; loops are recursive functions |
| `Libraries` | `Programs`, and beside it single calls of libc | what the runs check |
| `LibHydra` | the message functions of `lib/libhydra` | over `Mailboxes`; only sizes count |
| `MC*` | | instances for TLC, with the requests the clients make |

The layers rest on each other: `Sched` shows that a pid always names the same
flow (`FlowIdentity`) and that every task gets its turn (`NoStarvation`), which
is what `sender_pid` and the fairness of the servers stand on; `IPCLists`
implements `IPC`, whose state the servers use as a value.

A definition whose name extends another's after an underscore and a lower-case
description of a bug (`Distance_from_zero`) is a mutant of it. No specification
uses it: it is there to show that a property notices that bug.

### Correspondence with the code

- **Sched.** `state`, `context`, `current_task`, `num_tasks` are the C
  variables; a context is abstracted to the flow it resumes, `KMAIN` for the one
  that boots. `cpu` is the flow being executed. `waits` is history. The loop of
  `schedule` is the relation `IsNext`: the READY slot at the least distance. The
  early return for one task is the case of no READY slot.
- **IPCLists.** `next`, `mem`, `free_messages`, `head`, `tail`, `count` are the
  pointers and fields, slot numbers stand for addresses and 0 for null; `lists`
  is history, the sequence each list should hold. The payload is a value of
  `Data`. `kmalloc` may fail at boot, so the number of slots is any up to
  `MAX_MESSAGES`.
- **IPCAudit.** `FreeCount` and `ActualCount` walk the lists as
  `ipc_debug_status` and `ipc_log_queue_status` do, with the limit of the latter
  (five more than the count).
- **Heap.** `hdr` maps addresses to the headers that are intact there. What the
  loops of `kmalloc` and `kfree` come to is `Visited`, the least set of headers that
  has the first one and, with a header, the one its `next` names; a search stops at
  the first hit, so nothing behind it is visited. A header is dropped (`Overwritten`)
  as soon as one of its bytes is handed out, for it is then the caller's data, or
  lies under a header that a split writes: headers are longer than the alignment, so
  two may overlap. `live` and `freed` are history: the blocks callers own, and
  those given back of whose header no byte was handed out since. `kfree_twice` is
  enabled where the header of a block given back is intact. `malloc`, `calloc` and
  `free` of libc are `kmalloc` and `kfree`; `realloc`, which takes the new block
  before it frees the old one, is an action.
- **ServerClients, Bullet, NetServer.** One action per client call and per turn
  of a server's loop (`serve` with a message, `idle_turn` without). A client
  function sends and receives in one step; its three tries cannot differ, for
  nothing runs between them. `post` and `collect` are the system calls made
  directly. Requests carry the size they are sent with, so the size checks of
  the servers decide as in the code. The first word of a request is the pid the
  servers answer to, and they trust it (`bullet.c:154`, `net_srv.c:330`): every
  client function writes its own there, and so does every task of the model.
  `asked`, `answer` and `owed` are history.
- **NetServer.** Addresses and ports are stored but never read and are left out.
  Bytes come in cells of `CELL`; rings, messages and reads are multiples of it. The
  length of `net_send` is cast to 16 bits before it is compared (`TooLong`).
- **LibHydra.** `send_request` stands for every service function: it sends the
  whole struct and receives when the send succeeded. `refused` is history.
- **NetDriver.** The counters are only printed and are left out. The handler
  runs between calls; **nothing calls it in this build**, which leaves the queue
  and the rings of `NetServer` empty. The runs with packets show what the code
  does once interrupts are on.
- **Libnet.** A record `n` holds the descriptor table, the mailboxes and the last
  result. Ports and addresses are stored and read by nothing, and are left out.
- **Libc.** A character is a string of length one. `Junk` is whatever an undefined
  read finds: the digits of a negative number in base 16 are looked up before
  their table. A format comes with arguments that agree with its directives, and no
  string is null. printk's loop for digits (`Buf`) is not libc's (`Numeral`). `int`
  is as wide as `INT_MAX` says and wraps.
- **Strings.** `mem` is one memory of two buffers; a function of `string.c` is the
  memory it leaves.
- **Programs.** No program yields before it is done, so each is one step:
  `use_socket` is one call by any task, `phase5_test`, `phase6_demo` and `console`
  are what kmain runs, `use_packets` is a step of `NetDriver`. Input of the console
  and packets need interrupts: in this build only `phase5_test` runs, once, at boot
  (`main.c:48`). The other steps show what the programs do when they are run.
- **Libraries.** `call` and `uart` belong to single calls of libc, which share nothing
  with the programs. They and the calls on `mem` are made in the initial state
  (`Fresh`) and no program runs after them, so a run explores the sum of the state
  spaces and not their product. Every step is one of `Programs` or changes nothing
  there: what is proved of `Programs` holds in the runs.

## 3. Runs

Bounds are constants of the cfg files; the specification has no other bound
unless named here.

| run | instance | shows |
|---|---|---|
| `sched` | full table of 8, 3 idle tasks, fair yields | `FlowIdentity`, `OneRunning`, `BoundedWait`, `ExitIsFinal`, `NoStarvation` |
| `ipc_lists` | 2 pids, up to 3 slots, 2 payloads, sizes around the limits | queues and free list well formed, slots conserved, the status functions find nothing wrong (`AuditsAreQuiet`), refinement of `IPC` |
| `heap` | 26 bytes of heap, headers of 4, alignment of 2, arithmetic modulo 128 | tiling, merging, accounts, repeated frees, `realloc` |
| `heap_twice` | the kernel's 16, 8 and 32 for header, alignment and split, 256 bytes of heap, requests of 56 and 64 | violation: a second free is not noticed |
| `bullet` | 2 clients, 2 slots, table of 2 | `AnswersInOrder`, `IdsAreGood` |
| `net_sockets` | 2 clients, 2 slots, 2 sockets, 2 ids, rings of 3 cells | `AnswersInOrder`, `IdsAreOwned`, `IdsNeverReturn`, `RingsAreQueues` |
| `net_bind` | 1 client, 1 socket | violation: `net_bind` always fails |
| `libhydra` | 1 task, 3 others, 2 slots, data within and beyond the limit | violation: no message of the library is ever sent |
| `libraries` | 2 users, 2 idle tasks, 2 descriptors, 3 slots, 3 packets; 8-bit int, formats of up to 4 characters into a buffer of 5, strings in buffers of 4 | `PoolIsWhole`, `QueueIsFifo`; `NumbersReadBack`, `AddressesReadBack`, `PrintfFits`, `PrintkAgrees`, `StringsEnd` |
| `console` | formats of up to 4 characters | violation: what printf formats does not reach the console |
| `hydra` | both servers, 1 client that uses both, 3 slots, fair turns | `BulletInOrder`, `NetInOrder`, `BothServe` |
| `hydra_sender` | both servers, 2 clients, 2 slots | violation: a call returns the answer of the other server |

Why the bounds are enough: lists of three nodes have a first, a middle and a
last; two clients and two slots exhaust the pool in every way (all requests, all
replies, one of each) and let one client's traffic overtake the other's; a table
of one or two is empty, partly filled and full; rings of three cells wrap with
packets of two cells and reads of one and two; two ids let a slot be used again while
requests with the old id are queued. A header of `heap` takes two units of alignment, as the
kernel's does, so a split may write one over half of another; requests of 0, less
than a unit, exact and odd sizes and one that is refused let blocks be split, taken
whole and merged on either side. `LAST_ID` bounds the sockets clients ask for.

`net_sockets` has one more bound, the `CONSTRAINT` `RingsOfOneTask`: from a state in
which some ring holds bytes the run goes on only if the first task alone uses the server,
with one request at a time, and no second ring is in use. The ring of a slot
is nowhere read for another slot, so the product of two rings in use adds nothing but
states, and `RingsTheorem` has no such bound. Nothing else is cut off.

In `libraries`, two descriptors are one more than any program gets, and three slots
are one more than a demo takes (`DemoTheorem`). A packet pool of three is empty, partly and fully
used, and a packet comes at every second interrupt. All 256 values of an 8-bit int
are converted, in the bases at and beyond the limits; addresses have parts at 0,
within and at the top of a byte, and texts have too few, too many, empty and
ill-formed parts (parts are far below the 2^16 at which an int would wrap). A
buffer of 5 is overrun by a directive that is longer than its text, by a string and
by an unknown directive, at each position of a format of 4. Two buffers of 4 show
every overrun of one into the other: the calls are those a careful caller may make,
who keeps the last byte of each buffer. `CHECK_DEADLOCK FALSE` there: a call of libc
ends its behaviour.

`net_sockets` reads at most the two cells a message holds: see section 5 for longer
reads. `VIEW` in its configuration leaves out `asked` and `answer`, on which neither
the actions nor the properties of the run depend.

### Fairness

`FairSpec` of `Sched` assumes weak fairness of `task_yield` only: every task body
that is started loops around a yield (`sched.c:10-44`, `main.c:65-119`,
`bullet.c:141-163`, `net_srv.c:317-339`). `test_client_main` does not, and is not
started (`main.c:44-45`). `FairSpec` of `Hydra` assumes of each
server that a turn that stays possible is taken, which is `NoStarvation` one level
down. Nothing is assumed of clients: they may stop at any point.

## 4. What is proved

All theorems hold for every value of the constants under the named assumptions
(`TableAssumption`: there is at least one idle task and the idle tasks fit in the
table; `ListsAssumption`: there are pids, a largest size and a payload;
`MailboxAssumption`, `ClientsAssumption`, `BulletAssumption`, `NetAssumption`,
`RequestAssumption`, `HydraAssumption`: the servers are tasks, two different ones and
none of their clients, a reply of 4 bytes fits in a message, the sizes of tables,
messages, rings and packets are numbers, and the requests the clients make have a
size; `HeapAssumption`: heap, header and the range of an unsigned int are multiples of
the alignment, the heap is longer than a header and shorter than that range;
`LibnetAssumption`, `StringsAssumption`, `ProgramsAssumption`: there is a descriptor,
the server's pid is one, a buffer and the pool of packets are not empty, and the idle
tasks are not among the users; `LibcAssumption` and `LibrariesAssumption` below). Two hypotheses are stated with the theorems that need
them, for callers break them and the code does not check: `ReadsFit` and `Small`.

**Scheduler** (`SchedProofs`): `TypeCorrect`, `FlowsKeepTheirSlots`,
`OnlyCurrentRuns`, `WaitIsBounded`, `ExitTheorem`. The properties are not
inductive one by one: that the flow loaded by a switch is the right one needs the
contexts of all waiting slots (`FlowIdentity`); that the old task's state is
READY only during kmain's first turn needs `OneRunning`; that `waits` stays in
bounds needs the potential in `BoundedWait`, the slots still before a task in
search order. The inductive invariant `IInv` conjoins them, `schedule` is
analysed once for any table of states it may be entered with, and yield and exit
are two uses of it. `ExitIsFinal` is an action property from the same invariant.

**Messages** (`IPCListsProofs`): `TypeCorrect`,
`QueuesStayLinked`, `FreeListStaysLinked`, `SlotsAreConserved`,
`QueuedStayWhole`, `ListsImplementMailboxes` and `AuditsStayQuiet`. The history variable `lists`
says which slots each list holds; the invariant says that the pointers agree
with it (`QueuesLinked`, `FreeLinked`) and that every slot is in one place
(`EverySlotOnce`), without which a write to one `next` could disturb another
list. A send moves the top of the free list to the end of a queue and a receive
the front of a queue to the top of the free list; the lemmas on these two moves
carry the proof. The refinement maps each queue to the sequence of messages its
slots hold, and shows step by step that `IPCLists` implements `IPC`.
`AuditsStayQuiet` follows from the same invariant: a walk of a well formed list counts
its length, the sum of all counts is the number of places in all queues, and free and
queued slots add up to those there are.

**Heap** (`HeapProofs`): `TilingTheorem`, `MergedTheorem`, `RepeatedTheorem`,
`UsedTheorem`, `SizesTheorem`, `AllocatedTheorem` and `TypeTheorem`. The invariant says that the list tiles the heap,
that intact headers outside it are marked free, that no two free blocks are neighbours and
that the used blocks are those callers own (`Good`, `Merged`, `Used`). That blocks do
not overlap is not part of it: from tiling alone, going from block to block, every
header lies before or behind each block and never in it (`AllApart`), an
induction that is one use of `Blocks` being the least closed set. One lemma each says
that marking a block free, merging two, splitting one and dropping the headers within
a block keep `Good` and what becomes of `Merged` and `Used`; `kmalloc`, `kfree` and
`realloc` put them together. A header that a split writes may lie over others: those
are dropped, and none of them is in the list, for the blocks of the list lie apart.
`RepeatedTheorem` follows `freed`: a block given back is nobody's until its bytes are
handed out, so its header, as long as it is intact, is in the list and free or a
header that merging left behind, which says free too. It does not say that the header
stays intact: `heap_twice` shows that it may not.
`AllocatedTheorem` adds that the counter of `mm_stats` is the number of the callers'
bytes, which is a cardinality: what an owner gets or gives back is a set of addresses
that no other owner has. `TypeTheorem` also covers the headers that merging left
behind: as long as they are intact they are aligned, and what they say stays within the heap. Only
`SizesTheorem` and `AllocatedTheorem` need that no request is within `ALIGN` of 2^32
(`Small`): above that a caller gets fewer bytes than it asked for (section 5), yet the
list stays whole.

**Servers** (`OrderProofs`, `BulletProofs`, `NetServerProofs`): `IdsTheorem`,
`OwnedTheorem`, `NeverReturnTheorem`, `RingsTheorem`, and a `TypeTheorem` and an
`OrderTheorem` for each server. What a client is told depends on messages
that other tasks and the server may overtake, so the invariants say what each
mailbox `Holds`: requests of clients in the server's, answers elsewhere; that a send
adds an element of the right set and a receive only takes one away are lemmas of
`OrderProofs`. For the bullet server the answers are those whose id is below the
length of the table, every entry of the table is completed, and no id lies in two
answers (`Distinct`). For the network server an answer to `net_socket` is `Good` when
its id is below `next_socket_id` and, if a socket still has it, that socket is the
addressee's; ids in use are below `next_socket_id` and differ. What is good depends on
the state, so the invariant says there is some set of messages that `Fits`.
`IdsNeverReturn` is an action property from the same invariant: a slot gets an
id only from `next_socket_id`, above all ids that were ever in use.

`AnswersInOrder` is its own invariant once it is joined by who writes to whom and by
the pool not being below zero (`Orderly`). It says that what lies between a client
and a server, the answers the client has not read and then the requests the server
has not read, is about the requests the client is owed answers to, one by one
(`Lists`, by an increasing map onto the places of those messages). A request adds a
place at the end, an answer taken removes the first, the request of another client
removes a place that is not among them, and a server's turn moves a request's place
one up: the last of the client's mailbox instead of the first of the server's. The
turn is where the pool matters: the reply's send is accepted because the slot of the
request is free again. For the network server the size of a reply matters too: a
reply with received bytes fits only if the read asked for no more than a message
holds, which is the hypothesis `ReadsFit` (the code does not check it, section 5).

`TypeOK` of the servers counts: the slots of the pool that are not free lie at as many
places in the mailboxes. The mailboxes' places are a finite set, to which a send
adds one and from which a receive takes one. `RingsTheorem` follows each cell from
the packet to the read: the history of a socket, what arrived and was not read, lies
in its ring from `rx_head` on, and a cell is written only where there is room. It
needs `ReadsFit` as well: what a longer read takes out of the ring is lost.

**Both servers** (`HydraProofs`): `BulletTheorem` and `NetTheorem`. A step of `Hydra`
is one of a server's module or leaves that server's state alone, but for the mail: a
client's mailbox has the answers of two servers, and the pool is shared. The
invariant is the conjunction of the two servers' own, each over the mailboxes without
the other's messages, and the lemmas of `OrderProofs` are stated for mailboxes that
may have messages of others in between.

**Programs** (`LibrariesProofs`): `SocketTheorem`, `IdleMailTheorem`, `DemoTheorem`,
`StringsTheorem`, `PoolTheorem` and `FifoTheorem`. The first three prove that what the
documents promise of sockets, of mail for the network server and of the broadcast
fails for every size of the tables and every order of calls (section 5, which quotes
the documents). They rest on one invariant: all descriptors are closed and only the first was ever given out (`Shut`).
Then every call but `sendto` and `recvfrom` fails, a receive touches the caller's
mailbox only, and a program is a chain of calls whose `Posts` add up: what they do
together posts at most so many messages and takes none. The loop of the UDP demo ends
after its first turn because `sendto` never returns more than 0.

For strings, the last byte of each buffer is NUL (`Ended`): a copy stays in its buffer
because the source ends within its own, and when it is as long as the buffer the byte
it ends with is the NUL.

For packets, all of them lie in one row, the received ones first and the free ones
behind (`Laid`): an interrupt only moves the border between them, and taking a packet
rotates the part before the border. That the two lists are the two parts of the row
is then a fact about walks; both properties are read off it.

**libc** (`LibrariesProofs`): `NumbersTheorem`, `PrintfTheorem`, `PrintkTheorem` and
`AddressesTheorem`. A step of `Libraries` is one of `Programs` or leaves its state
alone, so the six theorems above hold of it too.
The invariant says what the last call was given and that its result
is what the function computes (`Made`); the rest is about functions of `Libc`, for every
input. `itoa` divides as often as there are digits: a division at least halves what is
left, so a number below 2^`WIDTH` is used up in `WIDTH` turns, and `atoi` builds up
from the front what the turns took off the end. `printf` and `sprintf` go over a format side by side:
they are at the same place after each turn, and have the same text as long as it
fits (`Agree`); each turn leaves room for the NUL. A turn of `printk` is a
turn of `sprintf` where they share the directive, with the number that printk's
conversion makes of the argument: an unsigned long for `%d`, an unsigned int for
`%x`. That the two loops for digits find the same is a lemma: what is left of the
number after each turn is the same, and both stop when nothing is left. An address is
read one part after another, each of them up to its dot, and a part that fits in a
byte has no bits to or into those before it. The theorems hold for every `Formats`,
`Arguments` and set of texts of the right type (`LibrariesAssumption`), for every size
of the buffer of at least 2 and for an unsigned long that is at least as wide as an
unsigned int (`LibcAssumption`).

**Recursive functions.** A walk or a loop in C is a recursive function over the
numbers up to a bound (`List`, `Linked`, `Chunks`, `lwip_process_packets`). In a proof
it is the function some explicit one equals, or that `LoopsIterate` shows to exist;
two that begin alike and go on alike agree (`SameTurns`). Both rest on `LeastNumber`,
that a set of numbers has a least one, taken from the library's facts on well-founded
orders of finite sets, for its induction rules take a predicate and cannot be used.

Only model-checked, and why:

- `NoStarvation` and `BothServe`: liveness needs fairness and `ENABLED`.

Every invariant of a passing run is stated by a theorem.

## 5. What modelling found

Where the code does something other than its documents say. Shown by a run:

1. a client function takes the answer of another server, for `recv_message`
   ignores the pid it is given (`ipc.c:203`); nor does it wait (`bullet.c:194`);
2. `net_bind` sends a request that the server finds too short (`net_srv.c:243`);
3. `ipc_send_message` of libhydra sends 272 bytes where the kernel takes 256, so
   every message and service call of the library fails (`lib/libhydra/ipc.c:48`);
4. nothing that `printf`, `puts` or `putchar` write reaches the console: it is
   passed to printk with `%.*s`, which printk does not know
   (`lib/libhydra/syscall_user.c:52`);
5. a second `kfree` is not always noticed, although the block's bytes were handed to
   nobody (`mm.c:82-83`, "double free detected"): after `kfree` of two neighbours, the
   header that `kmalloc(56)` splits off lies over the flag of the one merged away
   (`mm.c:60-65`).

Proved of the code for every size of its tables, against its documents (the
properties are in `Programs`, the theorems in `LibrariesProofs`):

6. libnet hands out one descriptor for all sockets, and none can be bound or
   connected: `socket` marks the entry it hands out `SOCK_CLOSED`, which is how it finds a
   free one (`socket.c:45-47`), and `bind` refuses a closed one (`socket.c:66`).
   `PHASE5_SUMMARY.md:80` says "Socket descriptor management with state tracking", `:99`
   "Network operations: Socket creation, binding, protocol support",
   `PHASE6_SUMMARY.md:48` "TCP socket creation and binding", and
   `library_test.c:80-84` reports a socket and goes on to bind it. `SocketTheorem` proves
   `OneEntryForAll`;
7. what libnet and the console send for the network goes to an idle task, which never
   receives, and keeps its slots of the pool for ever (`socket.c:31`, `main.c:93`).
   `PHASE5_SUMMARY.md:81` says "Integration with existing network server (PID 2) via
   IPC", `socket.c:159` and `:190` "Send to network server via IPC" and the like; the
   network server is pid 4. `IdleMailTheorem` proves `MailForIdleTasksStays`;
8. the UDP demo takes the 0 of a successful send for a failure and stops after its
   first chunk (`image_sender.c:210`). `PHASE6_SUMMARY.md:56` says "Image data
   segmentation for network packets". `DemoTheorem` proves `DemoTakesTwo`;
9. the first idle task never runs (`sched.c:64`, `PHASE2_SUMMARY.md:13`): its slot
   holds the flow of `kmain`, which is what `FlowIdentity` states of slot 0
   (`FlowsKeepTheirSlots` in `SchedProofs`).

Met while reading, not shown by a run:

10. a request close to 2^32 is rounded up to a block of no bytes (`mm.c:39`); the
    requests of the `heap` run stop below that, and `SizesTheorem` assumes they do;
11. `bullet_migrate_process` has the gap of `net_bind` (`bullet.c:96`); `Bullet`
    models it, so only tasks that send 20 bytes enter a migration. The pointer to
    the data of a migration points into the server's message buffer
    (`bullet.c:100`); nothing reads it;
12. a read of more than 256 buffered bytes loses them and the answer, for the reply
    is refused (`net_srv.c:284`): with reads of three cells in `RingRaw`,
    `AnswersInOrder` fails;
13. `net_send` of the server takes a length modulo 2^16 (`syscall.c:17`);
14. `net_is_packet_available` drops the packet it reports (`net_util.c:22`);
15. `sendto` works on a closed socket (`socket.c:186`), the only kind there is;
16. the image server's chunks of 512 bytes do not fit in a message
    (`image_sender.c:27`); with a free descriptor left, it would still send no image;
17. printk shows negative numbers as large unsigned ones (`PrintkAgrees` says which),
    copies `%u`, `%lu` and `%02x` as they are (`main.c:78`, `:110`,
    `net_driver.c:121`), reads past a format that ends in `%`, and does not look for a
    null string as `printf` does (`stdio.c:80`);
18. `itoa` of a negative number in base 16 reads before its digits (`stdio.c:26`),
    which the address printed in `library_test.c:20` would do above 2^31;
19. `syscall_read` always reports one character (`syscall_user.c:55`), so `getchar`
    never returns EOF.

## 6. Not modelled

- **trap handler, timer, UART receive**: not running, see section 1;
- **console input**: `getchar` and the UART's buffer, filled only by a handler that
  nothing calls;
- **ray tracer, boot and linker files**: arithmetic on one stack frame, layout;
- **comparing, searching, `abs`, ctype, byte order, errno, time**: functions of one
  line or constants, with no state and no caller that depends on more than that;
- **capabilities of libhydra**: a heap block with a magic number, used by nothing;
- **`lwip_init`**: a second `net_init` would link packets into the free list that are
  still in the receive queue (`net_driver.c:52`), but nothing calls it;
- **migration itself**: the server only simulates it;
- **what a second free does where bytes of the header were handed out or written
  over**: callers in `Heap` repeat a free only where the header is intact;
  `heap_twice` shows that the code does not always notice one where it is not;
- **a task without a loop**: a task function that returns would jump to a null
  return address; no task that is started returns.

## 7. Plan

Done: scheduler, messages with refinement and proofs, heap with `realloc`, both
servers, their composition, messages of libhydra, driver, libnet, libc, printk,
applications; proofs of every invariant that the passing runs check. What is left, in this order:

1. an abstract heap (a set of disjoint extents) that `Heap` implements, and an
   abstract socket service (ids, states, byte queues) that `NetServer` implements,
   with proofs;
2. `Hydra` over `Sched`: turns in round-robin order, and how long an answer takes
   in turns; libnet's programs over the pool of `Hydra`;
3. capabilities of libhydra.
