# A TLA+ specification of unix_system_programming

The repository holds five programs in C: a DHCP-like address server with its
client, the buffer cache of a UNIX kernel driven by commands, an FTP-like
server with its client, a shell, and Dijkstra's algorithm. This directory has
TLA+ modules that model them, TLC configurations that check the modules on
small instances, and TLAPS proofs of nearly all safety properties for instances
of any size. Paths below are relative to the repository; the modules refer to its
functions by name and `PROJECT.json` maps each definition to the lines it models.

## 1. The system

| component | source | state | operations |
|---|---|---|---|
| DHCP server | `dhcp/mydhcpd.c` | address pool, use list, client records, one interval timer and its flag | one loop: count leases down, repeat or recall offers, handle one datagram |
| DHCP client | `dhcp/mydhcpc.c` | `stat`, one packet buffer, half-time timer, two signal flags | one loop: repeat or give up, extend, release, handle one datagram |
| DHCP protocol | both | datagrams on the way, the clock | UDP loses, duplicates and delays; users start, hang up and restart clients |
| buffer cache | `buffer_cache/` | hash queues, free list, flags of each buffer, `scenario4` | `getblk`, `brelse`, `set`, `reset`, `init`, listings |
| FTP server | `ftp/myftpd.c` | a process, a working directory and an open file per connection | request/reply commands, data packets |
| FTP client | `ftp/myftpc.c` | the control connection, an open file | the same from the other side |
| shell | `shell/main.c` | tokens, redirections, pipes, children | one command line at a time, pipelines |
| shortest paths | `dijkstra/dijkstra.c` | cost, predecessor and set of finished nodes | one node per round |

**DHCP server.** `main` loops without ever blocking: when SIGALRM has set
`ttl_flag` it calls `ttl_decrement()`, then `wait_event()` for the 10 second
timeouts, then a `select()` with a zero timeout and, if there is a datagram, its
handler. An address moves between `ipmask_list` and `ipmask_use_list`, and a
`struct client` comes and goes with it; several functions called at five places
have to keep the three lists in step. One interval timer counts all leases.
Correct is: no address is lost, doubled or leased twice; records and use list
describe the same leases; every offer ends; every lease that is not extended
ends; the records follow the state diagram.

**DHCP client.** A loop of the same shape; SIGALRM asks for the extension of the
lease, SIGHUP for its release. It has a single `struct dhcph`, which is at once
what was received, what will be sent and where the address is remembered.
Correct is: while in IN_USE the server agrees on the address; no two clients
use one address; a lease is kept until the user hangs up; no wait is for ever.

**Buffer cache.** The commands are typed one at a time, so there is no
interleaving within one. What is hard is the bookkeeping: a buffer is free exactly
when it is not locked, `getblk()` has five scenarios, of which one loops over
dirty buffers, and two different flags remember who sleeps for what. Correct is:
the free list is exact, no block is cached twice, a sleeper is always known to a
later `brelse()`, data to be written is never dropped.

**FTP.** `myftpc` has one function per command, which sends a request and reads
the reply; `proc()` of `myftpd` reads one header and acts on its type. There is no
framing above TCP: each side reads as many bytes as it expects and takes what
comes next for the answer. Buffers are reused, and `proc()` looks neither at
the end of the connection nor at most of the errors. Correct is: each command
reads its whole reply; a file arrives complete and in order; commands end.

**Shell.** A line is executed while it is read: at each `|` the shell forks a
stage and calls `wait()` before it goes on, so the stages of a pipeline run one
after the other, each writing into a pipe that nobody reads yet. `wait()` takes any
child, background commands included; a handler of SIGCHLD calls it too. The
terminal is passed to the group of a foreground command and back. Correct is: a line
ends, nothing stays behind but background commands, the terminal is back.

**Shortest paths.** Two arrays shared by all calls, a set of finished nodes, an
infinity that is added to. Correct is: the costs are those of shortest paths and the
predecessors lead back to the root.

The hazards of each component, with their lines, are in `PROJECT.json`.

## 2. The modules

| module | what it is |
|---|---|
| `DhcpNet` | datagrams (`struct dhcph`) and the UDP network: socket buffers of bounded size, loss, duplication |
| `DhcpServer` | `mydhcpd`: loop, lists, records, timer; alone it faces an environment that may send any datagram of `EnvPackets` at any time |
| `AddressLeases` | the abstract specification: the state diagram of one host and the addresses, without lists, loop or messages |
| `DhcpClient` | `mydhcpc`, one instance per process |
| `Dhcp` | server, clients, network, users and the common clock together |
| `BufferCache` | `getblk`, `brelse`, `set`, `reset`, `init` |
| `Ftp` | `myftpc` and `proc()` of `myftpd` on one connection, with the files of both hosts |
| `Shell` | `mysh` and the commands it starts, with their pipes and the terminal |
| `Dijkstra` | `main()` and `djikstra()`, round by round |
| `SeqLemmas` | lemmas about `RemoveAt`, `Append`, `Tail` and `Min`, and about induction and recursion |
| `DhcpServerProofs`, `BufferCacheProofs`, `FtpProofs`, `ShellProofs`, `DijkstraProofs` | the theorems about each program and their proofs |
| `DhcpProofs` | the proof that `Dhcp` implements `DhcpServer`, and what follows |
| `DhcpSessionProofs` | the proofs of what clients and server know of each other: leases in use, shared addresses, kept leases |
| `MCDhcpServer`, `MCDhcp`, `MCBufferCache`, `MCFtp`, `MCShell`, `MCDijkstra` | values of constants for TLC |

### How state and actions correspond to the code

*Server.* `pool`, `useList` and `clients` are the three circular lists as
sequences, in list order. `ttl_flag` is the flag, `timer` the interval timer,
`spc` the place in the loop. The steps are `TtlDecrement`, `TtlClear` (the flag
is cleared in a step of its own: an alarm in between is lost), `WaitEvent`, and
`Recv` or `Idle`. `Handle` has one action per branch of the handler: `MakeOffer`,
`RefuseOffer`, `GrantLease`, `RefuseLease`, `ExtendLease`, `EndLease`, `Ignore`.
Both loops over records stop at the first record they recall; `RecallFirst` and
`Reached` say so. A `start_time` is kept as an age in seconds that stops at
`Timeout`, which is all that the code compares. `ttl` keeps its raw 16 bits,
in network byte order on a little-endian machine, because the code compares it
so; `Htons` and `Ntohs` swap the bytes. `RefuseOffer` rests on the outcome of
`search_ipmask()`, which ends without a return statement when the pool is empty:
the unoptimised build of the `Makefile` returns the list head, compared last.

*Client.* One variable per global of the program, as functions of the process.
An iteration is `Resend` or `GiveUp` (`wait_event()`), then one of `Extend`,
`ExtendAndExit`, `ReleaseAndExit`, `Proceed` (the tests of both flags), then
`RecvOffer`, `RecvAck`, `RecvRefusal`, `RecvWrongType`, `RecvNoCase` or
`NothingToRecv`. When no timeout is due, `wait_event()` changes nothing and is
not a step of its own. `KilledByHangup` is SIGHUP before the handlers are set.
A user may start a process once; starting another client on the same host is
another process with the same `HostOf`, which is all the server can see.

*Network.* Code outside the repository. A send to a full socket buffer or to a
port without a process is dropped. `QueueCap`, `MaxLost` and `MaxDup` bound it.

*Buffer cache.* `free` is the free list in order; a hash queue is a set, since
its order only shows in listings. A caller that `getblk()` tells to sleep is in
`waitsFor` until the `brelse()` that prints that it wakes it. `Scenario1`,
`Scenario2`, `Scenario4` and `Scenario5` are the outcomes of `getblk()`; scenario
3 is the part that 2 and 4 share, `Written`.

*FTP.* The connection is a sequence of words each way. A word is a header or as much
data as a name or a unit of a file; since each side takes what comes next for a
header, data has the fields of one, with a type that no `case` has. `hdr` and
`code` are the header and the code that are left in `pkt_data` of the server and the
client: both are read again by code that did not write them. A file of more than
`DATASIZE` words is a packet with code 1 after the other and a last one with code
0. `cpc` says which `recv()` the client waits in. There is one action per command
(`cd_proc`, `get_proc`, ...), one per reply (`RecvGetHead`, `RecvGetData`, ...), and one
per `case` of `proc()` (`ServeRetr`, `ServeData`, ...). `StoreAgain` and `EndsAtEof` are
`proc()` after the client is gone, when `recv()` returns 0. `astray` is a history
variable: a reply was not read to its end, in one of two ways the code has.

*Shell.* The shell is at `pc`: `parse` is the loop over tokens, `waitStage`, `waitLast`
and `waitOne` are its calls of `wait()`, `give` and `watch` the places between
`fork()` and what depends on the child having started, `window` the time in which
`sigmsg_BG` is the handler. `fds` are the pipes in `pdf` of which the shell has
both ends open. A child is `forked` until it has made its group and called `execve`,
and then reads to the end and writes; it may be stopped by SIGTTIN, killed by
SIGPIPE, or end. `pipe_pgid` is set in the child only, so the parent's, and every
later child's, has no value: `pipe_pgid` in the model says whether `setpgid()` takes it.

*Shortest paths.* `n`, `node`, `dist` and `prev` are the variables of `djikstra()`;
`Round` is one pass of its `while` loop, `NextRoot` the loop of `main()`. `IsMin`
says which node the scan ends with: the last one of the closest.

*Slips.* Definitions named `...Slip` are not part of any specification. Each is
the definition that follows it with a plausible mistake. `PROJECT.json` says
which property must fail when a slip takes the place of the original: so each
property is known to notice a mistake in the code it is about.

### Assumptions on the constants

`NetAssumption`: processes have hosts, `Timeout` and `QueueCap` are positive.
`ServerAssumption`: the lease time has 16 bits, and `config_file` names no address
twice (the code does not check it). `CacheAssumption`: block numbers are
naturals (`hash_mod` of a negative one is a negative index), the arrays of
`init_proc()` have no duplicates, and the command `reset` is not used to take L or
W from a buffer behind the cache's back. `ShellAssumption`: lines are what the loop
can make of tokens. `DijkstraAssumption`: costs are between 0 and `INF`, and a node
is at no distance from itself. `FtpAssumption` and `FilesAssumption`: there are finitely many
names, a packet holds something, a name that is a directory can be entered, and no file is
at first larger than files can grow (`MaxSize`). `DhcpAssumption`: the constants of `Dhcp` satisfy what
`DhcpServer` assumes.

A packet arrives as a whole in `Ftp`: `recv()` may return less, which the code
ignores at each call, and then everything after it is taken for something else; no
property survives that, so it is left out. Which process serves the connection
depends on a `pid` without a value (`myftpd.c:153`); `Ftp` is the process that does.
In `Shell` the value of `sa_flags`, which comes from `malloc`, is taken to be 0.

## 3. The runs

None takes more than about a minute.

| run | checks | instance |
|---|---|---|
| `ServerSafety` | `LeaseTableConsistent`, `OneRecordPerHost`, `HandoverThroughPool`, `OfferResolves`, `LeaseEndsWithoutGrants`, `ImplementsAddressLeases` | 2 hosts, 2 addresses, lease 2, timeout 2, fair |
| `ServerFaults` | `TypeOK`, `AddressesConserved` | 2 hosts, 1 address, one loss, one duplicate, a client whose socket comes and goes |
| `DhcpRestart` | `TypeOK`, `InUseIsLeased`, `NoSharedAddress`, `KeepsLease`, `ImplementsServer` | 3 processes, two of them on one host one after the other, 1 address, one loss, lease 5, timeout 2, room for 6 datagrams |
| `DhcpLive` | `Answered`, `AddressesReturn` | 2 hosts, 1 address, one loss, lease 2, timeout 1, fair |
| `BufferCache` | `TypeOK`, `FreeListExact`, `UniqueBlocks`, `NoLostWakeup`, `ReuseIsSafe`, `DirtyIsWritten` | 3 buffers, 4 blocks, 2 queues, 2 callers |
| `Ftp` | `TypeOK`, `InSync`, `PutArrives`, `GetCopies`, `CommandEnds` | 3 names, 2 directories, files of one and two packets, fair |
| `Shell` | `TypeOK`, `TerminalBack`, `WaitsBalance`, `NoPipeLeft`, `SigpipeIsTaken`, `LineEnds` | 4 commands in any lines of up to 3, pipes of one unit, fair |
| `Dijkstra` | `TypeOK`, `ShortestPaths`, `RouteBack`, `Certificate`, `FinishedKeep` | all networks of 4 nodes with costs 0, 1, 3 or none |
| `ServerLeaseEnds` | `LeaseEnds` is violated | as `ServerSafety`, with lease 1, timeout 1 |
| `ServerByteOrder` | `LeaseWithinOffer` is violated | as `ServerSafety`, with requests for other times, not fair |
| `DhcpHangup` | `HangupReleases` is violated | 2 hosts |
| `FtpCutPut` | `SentOnly` is violated | as `Ftp`, without fairness |

**What they show.** Whatever datagrams come in, the server's three lists agree,
hosts have one record each, an address goes from one host to another only
through the pool, and the loop implements `AddressLeases` (`ServerSafety`,
`ServerFaults`). Each offer is answered or recalled although the loop stops at the
first recall, and leases end when nothing is granted (`ServerSafety`). Together, clients that restart and die without
a word, and a lost datagram, never bring two clients to one address or take a
lease from one that did not hang up (`DhcpRestart`); each client ends up with a
lease or gives up, and an address comes back when its user is gone (`DhcpLive`).
`ImplementsServer` says that the clients are one of the environments that
`DhcpServer` has when it stands alone: what is checked and proved there holds
in the composition. The buffer cache run covers all five scenarios, several
dirty buffers in a row, an empty free list, and `init` at any moment.

`Ftp` shows that both programs keep in step over any sequence of commands, except
after two of them, which `InSync` names and the model marks with `astray`: `dir` of
a plain file and `get` into a file that the client cannot make. `PutArrives` relates
the file at the server and the packets on the way to what the client has read, at
every moment of a `put`; `GetCopies` compares the files after a `get`. `CommandEnds` says
which commands do not end: `get` of a directory, `get` of a small file when a
`put` of a directory has left its code in the buffer, `dir` of a directory with a link to
nothing. Each of these exceptions is needed: without it the property fails. They are
places where the program does go wrong, and what the properties show is that nothing else
does; the same holds for what `LineEnds` excepts below.

`Shell` shows that waits and commands balance, although each `wait()` may return for
another child: what is left behind is at most as much as the background commands that
were taken instead, and only then can a stage meet a pipe without a reader. All
pipes but those of a line that ends with `|` are closed. `LineEnds` names what may
block a line for ever: a stage that writes more than a pipe holds before its reader
is forked, a command that reads the terminal without having it, and the handler's
`wait()` for a background command that is only stopped. `TerminalBack` holds whatever
ends meanwhile.

`Dijkstra` compares `dist` with a definition of shortest paths that counts links
(`Cheapest`), for every network of the instance and every root, and shows that `INF`
as a number does no harm as long as costs of `INF` or more mean no path.

**Why the bounds are enough.** Two hosts and one address are contention; two
addresses and two hosts are the least with which one record can hide behind
another in the loops that break, and with which an address can be mixed up
with another. The programs have a lease of 20 and a timeout of 10 seconds; 2
and 1 keep their ratio. `DhcpRestart` has 5 and 2: the repeated extension must
come before the end of the lease, and with exactly twice the timeout both fall
into the same second, so that a lost extension may cost the lease (with
`config_file` too). A `QueueCap` of 1 with an environment that sends at will
is no loss of generality for the order in which the server sees datagrams; 2 lets
requests of both clients wait together, and 6 is what `LeaseKept` asks for three
processes. One loss reaches each timeout, as
TLC chooses which datagram is lost. Three buffers for four blocks make all of
them locked, all dirty, or a mixture, on colliding queues.

**Prompt.** In `DhcpRestart` and the runs with timeouts in the composition a second
is long: datagrams and signals of one second are dealt with before the next one
starts. Without that, the clocks of the two programs are unrelated and a
delayed ACK alone makes the client use an address after the server took it
back. `OneClientPerHost`: the server tells clients apart by
source address only, so two clients at once on a host share a record; the runs
start the second one after the end of the first.

Two directories and three names let `cd` lead into a directory where the same names
have other files; one of the names is in turn a directory, closed, locked, or a link
to nothing. Files of one packet and of two are the cases that `DATASIZE` tells apart.
`Backlog` is 0: after a reply that was not read to its end the user does not go
on. `MaxSize` only bounds what `StoreAgain` appends. Four commands are a
background command under a pipeline of three, or two lines that meet; a pipe of one unit
is full after one write and not after the other. Four nodes have paths of three links,
ties, detours that are cheaper than a link, and nodes without a path.

**Deadlock** is checked in the runs of the DHCP programs and the buffer cache. The
other programs come to an end: `exit`, `quit`, a client that died, the last root, or
no more commands to start.

**Fairness.** Both loops poll (`select()` with a zero timeout) and never block, so
`ServerStep` and `ClientStep` are weakly fair. So are the delivery of a pending
SIGALRM, which the kernel does, and the tick. Nothing is assumed about users,
or about the network: no fairness makes a datagram arrive, it is in the
socket buffer or lost. The FTP server and client go on when there is something to read
or to send, the shell and its children are scheduled, and a user who is asked for input
by a command ends it; no one has to type a command.

### Findings

1. `LeaseEnds`: `setitimer_ttl(1)` at `mydhcpd.c:403` restarts the timer of all
   leases at each grant. Grants less than a second apart keep every lease
   alive. `LeaseEndsWithoutGrants` is what does hold.
2. `LeaseWithinOffer`: a REQUEST's `ttl` is compared with the offered one in
   network byte order (`mydhcpd.c:377`): 256 seconds pass as less than 2.
3. `HangupReleases`: when SIGHUP and the half-time alarm are both pending, the
   client asks for an extension and exits without RELEASE (`mydhcpc.c:152-163`).
4. `SentOnly`: when the client dies in the middle of a `put`, `recv()` in `proc()`
   returns 0, the header of the last packet is still there, and the server appends its
   buffer to the file for ever (`myftpd.c:215`).

Met while modelling, and kept in the models as they are: a message of the wrong type
puts the DHCP client into "exiting", and there it stays (`mydhcpc.c:276`), which is
why `Answered` says "is exiting"; the exceptions of `InSync`, `CommandEnds` and
`LineEnds` above; the shell exits when it is faster than its child (`main.c:436`).

## 4. The proofs

Each theorem is for all values of the constants that satisfy the assumptions.

*`DhcpServerProofs`*: `TypeCorrect`, `PoolConserved`, `TablesAgree`, `HostsDistinct`
prove `TypeOK`, `AddressesConserved`, `LeaseTableConsistent` and `OneRecordPerHost`
invariant. None of the last three is inductive alone. A recall takes the first
record and the first list entry *with an address*: that both are the same
lease needs the table to be consistent, that the entry returned to the pool is not
there yet needs conservation, and that an offer does not make a second record
needs `search_client()` to see all records of the host. So the
inductive invariant is `TypeOK` with all three, `Consistent`, stated over the lists
as parameters, because most actions change the lists in steps: `RecalledAddress`,
`OfferedAddress`, `RemovedRecord` and `AddedRecord` say what one movement does to a
pair of lists, `Recalled` combines them, and each action has a lemma that cites
it. Proved for any environment, including clients that send garbage.

Its second part is about `AddressLeases`: `LoopImplementsLeases` proves that `DhcpServer` implements
`AddressLeases`. The mapping takes the state and the addresses of a host from its
records; the address is the set of those that its records have, empty when it has
none, so that the mapping needs no choice. Since a pass over the records may
recall one, and a datagram may first give back what its sender had, each step of the
loop is followed through the list operations: each changes what the mapping shows of
one host, along one edge, or of nobody. The edges that take an address from the pool
need the invariants above: the pool and the records are disjoint. `AddressGoesThroughPool`
proves `HandoverThroughPool` from the same steps: the set of hosts that hold an
address only becomes empty or stays, until it is empty. The third part follows the
time that a lease has left through each step (`LeaseLasts`); it is there for
`DhcpSessionProofs`.

*`BufferCacheProofs`*: `CacheTypeCorrect`, `FreeListCorrect`, `BlocksUnique` and
`WakeupsKept` prove the four invariants from their conjunction, which is
inductive: `getblk()` in scenario 1 removes a buffer from the free list and finds
it there only because the list is exact; a sleeper's buffer stays locked
only because locked buffers are not on the list that scenario 2 takes from.
`ReuseSafe` and `DirtyWritten` are action properties that follow from it. They hold
for callers that keep to what `Brelse` and `CacheAssumption` ask for (section 5), not for every
line that can be typed.

*`DhcpProofs`* puts the server next to its clients. `ClientsAreAnEnvironment` proves
`ImplementsServer`: every step of a client, a user, the clock or the network is one that
`DhcpServer` allows its environment. A client sends back the packet it received, with
another type and code, so this needs an invariant about all packets, on their way and in
the one buffer of each client (`PacketsOK`), which in turn needs the records of the server to be
well-formed: the packets and the server depend on each other, and the invariant has
both. Hence all that is proved of `DhcpServer` holds here:
`ServerConsistentAmongClients` and `ClientsKeepToLeases` say so. `DhcpTypeCorrect` is
type correctness of both programs.

*`DhcpSessionProofs`* proves the three properties that compare the two programs.
`InUseLeased` proves `InUseIsLeased`, `NothingShared` proves `NoSharedAddress` and
`LeaseKept` proves `KeepsLease`: for any hosts, processes, pool, lease time of at least
2 and timeout. They are not true of all systems, and the theorems say of which:

* `Orderly`, for all three, is the system of the run: `Prompt`, `OneClientPerHost`, no
  duplicates, and a lease that has a half time. Without `Prompt` a delayed ACK is enough
  to make the invariants false, see **Prompt** in section 3. The other conditions
  are what the argument uses, to say whose datagram is the last of a host; with two clients
  on a host, or with one or two duplicates, TLC finds no counterexample on instances of two
  and three processes, and the general case is open.
* `InTime`, for `NoSharedAddress`: either what is left of the lease at half time (`Half`, the
  second in which the record is counted down first not included) is at least two
  timeouts, whatever is lost, or `OneLoss`. With the timeout of 10 of `mydhcpc`, the first
  is a lease of 41 seconds or more.
* `OneLoss`, for `KeepsLease`: at most one datagram is lost, and then `Half` is at least one
  timeout, a lease of 21 seconds or more; and the buffers have room for two datagrams of
  each process (`Room`). The lease of 20 in `mydhcpd` has a `Half` of 9, so for it the
  theorem covers a network without losses: that a repeat may then come in the second in
  which the lease ends is noted in section 3. `DhcpRestart` satisfies all of these.

What a client believes is true for reasons that are neither in the client nor in the
server alone, and `SessionInv` collects them. `OrderOK`: in the server's buffer a
process has at most a DISCOVER and one more datagram, and nothing of a process that has
exited lies behind a datagram of its successor on the host, whose record it would
end. `RequestsOK` and `RepliesOK`: in each state of a client only certain
datagrams can still be on their way, and an ACK on its way has a lease behind it
that began this second. `ReleasesOK`: a RELEASE names the only address that
the server has for the host. `HeldOK` compares the clocks: the record lasts for `Half` and
for what the client's alarm still counts, since both run down with each tick.
None of these is inductive without the others, and they need `PacketsOK`, that the
server decrements its records once per second (`OneTick`) and that a record is what its
host was told (`RecordsOK`). `ExtensionInv` goes on after half time: the lease lasts for
`Half` less what the client has waited (`KeptOK`), and a client that has an empty
buffer, with nothing of its host under way, has lost a datagram, two at its second try (`LossOK`). That a request
for an extension is granted if it arrives follows from `KeptOK`, and that it finds room
from counting: datagrams in the buffer are different pairs of a process and of
"DISCOVER or not" (`RoomLeft`).

*`ShellProofs`*: `ShellTypeCorrect`, `TerminalComesBack`, `WaitsAreBalanced`,
`PipesAreClosed` and `SigpipeNeedsTaken` prove the five invariants of the run. That a
wait is balanced at a prompt says nothing about the middle of a line; the invariant
counts there too, one more for the command that the shell is waiting for (`Balance`),
which is an argument about the cardinalities of `Left` and `Taken` when a child is
reaped. For SIGPIPE it adds who has the read end: as long as nothing was taken, a stage
that is left is the one being waited for, with its pipe in `fds` (`Written`). The places of the
loop need to know what is left of the line (`LineInv`).

*`FtpProofs`*: `FtpTypeCorrect`, `RepliesAreRead`, `PutsArrive` and `GetsCopy` prove
`TypeOK`, `InSync`, `PutArrives` and `GetCopies`, for any files, names and
`DATASIZE`, from one inductive invariant. `Shape` holds whether the programs are
in step or not, and even when the client is dead: the streams are headers each
followed by as much data as it says (`Framed`), the server finds a header at the head
of its own (`Aligned`), and a request that carries a name has one. `Conversation`
holds as long as nothing went astray: either the request is on its way and the reply is
not, or the reply is and has the form that the client waits for, or it is the turn of
nobody. `Getting` and `Putting` follow the data: stored and on its way together are the
file, or as much of it as was read (`DataIn` takes the data out of a stream). The first part of the
module shows what `\o`, `After` and `Packets` do to framed streams and to `DataIn`, with
no reference to the programs: in particular that the packets of a file hold the whole
file, that all but the last are marked 1, and that each has at most `DATASIZE` words.
The second part has a lemma per action.

*`DijkstraProofs`*: `DijkstraTypeCorrect`, `FinishedStay` and `Certified` prove `TypeOK`,
`FinishedKeep` and `Certificate`. The invariant says that finished nodes are
not further away than others, that no link from a finished node leads to a shorter
path, and that `dist` of each node is that of its predecessor, which is finished, and the
link between them. It needs the closest node to be taken: only then does a
round find nothing better for finished nodes, on whose costs the others rest.
`Certificate` follows because after the last round all nodes are finished.
`PathsAreShortest` proves `ShortestPaths`, that `dist` is the cost of the cheapest way over all
ways. One half is an induction on the number of links: by the certificate no number of
them makes a way cheaper than `dist`. The other is an invariant of the rounds, `Short`: what
`dist` knows after k rounds takes no more than k + 1 links. `RoutesLeadBack` proves `RouteBack`
from the invariant that `prev` leads to the root over finished nodes, in at most as
many links as rounds (`Chained`).

`SeqLemmas` has what the proofs need about sequences: after `RemoveAt`, the
elements are the old ones but one, and distinct ones stay distinct. It also has
induction in the form that can be used here. The library states it for any operator, which the
provers cannot instantiate; `InductionOverSet` and `InductionOverSequences` state it
for a set that has the first element and the next of each, and follow from the
theorem that a set of naturals that is not empty has a least member. `Recursion` gets from there to
functions: one that is defined by its first value and by each next one from
the one before exists, which is what the proofs about `Within` and `Back`, `DataIn` and `FlattenSeq`
start from.

**Assumed.** Only the assumptions on constants above. `FtpAssumption` has
finitely many names because a listing is the sequence of those that are there; the
provers need that it has a length.

**Model-checked only.** Liveness, which is outside the prover's reach, with `ENABLED`:
`OfferResolves`, `LeaseEndsWithoutGrants`, `Answered`, `AddressesReturn`,
`CommandEnds`, `LineEnds`. Every invariant and every action property of the passing runs is
proved, the three of `DhcpSessionProofs` under the conditions given there.

## 5. What is not modelled

* Parsing of `config_file`, of command lines and addresses; listings and
  messages; the errors of system calls, at which all programs exit.
* The pointers of the circular lists of the buffer cache, and two commands that
  break them: `brelse` of a free buffer and `reset n L`. `BufferCache` restricts
  both, see `Brelse` and `CacheAssumption`. The pointer that `getblk()` returns: its
  caller (`subr.c:302`) drops it. That `brelse()` may report a wakeup when nobody sleeps,
  since `init` leaves `scenario4` set: the model has the flag, no property is about the report.
* FTP: connecting, `accept` and `fork`; packets that TCP delivers in parts; names as
  strings, and what longer ones do to fixed buffers; `lpwd`, `ldir` and `help`, which
  change nothing.
* Shell: the tokens of a line and their memory; redirections, but for whether a command
  reads the terminal; commands that are not found, which `cd` behind a `|` is too; SIGINT, and
  the end of the shell's own input.
* Dijkstra: printing.

## 6. How the modules build on each other

`DhcpNet` is extended by `DhcpServer`, and both are instantiated in `Dhcp`, next to one
`DhcpClient`; `DhcpServer` refines `AddressLeases`, `Dhcp` refines `DhcpServer`. The
other modules stand alone, as the programs do. What could come next: the pointers
of the buffer lists, as a module that implements `BufferCache`; an FTP server whose `recv()`
returns less than asked; the theorems of `DhcpSessionProofs` for datagrams that come twice
and for several clients of a host.
