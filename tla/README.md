# LDS: a TLA+ development

LDS is a block storage server. Clients reach it over TCP, or the kernel reaches it
through its NBD driver; one reactor thread reads the requests, a pool of worker threads
executes them against a RAID01 array of file or memory minions, and the workers write
the replies. Around that there are a plugin loader, a watchdog and a logger. This
directory holds TLA+ models of its parts, the TLC configurations that check them on
small instances, and TLAPS proofs of what holds for every instance.

File names below are relative to `src/`.

## 1. The system

| part | state | operations | talks to |
|---|---|---|---|
| `ThreadPool` (`utilities/threading/thread_pool`) | `m_threads`, `m_suspend_flag`, queue `m_command` | AddCommand, Suspend, Resume, Stop, SetSize; workers run ThreadFunc | pops `ICommand`s from `WPQ`, suspends and stops itself with commands of its own |
| `WPQ`, `ICommand` | a heap, a mutex, a condition variable; four priorities | Push (notify_one), Pop (blocks) | used by the pool |
| `RAIDStorage` (`services/local_storage`) | minions, `m_offset_sizes` under `m_offsets_lock` | Write, Read, GetDataSize, ListOffsets | called by the workers through the mediator; calls minions and the metadata store |
| minions, metadata stores, `StorageFactory` | bytes of a file or a buffer; `raid_metadata.dat` or a map | Read, Write; Save, Load; creation by backend | called by RAIDStorage, made by `main` |
| `TCPDriverComm` | `m_listen_fd`, `m_client_fds`, `m_allocations` | TryAccept, ReceiveRequest, SendReply, RemoveClientFD | reactor thread and workers, without a common lock |
| `NBDDriverComm` | the device, a socket pair, two threads | ReceiveRequest, SendReply, Disconnect | the kernel; reactor thread and workers |
| `InputMediator` | handlers by request type | Notify, the handlers | reactor thread calls Notify, which queues a FunctionCommand in the pool |
| `Reactor` | epoll set, signal descriptor | Add, Remove, Run | calls the mediator for each ready descriptor |
| `client.py` | a socket, a handle counter | connect, send, receive, reconnect | the server |
| plugins: `PNP`, `DirMonitor`, `SoLoader`, `Dispatcher`, `CallBack`, the inotify wrapper | a listener thread, dlopen handles, a list of subscribers | load what appears in a directory; construction and destruction by main | kernel events; independent of the request path |
| `WatchdogMonitor` | a flag, a detached thread | StartMonitoring, StopMonitoring, the check, the restart | the parent process, by number |
| `Singleton`, `Logger` | `s_instance`, `s_mutex`; level, file, `m_mutex` | GetInstance; Write, SetLoggerLevel, SetFileName | called by every thread |
| `RunServer`, `main` (`app/LDS.cpp`) | the order of construction and destruction | start, serve, shut down | wires all of them |

What is hard here:

* **The pool controls itself through its own queue.** Suspend and Stop push tokens
  that any worker may take, in a race with user commands and with one another. The
  number of tokens, their priorities and the moment they are pushed decide whether
  a suspension holds, whether Stop drains the queue, and whether it returns.
* **Two kinds of condition variable.** `WPQ` waits and notifies under its mutex;
  `Resume` writes its flag and notifies without one.
* **No lock spans a request.** The two copies of a chunk, the chunks of a request,
  and its metadata are written under separate locks by concurrent workers; minions
  fail one at a time, and the metadata file is rewritten in place.
* **A number stands for a connection** (or for a process). A queued request remembers
  its client as a descriptor number, which the reactor thread closes and the kernel
  hands out again; the watchdog is remembered as a process number.
* **One thread reads for everybody**, and blocks inside a frame.
* **All workers write into one NBD socket**, a reply in several writes, without a lock.
* **Threads are started by constructors**, with the signal mask of the moment, before
  the objects they call are complete, and the destructors join threads that do not end.
* **A pointer checked without a lock.** `Singleton` reads it before and after locking,
  around a constructor that may throw.

`PROJECT.json` lists the components, and the hazards with the line where each bites.

## 2. Modules

    TaskPool  <== ThreadPool <-- ThreadPoolProofs      (<== is implemented by,
                     ^                                   <-- is extended by,
                     +------- MCThreadPool               <-* is instantiated by)
    StripeMap <-- RAIDStorage <-- MCRAIDStorage, RAIDStorageProofs
    StripeMap <-- MinionBounds <-- MinionBoundsProofs
    TCPServer <-- MCTCPServer, TCPServerProofs
    NBDServer <-- MCNBDServer, NBDServerProofs
    Plugins, WatchdogMonitor, NBDDriver <-* Lifecycle <-- LifecycleProofs
    Plugins <-- PluginsProofs <-* LifecycleProofs
    Logging <-- LoggingProofs

**ThreadPool** models the pool with `WPQ` and the command priorities. A worker's
place in `ThreadFunc` is `pc[w]`. The queue is a set of user commands (`queued`) and
two counters of tokens (`stops`, `suspends`), since tokens of a kind are alike;
`IsTop(p)` says when an entry of priority `p` may be the top of the heap, which
leaves the order of equals open, as `std::priority_queue` does. Pushes and pops are
atomic (one mutex); Resume's assignment, its notification, a worker's test of the
flag (`TestFlag`) and its blocking (`Park`) are separate steps, because the code
takes no common lock. Both condition variables may wake spuriously. One controller
thread calls Suspend, Resume, Stop and SetSize, a loop iteration at a time:
`m_threads` has no lock, so the class admits no second one. `before` and `restopped`
are history variables.

**TaskPool** is what a pool promises, without workers or tokens: commands start in
priority order, at most `Capacity` at a time; a paused pool starts only urgent ones; a
stopping pool stops only when it has finished what it owes. `ThreadPool` refines it
(`ImplementsTaskPool`), with `Mode` and the sets of waiting, running and finished
commands as refinement mapping.

**StripeMap** has the address arithmetic of RAIDManager.cpp as operators.

**RAIDStorage** models Write and Read of concurrent workers, chunk by chunk: a step
for the primary's copy, one for the mirror's, then `m_offset_sizes` and the store's
Save, over the backend the arguments choose. With files, Save truncates first; a
minion named in `Flaky` may fail any call, and a failed write may have stored a prefix of its
chunk; a save may fail to open the file or run into a full disk (`MetaFaults`), both of
which the code ignores; `Crash` kills the process, leaves the file with whatever prefix
had been flushed, and restarts with what `Loads` may find in it: all of it, the entries
up to an error of reading, or nothing, if the file cannot be opened, which the code logs
and takes for an empty store. `unread` remembers such a start, and the next save, which
writes the smaller map over the file, turns it into `metaLost`. With memory, nothing fails and
`CrashMemory` loses everything. `GetDataSize` and `ListOffsets` are what a client is
told, and the properties are stated with them. A write's payload is its number, so a
byte says which write it comes from. `cand[b]` is the history of what a copy of byte
`b` may still hold: acknowledging a write removes every write that neither overlapped
with it nor came after it. Requests end below 2^64.

**MinionBounds** is the chunk loop again, for every offset a `size_t` has: the bounds
check of a minion computes `offset + buf.size()` modulo `SizeMod`, and a chunk that passes it is
transferred, refused by the system call, whose `off_t` is signed, or copied outside
the buffer of a memory minion (`CopyOutside`), after which nothing is known.

**TCPServer** models TCPDriverComm, InputMediator and Reactor, with clients, the
kernel's descriptor table and the sockets. `inbox` and `outbox` are the two streams of
a connection, as sequences of frame parts; `fdTable` maps numbers to connections, and
`accept` takes the lowest free one. The reactor thread handles one descriptor at a
time; `reading` is the request whose payload it is blocked on. A worker's reply is
written in one or two steps to whatever the number refers to then. Writing to a
connection whose peer has gone may be swallowed by the kernel, fail, or raise SIGPIPE,
which the program neither blocks nor handles: `server` becomes "dead". A request in
`Refused` may find no memory, for its buffer or for its entry in `m_allocations`: Notify
catches the exception and closes the connection although its client is there
(`ReceiveThrows`; its `link` is "dropped"). Storage results are chosen freely, and the pool starts any queued command.

**NBDServer** is the same path in NBD mode: one socket pair, a kernel that has up to
`depth` requests in flight and takes replies in any order by their handles, and
`workers` threads that write them in parts: a header, then, for a successful READ, the data, for
which `WriteAll` may need `Chunks` writes. `expect` is what the kernel's parser waits
for, and `torn` says that it has taken something for what it is not. `ReceiveRequest` may run
out of memory (`Refused`), upon which Notify removes the device's descriptor; the kernel
may shut the socket down between any two parts.

**NBDDriver** has NBDDriverComm's other side, its threads and `Disconnect`, which the
signal thread and the destructor run statement by statement without a common lock.
`doIt` is where the listener thread is with respect to NBD_DO_IT. NBD_DISCONNECT has the kernel
ask the server to end the session, which the mediator's handler ignores, so it does
not end NBD_DO_IT; closing `m_serverFd` would, but Disconnect joins the thread before it does that. The kernel may give
the device up by itself (`KernelDisconnects`).

**Plugins** follows an event from the directory to a mapped library: the kernel's
bounded queue, which overflows, merges equal neighbours, and goes on behind a queued overflow event once there is room; the wrapper's loop, which
reads up to `ReadMax` events and looks at the first; `Filter`, `NotifyAll`, `dlopen`,
`push_back` as steps of the listener thread; and against them `Register`,
`CallBackBuilt`, `CloseLibs`, `UnRegister` by the thread that constructs and destroys
PNP. `refs` counts the handles dlopen has given out, `libs` those in `m_libs`, `ctors`
the runs of a plugin's constructor functions.

**WatchdogMonitor** has the detached thread (`Test`, `Check`, `RestartWatchdog`) and the
process it watches. `watched` is whom the number recorded by `getppid` stands for: the
watchdog, the process that adopted the server when the watchdog had died before, or
another one that got the number later. `foreign` says that kill answers EPERM for it, and an
ended watchdog is a zombie, which still has its number, until its parent reaps it.

**Lifecycle** composes the last three with main: the arguments, `BuildStorage` to
`BuildPnp` in the order of RunServer's callers and its locals, `Serve`, `RunReturns`, and the
destructors in reverse order, any of them interleaved with commands in the pool,
plugin events, constructors that throw and signals. `inherited` is the signal mask the
process starts with: `RestartWatchdog` forks and execs from a thread that may block
SIGINT and SIGTERM, and exec keeps the mask. `masked` and `poolMasked` are the
masks that main has and the workers inherited; `SendSignal` delivers a signal as
the kernel does, to a thread that does not block it.

**Logging** models `Singleton<Logger>::GetInstance()->Write(...)` by several threads: the load of
`s_instance`, the lock, the second load, construction (or its exception), publication;
then the level test outside `m_mutex`, and a line as text and end of line.
`SetLoggerLevel` and `SetFileName` are another thread's. Memory is sequentially
consistent, which the acquire load and release store of `s_instance` justify. A write to
a file that is open succeeds.

The MC modules only give the constants values; Lifecycle, Plugins, MinionBounds and Logging get
theirs in their .cfg files.

## 3. Runs

| run | instance | checks |
|---|---|---|
| `pool` | 2 workers, commands of priorities Low, High and Admin, up to 3 stop and 3 suspend tokens | the type invariant; token arithmetic (`TokensCoverWorkers`, `StopTokensMatch`); `StopDrains`, `ExactlyOnce`, `SuspendHolds`, `NoStrayExit`; refinement of TaskPool; `CommandsRun`, `SuspendTakesHold`; `StopJoins`: only a worker that slept through Resume can keep Stop from returning |
| `pool_lost_wakeup` | 1 worker | violates `StopReturns`: finding 1 |
| `raid_faults` | both backends, 2 pairs of one-byte minions, 2 threads, 2 writes of up to 2 bytes, a failing primary, metadata faults at saves and at restarts, crashes | type invariant; `NoStaleCopy`; `MetaInSync` and `MetaDurable`: the saved metadata are the map, every acknowledged offset is listed, and what is listed lies inside the array; `SurvivesOneFailure` |
| `raid_stripes` | both backends, 2 pairs of two-byte minions, 2 threads, 2 writes, a failing mirror | `NoStaleCopy` for requests that straddle stripes at odd offsets; `RequestsReturn` |
| `bounds` | both backends, 1 pair of three-byte minions, `size_t` of 4 bits, every offset, requests of up to 7 bytes | `AcceptedFits`: what is accepted lies in the array; `DefinedBehaviour`: only with one pair, and only by a request that reaches 2^64, is memory accessed outside a minion |
| `tcp` | 3 clients, 2 descriptors for them, so that accept can fail; a READ and a WRITE of a client that waits and may hang up, a request with and one without a reply of a client that pipelines, the latter of which may be refused; 2 workers | `RepliesStayHome`; `FramesIntact`; `Answered`; `FdsReclaimed` |
| `tcp_sigpipe` | 1 client | violates `ServerSurvives`: finding 2 |
| `nbd_stream` | two READs, a WRITE, a FLUSH and a disconnect request; 1 or 2 workers, 1 or 3 requests in flight, data in 2 writes, no memory for the WRITE | `StreamIntact`: only two workers with two requests in flight tear the stream; `AnsweredOnce`; `Answered`; `EndNoticed` |
| `plugins` | 3 files, 2 of them named as plugins, 2 events in a read, a queue of 3, 1 file rewritten | `HandlesBalanced`; `NoLateNotify`; `HeadLoaded` |
| `lifecycle` | both modes, either signal mask, 1 worker, 1 queued command, 1 signal, 1 file in the plugin directory, `size_t` of 3 bits, num-minions absent or its greatest value | type invariant (of its parts too); `MediatorOutlivesCommands`; `RestartOnce`; `SignalNotLost`: a signal ends the process or leaves it in one of two joins; `DeathNoticed` |
| `lifecycle_signal` | the same without the command and the file | violates `SignalEndsServer`: finding 3 |
| `logging` | 3 threads with a message each, 2 files, 2 calls of SetLoggerLevel or SetFileName | type invariant; `OneLogger`; `LinesWhole`; `Logged` |

**Bounds.** Two workers are enough for one to take another's token, to hold the mutex
while another waits, and to exit while another runs; three commands give one at
the stop tokens' priority and below the suspend tokens', one between, at the latter, and
one above both. `StopBound` and
`SuspendBound` cap the tokens a behaviour can pile up; 3 with 2 workers lets a second
Suspend overlap with tokens of the first, and a SetSize follow a Stop. In RAIDStorage
two writes are what a race on a pair takes, and a third adds no new order on one byte;
offsets include the first one past the end. One-byte minions make every two-byte
request straddle two pairs; two-byte minions make a request start in the middle of a
stripe. In MinionBounds 16
values of `size_t` leave, with one pair of three-byte minions, offsets inside, past the end and near the
top, and requests of 7 bytes wrap around in their first chunk or in a later one. In TCPServer three clients over two descriptors are the least that closes,
reuses and exhausts numbers at once; a refused request behind another one of its client is what leaves a
reply without its connection. In NBDServer two READs whose data take two writes
each are the least that interleaves data with data, and the FLUSH interleaves a bare header; `workers`
and `depth` are variables of Init, so one run has the safe and the unsafe
configurations. In Plugins two events in a read lose one, four fill the queue past its
bound, and a rewrite gives a file a second and third handle. Lifecycle needs one command and one
worker for a command that outlives main's objects, and `SizeMod` = 8 makes 7 + 1 wrap; the
file in its plugin directory is not named as a plugin, and its events still fill the
queue past its bound, which ends the listener and with it the process. In Logging the third thread is
the one that waits for `s_mutex` while the first constructs and the second rechecks.

**Symmetry** of threads is used in `raid_faults` only, which checks no liveness.

**Deadlock** is checked in the pool and storage runs. A TCP or NBD run ends when the
clients have sent what they have, Logging when the messages are written, Plugins when
nothing more happens in the directory, MinionBounds with its request, Lifecycle with the
process, so there it is not.

**Fairness.** Each worker thread and the controller inside a call take the steps they
can (`WF` of `Worker(w)` and `Controller`): the threads run, mutexes are released, and
user commands return. Nobody has to begin a call, and no condition variable has to
wake spuriously. In RAIDStorage each thread finishes its request's enabled steps; the
metadata lock needs no strong fairness, since requests are what takes it and writes are
finite; for the same reason the two mutexes of Logging need none. In TCPServer the
reactor and the workers run (`ServerFairSpec`); `FairSpec` adds that a client that has
begun a frame finishes it or hangs up, which is what the server's blocking read relies
on. In NBDServer the kernel likewise sends the payload it owes and reads what it is
sent. In Plugins the listener thread runs; files appear when they like. In Lifecycle
each thread of the process runs, and so does the delivery of a pending signal to
sigwait; requests, signals, exceptions and deaths are not forced. Liveness is stated up
to the end of the process.

**Mutants.** Each property of a passing run has a mutant of a definition it depends on
(a dropped guard, a missing recheck, a lock not taken), written next to the definition
it varies, under which TLC finds the property violated.

## 4. What the checks found

Three runs expect a violation. Each states what a comment, a document or a test of the
repository says, and TLC shows how the code departs from it:

1. **Suspend followed by Stop can hang** (`pool_lost_wakeup`; `thread_pool.cpp:133`, against
   `test_thread_pool.cpp:124`). A worker reads the flag, Resume clears it and
   notifies, the worker blocks. Nothing wakes it again, and Stop joins it forever.
   `StopJoins` shows that there is no other way for Stop to hang.
2. **A client that hangs up can end the server** (`tcp_sigpipe`; `TCPDriverComm.cpp:177`,
   against the comment at 334): SIGPIPE is neither ignored nor suppressed.
3. **A signal does not end the server in NBD mode** (`lifecycle_signal`;
   `NBDDriverComm.cpp:243`, against `nbd/README.md:87` and `test_signals.sh:29`). The signal
   thread waits for the thread in NBD_DO_IT, which waits for a socket that is closed only
   afterwards. Where the kernel gives the device up, the signal thread goes on to join
   itself (line 248), which throws, and the process aborts.

How a signal can end the process, or not, is `SignalNotLost`. In TCP mode it does not
even begin the shutdown: the pool's threads were started before Reactor blocked the
signals (`LDS.cpp:59`), and take it with its default action. If the process was started
with the signals blocked, the pool has them blocked too, Run returns, and main is left in
`~PNP` (see below). In NBD mode the signal thread is left in the join of finding 3, or the
process aborts. There is no other outcome.

The models have more behaviour that a reader of the documentation would not expect. The
properties are stated so that they bound it, and hold:

* *Mirrors can diverge* (`RAIDManager.cpp:162`, against `README.md:462`). Two writes to
  one offset reach the primary in one order and the mirror in the other; both succeed,
  and reads change when the primary fails. `NoStaleCopy`: each copy still holds one of
  the two racing writes, never an older one.
* *Acknowledged metadata can be lost* (against `README.md:272`): by a kill during a save, since
  the file is truncated first and `Load` discards all entries if the last is incomplete
  (`FileMetadataStore.cpp:57`), and by a restart that cannot open or read the file, whose next save
  writes what little it has over it (line 30). `MetaDurable`: nothing is lost otherwise.
* *In an array of one pair a request that reaches 2^64 passes the bounds check*
  (`StorageMinionFile.cpp:72`, `StorageMinionMemory.cpp:28`). `AcceptedFits`: it is never
  acknowledged; a file refuses its negative offset, but a memory minion is accessed outside its bytes,
  which `DefinedBehaviour` confines to this case.
* *A reply can reach another client* (`TCPDriverComm.cpp:304`, against
  `TCPDriverComm.hpp:8`): the descriptor number was reused while the request was in the
  pool. `RepliesStayHome`: the rightful client had hung up, or pipelined and lost its connection to a
  request the server had no memory for (`TCPDriverComm.cpp:220`).
* *At the descriptor limit the listen socket is closed for good* (`InputMediator.cpp:99`,
  against `TCPDriverComm.hpp:6`; action `AcceptFails`): TryAccept answers a failed accept as it
  answers a client's descriptor. `Answered` leaves out the clients that are then never accepted.
* *A slow WRITE stops every client* (`TCPDriverComm.cpp:231`, against `README.md:113`):
  `Answered` needs clients that finish their frames.
* *NBD replies interleave* (`NBDDriverComm.cpp:226`, against `nbd/README.md:58`) when two
  workers answer and one reply has data; the kernel then takes one reply for the data of
  another. `StreamIntact` is about every other configuration.
* *The server is deaf after an NBD request it has no memory for* (`NBDDriverComm.cpp:200`,
  `InputMediator.cpp:120`): the only descriptor is removed, and the kernel waits.
* *`~PNP` does not return* (`dir_monitor.cpp:52`, against `test_dir_monitor.cpp:263`): it joins
  a listener whose loop nothing ends, so main never gets past it.
  `MediatorOutlivesCommands` holds for that reason: repairing `~PNP` alone would break
  it, as its mutant shows.
* *Plugins*: of the events in one read only the first is handled (`InotifyManager.cpp:40`,
  against `dir_monitor.hpp:6`; `HeadLoaded` is about that one); a plugin that is being copied,
  and is not whole when its first event is handled, makes `OnLoad` throw out of the listener
  thread, which ends the server (`soLoader.cpp:48`, against `test_pnp_main.cpp:21`); an event
  between `Register` and the rest of SoLoader's construction calls a pure virtual
  function (`pnp.cpp:9`); a notification under way while `UnRegister` erases reaches a
  destroyed SoLoader (`Dispatcher.hpp:73`), which `NoLateNotify` confines to that one.
* *A second watchdog can be started beside a living one* (`WatchdogMonitor.cpp:53`, against the
  comment at 54): kill answers EPERM for a process of another user. `RestartOnce`: there
  is no other way, and it happens once. It may happen after StopMonitoring (line 33),
  since the thread was detached.
* *The process watched need not be the watchdog* (`WatchdogMonitor.cpp:19`, against the comment
  at 18): getppid is called after everything has been constructed, and a watchdog that died
  by then goes unnoticed. `DeathNoticed` is about one that was recorded.
* *SetSize on a stopped pool leaves it without workers* (`thread_pool.cpp:106`, against
  `test_thread_pool.cpp:70`): its own Stop pushes tokens for threads that have ended, and the
  new threads take them and exit. The properties of the pool are therefore stated up to a
  Stop of a stopped pool (`restopped`).
* *num-minions = SIZE_MAX* is made even by wrapping around to 0 (`LDS.cpp:159`), which
  the factory refuses.
* No request is given a priority, so reads overtake queued writes
  (`InputMediator.cpp:13`, against `README.md:91`; `StartCommand`); and replies of two
  workers to a client that pipelines interleave (`TCPDriverComm.cpp:308`; `FramesIntact` is
  therefore about the others, among them client.py).

## 5. What is proved

**ThreadPoolProofs**, for any finite set of workers, any commands and priorities and any
bounds. `PoolInvariant` is an inductive invariant that counts. Neither
`StopTokensMatch` nor `TokensCoverWorkers` is inductive as it stands: that a worker which
takes a token leaves the count exact needs to know that `m_threads` agrees with the
workers that exist, that none has exited when a Stop begins to push, that the flag is
clear from Resume's first statement on, and that a worker executes a command exactly
when `running` says so (`Consistent`); that Stop drains needs that what it owes is
queued, running or done, and out of the queue from the moment a worker has taken a stop
token (`DrainInv`). Cardinality facts enter through a few lemmas (a worker that
changes sets changes their sizes by one). From the invariant follow `TypeCorrect`,
`StopTokensExact`, `SuspendTokensSuffice`, `CommandsExecuteOnce`, `StopDrainsPool`, and the
action properties `SuspensionHolds` and `NoWorkerStrays`.

`PoolRefinesTaskPool` is the refinement of TaskPool: the initial states map to initial
states, and each action to a step of TaskPool or to none. Most are invisible (waits,
wakeups, tokens). What carries weight: a pop starts a command only when nothing of a
higher priority waits and, in a paused pool, only an urgent one, which is what
`SuspendTokensSuffice` is for; fewer than `Capacity` commands run before a worker takes
one; and when the last worker has been joined, what Stop owes is finished. `Mode` also
looks at which workers have exited, so the mapping needs one more invariant
(`StoppedInv`): until Stop is called on a stopped pool, between two calls all workers
have exited, or none has.

**TCPServerProofs**, for any clients, requests, workers and descriptor limit:
`ServerTypeCorrect` and `RepliesReachTheirClients`. The invariant says that every
part in an inbox was sent on that connection by a request that got that far
(`InboxInv`), and that the descriptor a request in the pool, or being read, came from still refers to
its connection unless that was cut off (`SourceInv`, `CutOff`): closed by its client, or by
the server for another request of a client that pipelines. One that does not has no other
request in the pool when the server drops it (`OneAtATime`), which is why its replies never
go astray. `RepliesAreFramed` adds that a client that
does not pipeline has at most one request under way and that, while a worker is between
the header and the payload of its reply, the header is the last thing in the client's
stream (`HeaderLast`); so nothing comes between the two although no lock is held.

**RAIDStorageProofs**, for any number and size of minions, any threads and bounds, any set
of failing minions, both backends: `StorageTypeCorrect`, `MetadataInSync`,
`MetadataDurable`, `CopiesNotStale` and the action property `OneFailureSurvived`. First
come lemmas about the address arithmetic of StripeMap: division with remainder, products that are
monotonic, a chunk stays in its stripe, and different bytes have different places, on a
mirror that is another minion than the primary. Then the invariant, in four parts. A
thread's chunk begins inside the array or just past its end, and a request that left
the loop has passed every bounds check (`ChunkInv`). The store lags behind the map only
under the lock, and has what was acknowledged except in the middle of a save; after a
start that did not read all of it, until the next save, it still has more than the map
(`MetaInv`). `NoStaleCopy` is far from inductive: acknowledging a write drops
candidates, so before it does both copies must already hold the write or a rival of it.
That is `Copied`, for the bytes of finished chunks, and `HalfCopied`, for those only the
primary has; they are kept against other threads because two writes under way are each
other's rivals (`MutualRivals`), and against failing minions because a write that has
stored a prefix is still a candidate (`Candidate`).

**MinionBoundsProofs**, for any number and size of minions, any width of `size_t` that holds
twice the array, and any request: `AcceptedRequestsFit` and `AccessDefined`. The loop moves
on by exactly what it has transferred, and once it has moved it is at most at the end of the array
(`LoopInv`), so only a first chunk can lie near 2^64; with two pairs or more its local
offset is at most half of that, and the check's sum does not wrap around.

**NBDServerProofs**, for any requests, numbers of workers, depths and writes per reply:
`NBDTypeCorrect`, `RepliesParse` and `RepliesOnce`. Whatever is in the stream has been
written by a worker that is past it (`WrittenInv`), and a request's header is read once
(`InboxInv`), so that, as long as the kernel has parsed the stream, it waits for every request not
yet answered, and each header in the stream is for one of those and there once
(`AnswerInv`). With one worker, or one request in flight, the stream is exactly what the
kernel will expect, part after part, and the one reply under way goes on where the
stream ends (`SerialInv`): with one worker because it finishes a reply before the next,
with depth 1 because the kernel sends nothing until it has read the whole reply. That
a READ is needed to tear it is `TornInv`.

**PluginsProofs**, for any files and sizes of queue and read: `PluginsTypeCorrect`,
`HandlesAreBalanced` and the action property `NoNotifyAfterUnregister`. The queue exceeds its bound by one overflow
event at most, at its end (`QueueInv`); the callback is subscribed from its construction
to its deletion and nothing is opened before (`LoaderInv`); every handle is in `m_libs`,
but the one that `dlopen` has returned to the listener (`HandleInv`).

**LifecycleProofs**, in both modes, for any workers, commands, signals and plugins:
`LifecycleTypeCorrect`, `CommandsHaveMediator` and the action property
`WatchdogRestartedOnce`. The proof is compositional: a step of Plugins inside Lifecycle keeps the
invariant of Plugins by the very lemmas of PluginsProofs, and the watchdog and the NBD
driver have their own. That commands meet their mediator needs that there are commands
only while all is constructed (`PoolInv`), which is so because main does not get past
`~PNP`; that the watchdog is restarted once, that the thread ends with its first restart
that the process recorded is the watchdog as long as that lives, and that the thread
restarts only if that is gone or may not be signalled (`WatchInv`).

**LoggingProofs**, for any threads, messages and files: `LoggingTypeCorrect`,
`OneLoggerForAll` and `WholeLines`. `OneLogger` alone is not inductive: a thread about to construct
must know that no Logger is owned, which holds because one that is owned and not yet
published belongs to the thread that holds `s_mutex` (`SingleInv`). For `LinesWhole`, a
file whose last unit is a text is the open one, and its writer holds `m_mutex`, so
that neither another line nor `SetFileName` comes between (`TextInv`); a second
construction would reopen the file, so this part rests on the first. That appending a
unit keeps texts and ends of line alternating is a lemma about sequences.

The proofs assume what the named ASSUMEs of the modules say of the constants
(finiteness of the workers, types, sizes that are positive, descriptor names distinct
from connections, "none" not a file or thread). TLC evaluates them in the runs.
`PluginsAssumption` of Lifecycle repeats those of Plugins, which an INSTANCE does not bring
along. TLC finds each inductive invariant to hold on the instances of section 3.

**Only model-checked**: liveness. `StopJoins`, `CommandsRun`, `SuspendTakesHold`,
`RequestsReturn`, `Answered` (of TCPServer and of NBDServer), `FdsReclaimed`,
`EndNoticed`, `HeadLoaded`, `SignalNotLost`, `DeathNoticed` and `Logged` rest on fairness and ENABLED,
which the provers do not handle. Every invariant, every action property and the
refinement that the passing runs check are also theorems. The properties that
runs violate are false, and stay with TLC for that reason.

## 6. Left out, and the plan

Not modelled:

* logging's wording, formatting and the screen; the GUI and test helpers;
* `Factory`, `LocalStorage`, the legacy `StorageMinion`, `Loader` and `msg_broker`, which the
  program does not use;
* `client.py` beyond connecting, sending and hanging up: its timeouts, the late reply it
  takes for the next one's, and the request sent again after a reconnect;
* the contents of `.tcp_allocations`, which is reloaded at a start and read by nothing;
* what a descriptor closed twice by two concurrent `Disconnect`s may hit meanwhile;
* what other file of the process may get the number a stray reply is written to;
* a write to a log file that is open and fails, as on a full disk: the stream then drops this
  message and the later ones;
* a bounded send buffer: a client that does not read blocks the worker that writes to it.

Planned, in this order:

1. *ClientSession*: client.py's timeouts and retries, composed with TCPServer's streams;
   bounded send buffers.
2. *A client's view of storage*: an abstract specification of one byte that has two copies
   (a regular register), and RAIDStorage as an implementation of it, from `RAIDInvariant`.
