# Verification of the Linux/Unix course programs

TLA+ models of the concurrent programs in this repository, the TLC runs that check
them on small instances, and proofs that TLAPS checks for every instance. The
repository is a course: an assignment (`Assignment1`) with its test bench, a second
assignment that is only a stub, and lecture examples (`L1` to `code_l12`). There is no
single system; each program is a small system of processes, threads or signal handlers.

## 1. Inventory

| Component | State | Operations | Hard behaviour | What makes it correct | Modelled |
|---|---|---|---|---|---|
| Morse codec, `Assignment1/morse.c` | the table | encode, decode a character or a text | damaged input, prefixes, separators | round trip; damage stays local | `MorseCode`, `MorseCodec` |
| Morse link, `Assignment1/as1_mockup.c` | child's text and position; the kernel's pending signals; parent's `flag`, `start_time`, `morseBuf` | read, encode, `kill`; handler; polling loop; decode, write | signals that merge, nest and overtake; `flag` overwritten; ten-second limit; handlers not there yet | nothing invented or reordered; with its timing, the output is the input | `MorseLink`, `MorseChannel`, `MorseLinkProofs` |
| Test bench, `as1_testbench.c` | two files, a child | writes an input, forks and waits for the program, compares, removes | what an earlier or a concurrent run leaves in the files; programs that fail, or leave no output | a test passes only when its input was copied; (of `as1_mockup.c` it expects `TransmittedIdentical`) | `TestBench`, `LoopProofs` |
| Bank client, `Assignment2` | none | none finished | none | none | no: a stub |
| POSIX mailbox, `code_l7/shared_posix.c`, `shared_posix_hax.c` | two semaphores, one shared buffer | server: wait, print, post; client: wait, `fgets`, post | kills between wait and post, end of stdin, stale names | one owner of the buffer; each message printed once | `SharedPosix`, `SharedPosixNames`, `SharedPosixHax`, `Mailbox`, `SharedPosixProofs`, `SharedPosixNamesProofs`, `LoopProofs`, `ProgramProofs` |
| System V mailbox, `code_l7/shared_sysv.c` | a semaphore set with `SEM_UNDO`, the buffer | the same, and removal of the set | the kernel's undo, its range, removal under waiters | as above until an undo; no waiter left behind | `SharedSysv`, `SemaphoreProofs` |
| Semaphore menus, `sema_posix.c`, `sema_sysv.c` | a counting semaphore | request, release, try, leave, remove | exit or kill while holding, removal in use | each resource is free, held or lost, never doubled | `SemaPosix`, `SemaSysv`, `ResourcePool`, `SemaphoreProofs` |
| Message queues, `msend_*.c`, `mreceive_*.c` | a queue | send, receive, remove | full queues, `E2BIG`, texts cut short, removal by the first receiver that gets an empty message | each message once, in order | `MessageQueues`, `ProgramProofs` |
| Turn-taking threads, `code_l9/thread_cond_array.c` | mutex, condition, `thd_id`, array | `thread_routine`, main's turns | lost, early and spurious wake-ups | each thread its own turn; main ends | `ThreadTurns`, `ThreadProofs` |
| Mutex threads, `thread_array.c`, `thread_array_nomutex.c` | mutex, `global_seed`, array | `thread_routine` | lost updates | all stored; all counted under the mutex | `ThreadArray`, `ThreadSeed`, `ThreadProofs` |
| Read-write lock, `thread_rwlock_array.c` | rwlock, `readers`, `writers`, array | `arr_read`, `arr_write` | a counter changed by readers at once | a reader sees whole writes; the assertions hold | `ThreadRwlock`, `ThreadProofs` |
| Barrier, `thread_barrier.c` | a barrier | `a`, `b` | none beyond the library's barrier | every thread gets through, and main joins it | `ThreadBarrier` |
| Thread basics, `code_l8` | none shared | create, join, cancel | none | none | no: one thread, joined at once |
| Signal loops, `L4/signal*.c`, `code_l10` service, `L6/rtssignal.c` | a flag, a pipe or a mask | handler, main loop | a signal between check and `pause`; a handler that waits for its own main program | signals are reported, in order | `SignalLoops`, `LoopProofs`, but for `rtssignal.c` |
| Processes, `L4` fork, exec, daemon | process tree, a FIFO | fork, exec, wait; the daemon reads and logs | a FIFO that is there, or goes away; `errno` of an earlier call | the log is what was written | `Daemon`, `LoopProofs`; the other programs not |
| Multiplexed input, `L5/mpx-*.c` | two FIFOs | read, select, poll, aio | data nobody is woken for, ends of FIFOs, buffers that touch | what is written is printed | `MultiplexedInput`, `Fifos`, `ProgramProofs` |
| Writers and locks, `L5/writer.c`, `writersync.c`, `lock.c` | a file, a lock | write, lock | two holders, refusals | exclusive access | `RecordLock` for `lock.c`, `LoopProofs`; the writers not |
| Pipes and sockets, `L6` | connections, children | accept, fork, reap, copy | signals of children that merge, servers that replace each other | each child reaped, each peer answered or copied | `ConnectionServer`, `UnixSockets`, `LoopProofs`; `pipe.c`, `fifo.c` not |
| epoll server, `code_l11/epoll-example.c` | epoll set, batch of events, connections | `epoll_wait`, accept, add, read, write, close | edges reported once, reused descriptors, failed accepts | no data, end or connection forgotten; events fresh | `EpollServer`, `EpollServerProofs` |
| Other event programs, `eventfd.c`, `signalfd.c`, `libevent_example.c` | one descriptor | read in a loop | a signal before the descriptor is there | signals are reported | `signalfd.c` in `SignalLoops`; the others not |
| OpenMP, `code_l11/omp_*.c` | loop results | parallel loops | in generated code | none stated | no |
| Basics `L1`, `L2`; graphics `code_l12`; packaging `code_l10` | none of their own | print, draw, install | none | none | no: sequential, library callbacks, or metadata |

How they interact: the two processes of the Morse link share no memory after the fork,
only signals, with the codec on both sides. Server and clients of the mailboxes share a
buffer and two semaphores. The programs of `code_l9` share the shape "main creates
threads and joins them" and everything else within one process. The programs that wait for input share the shape "a loop waits for one
of several strangers": writers, senders of signals, peers, children, users.

`PROJECT.json` lists the hazards, each at its line, with the properties aimed at it.

## 2. Modules

| Module | Models | State and actions |
|---|---|---|
| `MorseCode` | `morse.c` as operators: `morseTable`, `encodeToMorse`, `stringToMorse`, `decodeFromMorse`, `morseToString` (strtok's tokens), and `Normalised`, the reference: what a transmission should deliver, said without the codes | none |
| `MorseCodec` | one text through `morse.c`, with all its symbols, only the first ones, or all but one | `text`, `morse`, `heard`, `decoded`; `Encode`, `HearAll`, `HearPrefix`, `HearAllButOne`, `Decode` |
| `MorseLink` | `as1_mockup.c` from the fork on, with Linux's signal delivery between the two processes | see below |
| `MorseChannel` | the abstract reliable FIFO channel the program takes its signals for | `sent`, `delivered` |
| `Mailbox` | the abstract one-slot mailbox of `code_l7` | `posted`, `printed`, `up` |
| `SharedPosix` | the loops of `shared_posix.c` and, as they are the same, of `shared_posix_hax.c` | the two semaphores, the buffer, a place in the code for each process |
| `SharedPosixNames` | how the three names of `shared_posix.c` come and go | what each name leads to, what each process has opened; `sem_open`, `OpenShm`, `delete` one assertion at a time |
| `EpollServer` | the event loop of `epoll-example.c` over Linux's edge-triggered epoll | connections, queue of the listening socket, ready items, the batch, a place in the loop |
| `SharedSysv` | `shared_sysv.c` and the kernel's `SEM_UNDO` sums | `semval`, `semadj`, `removed`, the buffer, a place for each process |
| `ResourcePool` | the abstract pools of resources the menus promise | `free`, `held`, `lost` |
| `SemaMenu`, `SemaPosix`, `SemaSysv` | `sema_posix.c`, `sema_sysv.c`, and what they have in common | the semaphores the kernel finds, their values, and for each process its semaphore, `semheld`, its place and its end |
| `ThreadMain` | what the programs of `code_l9` share | `pc` of each thread, `mama` (main), `mem` (globals), `local` |
| `ThreadTurns`, `ThreadArray`, `ThreadSeed`, `ThreadRwlock`, `ThreadBarrier` | one program each | one action per access to memory another thread may use |
| `CourseProgram` | what the programs that wait for input share | `program`, `at`, `os` (the kernel's objects), `local`, and the histories `sent` and `got`, by channel |
| `Fifos` | FIFOs with the strangers who write into them | `WriterOpens`, `WriterWrites`, `WriterCloses`; what a read finds |
| `MultiplexedInput` | the seven `mpx-*.c`, on `Fifos` | one operator per program, with its loop, waits and exits |
| `Daemon` | `daemon.c`, on `Fifos` | two forks, `setsid`, `closeall`, `mkfifo`, `stat`, `open`, `process` |
| `SignalLoops` | `signal.c`, `signal-good.c`, `signal-better.c`, `signal-block.c` (and `signal2.c`), `service.c`, `signalfd.c` | pending and blocked signals, the pipe; handlers and main loops |
| `MessageQueues` | both pairs of senders and receivers | the queue, who has opened which; one action per call on it |
| `RecordLock` | `lock.c` | the locks; `getlock`, `unlock` |
| `ConnectionServer` | `ip_server.c` | the backlog, the children, `SIGCHLD`; the server, a child, `sigchld_handler` |
| `UnixSockets` | `userver.c`, `uclient.c` | whose socket the path is, connections; server, client |
| `SharedPosixHax` | how the segment of `shared_posix_hax.c` comes and goes, with its semaphores | the name, sizes, values, and how often they were initialised |
| `TestBench` | `as1_testbench.c`, and the program under test as it sees it | the two files and their names; `test`, `child` |
| `...Proofs` | proofs about the module they are named after; `ThreadProofs` about `MCThreads`, `SemaphoreProofs` about `MCSemaphores` and `ResourcePool`, `LoopProofs` (the invariants of most programs) and `ProgramProofs` (those of the message queues and of `mpx-*.c`, and the theorems) about `MCPrograms`, so that each theorem states the property of the run | |
| `MC...` | instances for TLC; `MCThreads`, `MCSemaphores` and `MCPrograms` choose one of their programs in `Init`, `MCMorse` runs the codec and the link | |

**MorseLink in detail.** The child is `Read`, `ReadNothing`, `Wake` (end of `sleep(2)`,
then `stringToMorse`), `Send` (one `usleep` and `kill`), `Finish`, and `Overrun` for a
text without any known character, where `strlen(morseBuf)-1` wraps. The kernel part:
`pending` holds a standard signal at most once; `KernelEntry` is any interrupt or system
call of the parent; `DeliverSignal` pushes the deliverable signal of lowest number as a
handler frame, so that several pending signals nest and the one delivered *last* runs
*first*; a handler blocks only its own signal; with no handler installed the signal
kills. The parent is `Install` (four `sigaction` calls), `Start`, and the polling loop:
`CheckClock`, `Probe` (each `flag == k` comparison on its own), `Clear` and `setString`
in the order the branches have (the first clears and stores, the others store and
clear), then `Decode`, `Write` (short writes included), `WriteFails` (`EINTR` too: the
handlers have no `SA_RESTART`), `Exit`. `flagAt`, `readAt` and `got` are history: they say
which sent symbol a value came from, and no guard reads them.

A handler's single assignment and its return are one step: another handler may run
before it or after it, and between the two there is nothing to tell them apart.
`getppid()` after the parent's end names init, where the signal is dropped.

**SharedSysv in detail.** Each `semop` carries `SEM_UNDO`. The kernel sums, per process
and semaphore, what the operations took (`semadj`) and adds it back at the process's
end, not below zero and not above its largest value (`Undo`, `Capped`). `locksem` and
`unlocksem` fail when the set is removed or a value or sum would leave its range; the code
asserts that they do not fail, so `Abort` ends the process, which runs `Undo` too.

**SemaPosix and SemaSysv in detail.** The semaphore operation and the change of `semheld` after
it are two steps, so that a kill between them takes a resource nobody counts. Neither program
uses `SEM_UNDO`: what a process has when it ends is lost. `sema_posix.c` looks its
semaphore up by name, and `sem_unlink` removes whatever the name leads to by then;
`sema_sysv.c` gives it by id, makes it before it has a value, and its server removes it,
whereupon operations fail an assertion. Menu choices answered with a message only, and
`getvalue`, are no steps.

**SharedPosixNames in detail.** `sem_open` with `O_CREAT` and without `O_EXCL` takes over an
object that the name leads to, with its value; an object stays with those who opened it
after its name is unlinked. A server that exits unlinks the names one after the other,
and each unlink asserts that the name was there; a server that is killed leaves them.
An interrupt kills before `sigaction` and exits after it. The messages are left out:
`SharedPosix` has them. `mixed` and `company` are history.

**EpollServer in detail.** An item of the epoll set becomes ready when something happens
to its socket, or at `EPOLL_CTL_ADD` when something has; `epoll_wait` reports each ready
item once, in any order, at most `MAXEVENTS` at a time, with what it finds then. A
descriptor is the lowest free one, so that one closed in a batch can be given to a
connection accepted in the same batch. Actions are the branches of the loop: `CloseOnError`,
the accept loop (`Accept`, `Add`, `AcceptedAll`, `AcceptFails`), the read loop (`Read`, `Write`,
`ReadAll`, `ReadEnd`) and `Abort`. A write to stdout may be cut short, which the code does
not notice (`cut`).

**Thread modules in detail.** A step is one access to shared memory or one lock
operation, so every race of the source is one of the model. What a thread does alone
under a mutex is still several steps where dropping the mutex would matter. A random
number is its place in the generator's sequence; an element of the read-write array is
the number of times it was incremented. `sched_yield`, `printf` and sleeping change
nothing that the steps do not already allow. `ThreadTurns` lets `pthread_cond_wait`
return without a broadcast (`Spurious`), as POSIX does.

**MultiplexedInput and Daemon in detail.** The n-th thing written into a FIFO is n, so what
is printed (`got`) can be compared with what was written (`sent`). A read takes up to `Block` of
it; a print goes with its read, except in `mpx-aio.c` and `mpx-aiosig.c`, where the C library's
threads fill a buffer, main terminates it and prints it. The zero that ends a full `buf[0]` is in
`buf[1]` (`full`, `wiped`); the one that ends a full `buf[1]` is behind the whole array. What is there
depends on the build: padding, with the Makefile's `-Os`, or `cbs` without optimisation, the low
byte of whose first descriptor it clears. `Spoilt` has both outcomes; with the second an asynchronous read of
`p1` that has not begun goes to standard input (`AstrayRead`, `astray`). `Stranded` names the waits in
which a program does not look at a FIFO: `mpx-blocks.c` waits for the other one, `mpx-aiosig.c` is in
`pause` and the last signal came when it was not (`late`). In `daemon.c` an `errno` left by `closeall` decides whether `mkfifo` counts as failed,
and a read of 1024 bytes lets `str[len]` fall behind `str`, where it may hit `fd`.

**SignalLoops in detail.** The kernel keeps one signal of a kind pending. `Deliver` runs a handler
wherever main is: in `pause` or `sleep` it also wakes main, before them it does not. A handler that
writes into a full pipe waits for the program it interrupts (`"stuck"`). The handlers are installed one
`sigaction` after the other (`handlers`), and a signal without one kills. Where a signal counts as sent is
chosen so that nothing is excused: when it is pending, for the programs that report each one
(`SentAtOnce`: `signal.c`, `signalfd.c`, and `signal-block.c` while it holds `SIGQUIT` off); when the handler
runs, for those whose handler only notes it. `signal-good.c` can overwrite `mysignal`, and can be
in `pause` with a signal it has not reported. `Settled` (`LastReported`) allows the second only where the last signal
came outside `pause` and before the first comparison had been made (`late`).

**MessageQueues in detail.** POSIX queues order by priority; System V receivers take the first
message of their type. The POSIX sender counts four bytes for the type that takes eight, so
the receiver loses four characters, or prints what its buffer still holds. `E2BIG` leaves a
message in the queue and doubles the buffer. An empty message makes a receiver remove the
queue, under whoever waits for it.

**RecordLock, ConnectionServer, UnixSockets in detail.** A refused `F_SETLKW` (`ENOLCK`) is followed by
`F_GETLK` and another try. `ip_server.c`'s handler reaps in a loop since `SIGCHLD` merges; its
server counts a failed `fork` as the parent and closes the connection. A second `userver.c`
unlinks the first one's socket, between whose `unlink` and `bind` there may be a third party;
connections made before stay.

**SharedPosixHax in detail.** Each server that starts runs `sem_init` on the semaphores in the
segment, in use or not: `inits` counts how often, and the properties say what holds until the
second time. One server is enough to lose a message: a client that comes between its two calls of
`sem_init` finds `empty` at one, posts `full`, and the second call puts it back to zero (`wiped`). `sent` and `got` count
the messages announced and taken, so that such a message is not passed over. A client that comes before `ftruncate` dies of a bus error.

**TestBench in detail.** All runs of the testbench in one directory use the same two file names,
and a failed test leaves its files there. The program under test may be any: in a pipe test
the child opens its files for it; in a file test it opens its output itself, as it likes (`Choices`), or not
at all. It copies none, half or all of its input and ends with any status. The testbench expects an output
from each that ends with 0: without one it crashes in `compare_file`, or compares with a file that was left
there. `kept` marks those tests, which `InOrder` names as its exception. With one seed two runs make the same inputs.

## 3. Runs

| Run | Shows |
|---|---|
| `morse_free` | The codec: `RoundTrip`: when every symbol arrives the decoded text is the normalised text. `CutCostsOneCharacter`: a parent that gives up early has every finished character and at most one invented from the start of a code. `LossIsLocal`: one lost symbol costs at most one character, or the two that a lost separator joins. The link, with no assumption on timing: `SubsequenceOfSent`, `NoOvertaking`, and the types. |
| `link_paced` | With the program's timing assumptions: `NeverKilled`, `OutputIsInput`, `ReliableChannel` (refinement of `MorseChannel!Spec`), `ParentFinishes`. |
| `posix_mailbox` | `BufferExclusive`, `NeverTorn`, `NeverStuck`, the refinement `OneSlotMailbox`, `EventuallyPrinted`, with clients and server stopped anywhere. |
| `posix_names` | `ExclusiveUnlessMixed`: with several servers, one after the other or at once, taking over what killed ones left, a segment has one owner at a time, unless some processes share a part of the three objects, which takes a delete. `AbortsExplained`: which failed assertions are possible. |
| `epoll` | `NothingForgotten`: back in `epoll_wait`, whatever waits on a socket will be reported, but for connections left by a failed accept. `EventsFresh`: no event of a batch speaks of a descriptor that has changed hands. `EventuallyPrinted`, `EventuallyClosed`. |
| `semaphores` | Three programs, one at a time. `shared_sysv.c`: `MailboxUntilUndo`, the mailbox promise holds until some process with a sum ends; `UndoRestores`, values and sums always add up to the first values unless an undo was cut off at zero (then one may be cut off at the largest value, too); `AbortsExplained`, `NobodyWaitsForRemoved`. `MenusArePools`: each semaphore of `sema_posix.c` implements a pool of two resources, of `sema_sysv.c` of one. `sema_posix.c`: `SemaphoresCounted`, a second semaphore takes a removal. `sema_sysv.c`: `AbortsAfterRemoval`, which assertions fail. |
| `threads` | `TurnsKept`, `AllStored`, `ThreadsCounted`, `SnapshotWhole`, `WritersCounted`, and `ProgramsEnd`, also of `thread_barrier.c`. |
| `programs` | The programs on `CourseProgram`, one at a time, each conjunct stated in its module. `InOrder`: what a program makes of its input is its input, in order, without a gap where nothing may be lost. `FailuresExplained`: it gives up, or fails an assertion, only for a reason from outside. `Exclusive`: one writer of the locked file, one owner of the segment. `EverythingSettles`: when nothing more comes from outside, it has dealt with all that came, but for what its module names. |
| `codec_worst_case`, `link_identical`, `sysv_empty`, `threads_readers` | violations of what the repository says of the program: see Findings. |

### Bounds, and why they are enough

- `morse_free`, codec: all texts of up to two characters from the table and three outside it, and of up
  to four from five kinds (one symbol long, the longest, the space, lower case, none). The
  code treats characters one by one; two neighbours show every interaction, four show a
  neighbour on both sides of a lost separator.
- `link_*`: three texts that use all four signals and have equal and different neighbours,
  and one without any known character (`Overrun`);
  `morse_free` takes every schedule. `BLOCKSIZE` 4096 is 4: the paced texts are shorter, so
  that a short read can cut them. The limit of 10 s is 10 in `link_identical`; it is 5 in
  `link_paced` and 1 in `morse_free`, where the timing assumptions or nothing relate it to
  the child; what counts is that it exceeds the two seconds of sleep and the seconds
  `Pacing` grants around them (`link_paced`), or may pass at any moment (`morse_free`).
  `MaxTime` stops the clock later than any paced run lasts.
- `posix_mailbox`: three clients, two lines and three posts, so that a second client waits
  while one holds the buffer, and a third post follows an answered one.
- `semaphores`: for `shared_sysv.c` the kernel's range of 32767 is 2, so that a process reaches both
  of its ends; four posts go past it. The menus have two servers and two clients: two
  semaphores, on one of which three processes compete for two resources. `sysv_empty` takes the real range.
- `posix_names`: two servers and two clients, each running once: a take-over, an overlap, and
  a client before and after it.
- `epoll`: three connections and two descriptors, so that accept runs out of them and one is
  used again; batches of up to two of three sockets; reads of one byte, two bytes in all,
  so that one event takes two reads. Connections are numbered in the order they are made,
  which loses nothing as peers are alike.
- `threads`: three threads, the least with a middle one in turn; one round of reading or
  writing for 1000, so that with three threads every pair of reader and writer meets; one
  spurious wake-up per thread. `threads_readers` needs two rounds and two threads, for a reader pair and a writer afterwards.
- `programs`: the two FIFOs of the code, three writes and three openings, so that one FIFO ends
  and gets a second writer while the other goes on; reads of two, so that one is full and a
  short one follows. Four signals of two or three kinds, a pipe of two (the code: 65536), so that
  it fills. Three senders and two receivers, messages of lengths 0 to 2 (empty, fitting, too
  big once), two priorities, a queue of two (the code: 3), so that a sender waits. Two servers,
  two clients and three posts for the segment and the sockets; three lockers with two
  refusals: a reader pair and a writer; three peers, so that two children end during one
  handler; two runs of the testbench with a file test and a pipe test each.

Deadlock is not checked, as every program stops. That none stops too early is what
`ParentFinishes`, `NeverStuck`, `NobodyWaitsForRemoved` and `ProgramsEnd` say.

### Fairness

- The Morse processes: `WF(Parent)` and `WF(Kernel)` are the scheduler and the return from
  an interrupt. `WF(Child /\ Pacing)` and `WF(Tick /\ Pacing)` say that the child is scheduled
  and time passes as the assumptions allow. `Pacing` has three named parts: `SignalsSpaced`
  (the millisecond of `usleep` suffices to store a symbol), `ParentPrompt` (handlers installed
  and symbols stored within a second) and `ChildOnTime` (input within a second, no delay
  longer than that). They are assumptions on timing that the code makes and does not
  enforce; `link_identical` drops the first.
- The mailboxes: the server, once past its wait, is scheduled. Users owe nothing, so nothing
  obliges a client to answer its menu or its `fgets`.
- The epoll server: it is scheduled (`WF(main)`); peers owe nothing.
- The threads: weak fairness of main and of each thread, without the spurious wake-ups. Weak
  fairness suffices although locks are contended, as each thread takes its lock a bounded
  number of times.
- The programs that wait for input: every process that can go on does (`WF` of its `Step`), the C
  library's reads and the kernel's delivery of signals included, and users of `lock.c` and
  of the program under test do not wait for ever; that program ends, as the testbench
  waits for it without a limit. Whoever writes, connects, sends signals, chooses from a menu,
  types or kills owes nothing.

## 4. Proofs

`SharedPosixProofs`, under `SharedPosixAssumption` (the placeholder lines are not messages),
for any number of clients and messages and any bound: `TypeCorrect`, `Exclusion`
(`BufferExclusive`), `NoTornLine`, `NoDeadWait` (`NeverStuck`), and `ImplementsMailbox`: every
behaviour satisfies `Mailbox!SafeSpec`. None of these is inductive as it stands:
`BufferExclusive` says nothing of a semaphore worth two, and the refinement needs to know
what a posted semaphore says of the buffer. `Inv` follows one token that is in `sem_empty`,
with a client, in `sem_full` or with the server (`OneToken`, `FreeToken`), says what its place
says of the history (`Unprinted`, `AllPrinted`), and that a torn line means that the token is
gone (`Whole`).

`SharedPosixNamesProofs`, for any servers and clients (disjoint, and the placeholder is no server):
`OneOwnerUnlessMixed` (`ExclusiveUnlessMixed`) and `NoOtherAborts` (`AbortsExplained`). The values of
the semaphores are no help by themselves, as a semaphore may be made, used and forgotten by
processes that never meet. The invariant therefore speaks of groups: while nobody mixes objects,
who shares one shares all (`Groups`), and a group has one turn among its two semaphores and
its members (`Turns`). A group comes into being when its first process opens its last
object; that its semaphores still have their first values then is `Unused`, which takes that
an object is known by a process that has it open (`Created`). That mixing takes a delete is `OneEach`:
before the first one a name leads to one object for ever. For the aborts, `Alone`
says that a server without company finds its names as it left them.

`SemaphoreProofs`, under `SharedSysvAssumption`, `MCSemaphoresAssumption` and those of the
modules they are about (finitely many processes; the placeholder is nobody's name; `SEMAEM` is
positive). For `shared_sysv.c`: `OneTurnUntilUndo` (`MailboxUntilUndo`), `NothingTakenTwice`
(`UndoRestores`) and `MailAbortsExplained` (`AbortsExplained`). The slot is empty, full or in one
process's turn (`OneSlot`); it is not needed to know how much a process owes, only that one in
its turn owes something (`Owing`), so that its end is an undo. That the kernel's other limit, the largest
value, does no harm before zero does takes a proof of its own: no process has given more than it took, so what
the others owe together is not negative (`NothingOwed`), and an undo that is not cut at zero leaves at most
one in the two semaphores (`NoneTooGreat`). `UndoRestores` is a sum over all processes,
computed by a fold whose recursion no prover here unfolds by an induction theorem. `Restored`
says instead that *some* function on the sets of processes is additive and gives the
value that is missing: such a function is easily carried through a step, which changes the sum of
one process. `AddsUp` shows that any additive function is the fold: otherwise there
is a smallest set on which they differ, and taking one process away gives a smaller one (the minimal
element is a fact of the library that takes no operator).

For the menus: `ImplementPools` (`MenusArePools`), every behaviour of `sema_posix.c` satisfies
`PosixPool`, of `sema_sysv.c` `SysvPool`. The refinement needs that a process is attached to a
semaphore that was created and what it counts at each place. In `sema_sysv.c` a semaphore exists
before it has a value, so that a client must be attached to one whose server is past `SETVAL`;
what the kernel finds is what no server has removed, which makes a failed operation
the mark of such a server: `OnlyAfterRemoval` (`AbortsAfterRemoval`). `SemaphorePerRemoval`
(`SemaphoresCounted`) counts the semaphore that the name still leads to apart from the removed
ones. About `ResourcePool` itself, for a natural number of resources: `AllAccountedFor`, free, held and
lost resources add up and nobody has two (`Conserved`), for any users, pools and resources; it is
inductive with the types and the finiteness of the sets, and holds of whatever implements a pool.

`ThreadProofs`, under `ThreadMainAssumption` and `MCThreadsAssumption` (a positive number of threads),
for any number of threads; the second and third rest on what main has joined (`Joined`). `EachItsOwnTurn` (`TurnsKept`): the
invariant says at each place of main who is done and whose turn it is; how many
numbers have been drawn follows from it, and with that what each element and the
sum are. The mutex has no part in it: one thread at most can find its number in
`thd_id`. `EveryNumberStored` (`AllStored`): one thread is inside the mutex, and the array is filled up
to the position, but for what that thread is about to write; the sum is kept as twice
the sum, a product, which is what the property says too. `CountedWithinBounds`
(`ThreadsCounted`): under the mutex the count is the number of threads that have
written; without it, it is at least one once a thread has written, and neither the count nor what a
thread has read exceeds the number of those that have. Nothing is proved of `thread_barrier.c`: who passes
the barrier is the library's matter, and that all threads end is liveness.

The same module, about the read-write lock, for any number of rounds: `WritersAlone`
(`WritersCounted`) and `PrintsAreWhole` (`SnapshotWhole`). Who is where holds which lock (`RwLocked`),
so the writer is alone; `RwPassed` says that n passes over the array are complete and only a writer is in the
middle of the next one, with the sum as far as it is; `RwSeen` that a print under way agrees
with the array. The count of readers is not in the invariant, as nothing protects it.

`LoopProofs` and `ProgramProofs`, under `MCProgramsAssumption` (the roles are disjoint, the placeholders are nobody's
name, a read takes something, there is a test): `OneAtATime` (`Exclusive`), `FailuresHaveReasons` (`FailuresExplained`)
and `EverythingInOrder` (`InOrder`), for any number of processes, posts, writers, signals and messages. Every step is one of the program that runs
(`OneProgram`), so the invariant is one per program, and the others need not be looked at.

- `LockInv`: who is reading or writing has that lock, and a write lock excludes all others. That is where a refused
  `F_SETLKW` and the `F_GETLK` after it must not let anybody pass.
- `HaxInv`: a segment has one turn among its two semaphores and the processes that use it (`HaxTurn`) while its semaphores
  were initialised at most once, and none before that; the name is there from
  the first server on until a server that has ended removed it (`HaxNamed`).
- `QueuesInv`: the POSIX programs fail no assertion. For System V (`MsgInv`), whoever goes on has opened a queue that was
  there, and each number below the newest was removed by a receiver that ended with an empty
  message; so whose queue is gone can name who removed it.
- `InputInv`: a FIFO that `select` or `poll` reported, and that was not looked at since, has data or has had its
  end (`ReportsInv`); asynchronous reads start when a writer has come to both FIFOs, and one that
  ended with nothing was at the end, or another writer has come since, or it had gone astray (`ReadsInv`). Without the first a main that gives up could do so
  with data left.
- `ServiceInv` and `SocketsInv`: the three processes of `daemon.c` come one after the other; where there is a socket, a
  server has bound it.

`EverythingInOrder` needs more: `InOrder` compares two histories, what came and what was made of it, and a step that
adds to the second must find the next of the first at the head of whatever lies between them. `OrderInv` says, for each program,
what lies between:

- `InputOrder`, `ServiceOrder`: what was taken from a FIFO is a beginning of what was written; all of it is printed,
  but for the text of an asynchronous read that has ended, which is in its buffer, as long as no full `buf[0]` has put
  its zero into `buf[1]` and no full `buf[1]` has sent a read astray.
- `SignalOrder`: with `signal-better.c` and `service.c`, what is reported, what is read and not yet reported, and what is
  in the pipe is, one after the other, what was sent (`PipeOrder`). With `signal-good.c` some map says where each report was
  sent, increasing, and before the signal in `mysignal` as long as that is not reported (`VariableOrder`).
- `MsgOrder`: for System V there is, for each receiver, an increasing map from what was sent to it and not received
  into the queue, and it reaches all its messages there (`Rest`): that another receiver's messages come and go
  between them only moves the map. Nothing is said once a receiver has removed the queue.
- `MqOrder`: for POSIX the queue is sorted by priority and within one by age (`Sorted`), each message was sent once, and what
  was received comes before all of its priority that waits (`Before`); the text printed, and the one in the receiver's buffer, is
  that of the message or of an earlier one of this receiver, or none yet (`TextOf`).
- `SocketOrder`: what a server printed falls into connections, one after the other, each from its first text
  without a gap (`Printed`); only the last may be unfinished, and then it is the one the server has (`Serving`). A connection
  waits once, with one server, before anything of it is printed (`Connected`).
- `BenchOrder`: the two names never lead to one file (`FilesApart`). Of a bench that has run alone so far it is known at each place of it
  and of its child what the two files hold (`Files`, `Child`): the program starts with an empty output, unless `kept`, and what the
  comparison finds there is this test's input exactly when the program has copied it (`Outcome`), whatever an earlier run has left.

`EpollServerProofs`, under `EpollAssumption` (positive sizes, descriptors other than that of the
listening socket), for any number of peers, descriptors, events and bytes: `NoStaleEvent`
(`EventsFresh`) and `NoEdgeLost` (`NothingForgotten`). The two need each other: that an edge is not
lost (`Remembered`: what waits is ready or in the rest of the batch) needs that an event leads to
the connection it is about (`Fresh`), which needs that a batch speaks of each item once
(`Batch`) and that a descriptor leads to one connection and the queue has each peer once
(`Connections`).

`MorseLinkProofs`, for any texts, block size and limits. Without any timing assumption:
`TypeCorrect`, `NothingInvented` (`SubsequenceOfSent`), `LateNeverOvertakes` (`NoOvertaking`). The
first is the surprising one: pending signals are not delivered in the order they were sent,
and handlers nest in reverse. `Inv` says why the order survives: every return to main goes
through a kernel that has delivered all there was, so that whatever is pending while main
runs was sent after the symbol in `flag` (`PendingAfterFlag`); what is pending or in a
frame is later than what main read last (`PendingLater`, `FramesLater`); a value of `flag` that
main may read again is one it is about to clear (`FlagFresh`); what main stores is what it
read, and later than all it stored (`ReadValue`). The assumptions: `LinkAssumption` (the
ranges of the limits), `TextAssumption` (inputs without NUL) and `EncodingAssumption` (the
encoder returns a string over `Symbols`), which TLC evaluates on each run. The last is an
assumption because it is an induction over the text, through `FlattenSeq`.

With the timing of `PacedSpec`, and under conditions on the two constants of the code that its values
(2 and 10) meet: `HandlersInTime` (`NeverKilled`) for `SleepTime >= 2`; and, when `SilenceLimit` is at
least `SleepTime + 3`, `ImplementsChannel`, every behaviour satisfies `MorseChannel!SafeSpec`, so
nothing is lost, and `Transmitted` (`OutputIsInput`), the whole way from `read` to `write`. `Prompt`
says where the clock is for each place of the two processes; `Delivery` follows
the one symbol that is not stored, from `pending` (or a frame) by `flag` to `k`, within the second it was sent
in; `Punctual` says that main waits for a child that has something to send. Three
seconds more than the sleep, because the input may take one, the sleep may end one late, and a clock
that counts whole seconds may be one ahead: `link_paced` runs at exactly that limit, 2 and 5.
`Transmitted` has one more hypothesis, `RoundTrips`: the conversions alone, with all symbols that have a signal,
bring back the normalised form of what is read. It is an induction over the text, too, and
TLC checks it as `RoundTrip` in `morse_free` on many more texts than the link is run on.

Only model-checked: everything about the codec (`RoundTrip`, `CutCostsOneCharacter`, `LossIsLocal`: it
computes over data of any length); all liveness and the full refinements with fairness
(`ReliableChannel`, `OneSlotMailbox`, `EventuallyPrinted`, `EventuallyClosed`, `NobodyWaitsForRemoved`,
`ProgramsEnd`, `EverythingSettles`), which take `WF` and with it `ENABLED`. Every other invariant and
action property of the runs is a theorem.

## 5. Findings

- `codec_worst_case`: `as1_mockup.c:113` sizes `morseBuf` for "worst case ... length 4" and a
  space; digits have five symbols, punctuation six and `$` seven.
- `link_identical`: without an answer from the parent, the millisecond between signals is
  the only thing that keeps them apart; when it is too short a symbol is lost, the file
  differs, and `as1_testbench.c:106` reports it.
- `sysv_empty`: with `SEM_UNDO` on semaphores that one process takes and another gives, a
  client that leaves by its menu undoes the message it sent, and the next client is told
  that the buffer is empty.
- `threads_readers`: `readers` is changed by readers at once; a lost update makes a later writer
  fail `assert(thread_array->readers == 0)`.

Two comments of the signal programs say more than the code does. They are seen by reading, and in the
models' definitions, without a run of their own:

- `signal.c:10`, of its handler: "else branch is never reached in this example". Line 30 installs the handler for
  `SIGINT`, which it does not name, so an interrupt reaches that branch (`SignalHandler`).
- `signal-block.c:45`: "SIGQUIT here will terminate the process". It does once the handler has run,
  which sets the default action; when none was caught before, the first one there runs the handler (`sig_quit`).

## 6. Not modelled, and why

- In the modelled programs: the parsing of arguments and failures to open a file, before any
  concurrency; logging; what lies in the heap past `morseBuf` and past the text read (so the
  inputs of the link contain no NUL and end in one, and `Overrun` ends the child); other signals
  than the program's; a second
  interrupt during `delete`, which ends the server as a kill does.
- A failed `malloc`, `fork`, `pthread_create` or `pthread_mutex_lock` is a return from main before
  or instead of the behaviour modelled.
- `pipe.c` and `fifo.c` pass one message from a process to its child, `eventfd.c` the numbers of its command
  line: one order of events. `rtssignal.c` is one process that queues signals to itself while they
  are blocked. `writer.c` and `writersync.c` copy a stream into a file, alone. `libevent_example.c`, the
  GTK and SDL programs leave all state to libraries that are not here.
- `code_l8` creates one thread at a time and joins it at once; `fork.c`, `fork2.c`, `forkwatch.c`, `exec*.c` and
  `open-exec*.c` print where a process is in the tree. The OpenMP programs get their concurrency
  from the compiler.
- `Assignment2/as2_mockup.c` keeps no account and does not compile. `L1` and `L2` are sequential; the
  packaging of `code_l10` is metadata and copies of the service.
- In the modelled programs of section 2, what is said and not kept: prompts, the text of errors, exit
  messages, and prints that repeat what a step did.

## 7. Plan

The order was: the codec and the link, as they are the assignment the repository exists for;
the mailboxes and their names, the semaphore menus, the epoll server and the threads; then the programs
that wait for input. The proofs followed the modules whose invariants are hardest to see. What is left:

1. A composition of `SharedPosix` with `SharedPosixNames`: what becomes of a message when the
   server is killed and another takes over.
2. The refinement of an abstract channel by the programs of `MCPrograms`, one channel for all of them, of which `InOrder`
   is the safety part.
