# Verification of apuecode

The repository holds the programs of *Advanced Programming in the UNIX
Environment* (third edition), their support library `libapue`, and a reader's own
exercises. Most files are short demonstrations of one system call. A handful are
real programs with state of their own, processes or threads that share it, and
rules that keep it right. This directory models those in TLA+, checks the models
with TLC and proves their central properties with TLAPS.

Paths below are relative to `src/apue.3e/` unless they start with `src/`.

## 1. Inventory

### Database library (`db/db.c`)

State: an index file (free list pointer, hash table, index records chained by
file offset), a data file, a `DB` structure with the two descriptors and
scratch fields per process, and `fcntl` record locks. Operations: `db_open`,
`db_close`, `db_fetch`, `db_store` (insert, replace, store), `db_delete`,
`db_rewind`, `db_nextrec`. Processes interact through the files and the locks:
one byte per hash chain, one byte for the free list, the tail of the index
file, the whole data file.

Hard: every operation is a series of system calls; the locks of one operation
cover different things at different times; deletion moves a record from its
chain to the free list in five writes; `db_nextrec` follows no chain at all; the
library keeps one file offset per process; a process may be killed between two
writes.

Correct if: the library is a map (each call atomic), chains hold exactly the
committed records, the free list holds only free ones, no append overwrites
another, a scan misses nothing that stays in place, no call hangs, and creating
the database twice at once wipes nothing (an open with `O_TRUNC` empties the files
on purpose).

### Print spooler (`printer/printd.c`, `print.c`, `util.c`)

State: spool directories for data and requests, the job number file, a job queue
under `joblock`, a list of workers under `workerlock`, configuration under
`configlock`. Threads: the main thread accepts, a client thread per connection
stores and queues, one printer thread prints, one signal thread handles SIGHUP
and SIGTERM. At start `build_qonstart` rebuilds the queue from the spool.

Hard: the client is answered before the job is queued; the daemon may die
anywhere; a failed job goes back to the head of the queue; numbers wrap, and the
file that keeps them is overwritten without a truncation; each call on a file of the
spool may fail, and what then becomes of the job differs from call to call; a
timeout ends a read like an end of file.

Correct if: an acknowledged job is printed, once in line, in order, from its own
file; nothing is left behind; SIGTERM reaches every worker.

### System V semaphore library (`lib/semaph.c`)

State: a kernel set of three semaphores (value, process counter, lock) and the
undo adjustments of each process. Operations: `sem_create`, `sem_open`,
`sem_wait`, `sem_signal`, `sem_close`, `sem_rm`.

Hard: creation and initialization are separate system calls and race; the last
`sem_close` removes the set while others are on their way in; any process may
exit while it holds the lock.

Correct if: exactly one process initializes, the set is not removed under a user,
the semaphore excludes, the counter is exact, nobody waits for ever.

### Reference-counted objects (`threads/mutex1.c`, `mutex2.c`, `mutex3.c`)

State: a hash table of objects under `hashlock`, a count and a mutex per object.
Operations: `foo_alloc`, `foo_find`, `foo_hold`, `foo_rele`. Hard: the lock order
forces `foo_rele` to drop the object's mutex and look again. Correct if: no freed
object is touched, counts are the number of references, and the four calls are
atomic.

### Open server (`ipc2/opend`, `ipc2/open`, `lib/sendfd.c`, `recvfd.c`, ...)

State: the client table, the `poll` or `select` set, a stream per client with
data, error messages and descriptors on it. Operations: `cli_conn`, `csopen` and
`recv_fd` in the client; `serv_accept`, `client_add`, `client_del`,
`handle_request`, `send_fd` and `send_err` in the server. Hard: two tables indexed
apart, bytes that arrive in pieces, clients that vanish at any point. Correct if:
the tables hold exactly the open connections, each call gets its own answer, the
end of an answer is found, and every call returns.

### Printer's answer and print client (`printer/printd.c`, `print.c`, `util.c`)

State: the buffer of `printer_status`, which `readmore` doubles, with its size, the
amount of data and a position; on the other side the position of the client in its
header and file, and what the daemon has taken of them. Hard: a stream comes in
pieces of any size, an answer may be preceded by another ("100 Continue"), the
client never says where its file ends, connections fail and are retried. Correct
if: an answer is understood however it is cut, a job number means that the whole
file is in the spool, and both sides end.

### Thread examples (`threads/`, `threadctl/`, `ipc2/pollmsg.c`, `exercises/pollmsg2.c`)

* `rwlock.c`: a doubly linked job list under a reader-writer lock;
* `condvar.c`: a message list with a condition variable that is signalled after
  the unlock;
* `barrier.c`: parts sorted by threads, a barrier, a merge;
* `threadctl/suspend.c`, and `signals/suspend2.c` without threads: waiting for
  SIGQUIT;
* `threadctl/timeout.c` with `detach.c`: a function to be run at a given time, under
  a recursive mutex; `getenv2.c` and `getenv3.c`:
  values per caller and per thread;
* `pollmsg.c` and `pollmsg2.c`: message queues made pollable by a helper thread.

Hard: wakeups that are lost or spurious, a wait for oneself, a buffer that the next
message overwrites. Correct if:
nothing is lost or taken twice, nothing starts early (but for the call that
`timeout` makes when it can get no memory or no thread), what a thread was given
stays its own, and every wait ends.

### Library functions on processes and signals

* `lib/sleep.c`, `signals/system.c`, `signals/abort.c`: actions and masks that belong to
  the caller and are borrowed;
* `lib/popen.c`: a table of children by descriptor, pipe ends inherited by later
  children;
* `ipc1/tellwait.c`, `lib/tellwait.c`, `ipc1/devzero.c`: taking turns over pipes or
  signals;
* `ipc1/pipe4.c` with `add2.c`: a coprocess.

Hard: a signal between the test and the wait, a status collected by somebody else,
an end of file that never comes because another process has the pipe open. Correct
if: the caller finds its signals as it left them, what comes back answers what was
asked, and every call returns.

### Daemons, terminals and pseudo terminals

`lib/daemonize.c`, `daemons/single.c`, `reread.c`, `reread2.c`: one copy, detached,
that re-reads its configuration. `lib/ttymodes.c` and `termios/getpass.c`: terminal
settings that must be put back. `pty/main.c` and `loop.c`: two processes that copy
and tell each other of the end. Hard: signals in every gap, `tcsetattr` that does
part of its work, two ends that race.

### Files and streams

`exercises/fmemopen.c`: a stream on a buffer with a size, a valid length and a
position. `filedir/ftw8.c` with `lib/pathalloc.c`: a recursive walk over one path
buffer, while files disappear. `advio/rot13c2.c.in`: a copy through asynchronous
buffers. `ipc2/open.fe` and `opend.fe`: an open server that the client starts.

### Not modelled

| left out | why |
| --- | --- |
| error routines, logging | formatting and output; `err_dump`, `err_quit` and `err_sys` are the end of a process in the models |
| most of `signals/` | demonstrations of one signal call, some of them races on purpose (`reenter.c`, the early `sleep` and `system` versions) |
| `sockets/` | servers that answer one request at a time and keep nothing between two; the retry of `clconn2.c` is in `PrintClient` |
| `ipc2/recvfd2.c`, `sendfd2.c` | `recvfd.c` and `sendfd.c` with one more control message |
| `threadctl/atfork.c` | its two locks are used by the fork handlers only: no thread of the program holds one at a fork, so the order and the release have nothing to protect |
| `ipc1/slock.c` | each call passed on to a POSIX semaphore |
| `pty_fork`, `do_driver` | descriptors rearranged, no state of their own |
| rest of `termios/`, `filedir/`, `fileio/`, `stdio/`, `advio/`, `proc/`, `environ/` | one system call and its output |
| `standards/`, `src/ch02` | generated tables of `sysconf` names |
| `src/ch*` | a reader's copies of book programs and short exercises |
| configuration file, address lookup and header fields of the printer | parsing without state |

## 2. Modules

| module | models | built on |
| --- | --- | --- |
| `DbMap` | what the database promises: a map with atomic calls | |
| `Db` | `db.c` after `db_open`, one system call at a time | refines `DbMap` |
| `DbProofs`, `DbChainsProofs` | theorems about `Db` | `Db`, `DbMap` |
| `DbOpen` | `db_open` by several processes | |
| `PrintSpool` | the job path of `printd.c` and its restart | |
| `PrintSpoolProofs` | theorems about `PrintSpool` | `PrintSpool` |
| `PrintWorkers` | the worker list of `printd.c`, as it is in memory | |
| `SysvSem` | `semaph.c` and the kernel's semaphore sets | |
| `SysvSemProofs` | theorems about `SysvSem` | `SysvSem` |
| `RefTable` | what `mutex2.c` promises: a table with atomic calls | |
| `FooHash` | `mutex2.c`, one lock operation at a time | refines `RefTable` |
| `FooHashProofs` | theorems about `FooHash` | `FooHash` |
| `OpenServer` | `ipc2/opend` with either event loop, its clients and their streams | |
| `OpenServerProofs` | theorems about `OpenServer` | `OpenServer` |
| `FooCount` | `mutex3.c`, the count under `hashlock` | refines `RefTable` |
| `JobQueue` | the job list of `rwlock.c` | |
| `WorkQueue` | the message queue of `condvar.c` | |
| `BarrierSort` | `barrier.c` | |
| `QuitFlag` | `suspend.c` and `suspend2.c` | |
| `Timeout` | `timeout.c` with `makethread` | |
| `GetenvKey` | `getenv2.c` and `getenv3.c` | |
| `PollMsg` | `pollmsg.c` and `pollmsg2.c` | |
| `PrinterStatus` | `readmore`, `printer_status`, `tread` | |
| `PrintClient` | `print.c`, `connect_retry`, `treadn`, and one upload in `client_thread` | |
| `Sleep`, `SystemCmd`, `Abort` | `lib/sleep.c`, `signals/system.c`, `signals/abort.c` | |
| `Popen` | `popen` and `pclose` | |
| `TellWait` | `TELL_WAIT` by pipes and by signals, under `devzero.c` | |
| `Coprocess` | `pipe4.c` and `add2.c` | |
| `TtyModes`, `GetPass` | `lib/ttymodes.c`, `termios/getpass.c` | |
| `PtyLoop` | `pty/main.c` from its loop on, `pty/loop.c` | |
| `Daemon` | `daemonize`, `already_running`, `lockfile`, both re-reads | |
| `MemStream` | `exercises/fmemopen.c` | |
| `Ftw` | `ftw8.c` with `path_alloc` | |
| `Rot13Aio` | `rot13c2.c.in` | |
| `OpenFork` | `ipc2/open.fe` and `opend.fe` | |
| `MCThreads` | the thread programs side by side | `FooHash`, instances of the eight others |
| `ThreadProofs` | theorems about the thread programs | `MCThreads` |
| `MCPrograms` | the programs on processes, signals, terminals and files side by side | `DbOpen`, instances of the sixteen others |
| `ProgramProofs` | theorems about these programs and `DbOpen` | `MCPrograms` |
| `MCDb`, `MCOpenServer` | menus of calls for TLC; the other modules of section 3 are run as they are | `Db`, `OpenServer` |

Definitions marked "Mutation" beside the action they change are plausible bugs;
each property is known to fail for at least one of them, and a property that joins
several programs for one in each of most of them.

A note on size: the small programs have from a few dozen to some ten thousand states each.
They are instantiated side by side in two modules; the variable `which` picks one
in the initial state and the others rest. A property of the bundle is the
conjunction of what its programs promise of the same kind.

### Db

A record is a slot: an offset is the number of the slot, so that what the code
computes with `lseek` is an index into a sequence. `idx[n]` has the chain
pointer, the key, its length and where the data is; `room` is the space the
record was written into, which lets the model tell a record that fills its hole
from one that does not. A blanked key or data record is `Blank`. `head` is the
hash table with the free list pointer. `rd` and `wr` are the record locks, by
range. `h[p]` is the `DB` structure of process `p` with the locals its functions
keep across a system call; `h[p].pos` is the file offset of the index
descriptor. `pc[p]` is the system call that comes next; calls that neither read
nor change shared state are folded into the one before.

`_db_find_and_lock`, the search of `_db_findfree` and `db_nextrec` share the two
reads of `_db_readidx` (`ReadHdr`, `ReadRec`), told apart by `phase` as by the
caller in C. Each write of `_db_dodelete` is an action, `_db_writedat` and
`_db_writeidx` are lock, seek, write and unlock when they append. `err_dump` and
`err_quit` end the process (`dumped`, `quit`) and release its locks. `Crash` ends
it between any two system calls, for the operations in `CrashOps`: a kill inside
`_db_dodelete` or a replace breaks the chain and the code has no recovery, so no
property could hold there.

`map` and `scan` are history variables: the abstract content, changed in the step
where an update takes effect, and what a scan has to return.

### DbOpen

Opening the two files, locking the whole index file, `fstat`, writing the table
and unlocking are separate steps of each process; `db_store` afterwards is one
step.

### PrintSpool

One step is a system call that others see, or a critical section. A file's
content is whose it is and whether it is complete. The answer of the printer
(`printer_status`) is a choice between printed, failed, and failed although
printed. `Stop` ends the daemon at any point, whatever the cause; `Start` reads the
job number file, and the entries of the request directory are treated in any order,
while the printer thread already runs.

The calls named in `Faults` fail wherever the code makes them, with what the code
does then: a failing `creat` or `write` of a client thread takes its files away and
refuses the job (`CannotStore`); a failing `open` or `fstat` of the data file frees
the job and leaves its files (`CancelJob`); in `build_qonstart` a failing `opendir`
ends the rebuilding (`Start`), a failing `open` passes over the entry
(`BuildCannotOpen`), and a failing or short `read` unlinks both files
(`BuildRemove`). The history variables `canceled` (jobs this life of the daemon gave
up; they are in the spool for the next) and `lost` (complete requests that were
removed as unreadable) say to whom that happened.

The job ID file is a text, since its digits matter: `update_jobno` writes from the
start of the file and does not truncate it (`Overwrite`), so behind a shorter number
the digits of a longer one stay, after a wrap or after a number that was read from
such a file. `sprintf` and `atol` are a number's text and back, with a base of
`Base`; `init_request` takes the text modulo the size of an `int32_t`, so that a
spoiled file may also give a negative number, as may `update_jobno` itself: it reads
`nextjob` without the lock, perhaps between `nextjob++` and the test for a wrap.
`Written` are numbers that earlier daemons may have left in the file.

The code never looks whether a number it hands out is free. `reused` becomes true
when it hands out one that is in use: after a restart, because the file lags behind
or is spoiled, or after a whole turn of the counter (`CameRound`). From then on two
jobs share file names and nothing can be promised, as `spool_reuse` shows;
`OneJobOneFile`, `AckedIsKept`, `NeverForgotten`, `SpoolIsCleared` and
`AckedIsPrinted` are about the daemon before. A number given out twice because the
counter did not move does not count as that: it is what the properties catch (the
mutant `StaleJobno`).

### PrintWorkers

The head pointer and the two links of each structure, because the shape of the
list is the question. Once the head points to freed memory the behaviour is
undefined and the model stops there.

### SysvSem

A set is numbered by its creation; `set` is the one the key leads to. `semop` is
atomic, with `SEM_UNDO` recorded in `adj` and applied by `Exit`; `SETVAL` clears the
adjustments of every process for that member. A process that waits in `semop` is
`asleep`, because the error it gets when the set is removed differs (EIDRM instead
of EINVAL).

### FooHash

Locks have an owner, each lock and unlock is a step with the assignments up to
the next one. The three lists of a hash bucket are abstracted to the set of
listed objects. The count and the list are changed only under the locks the code
takes; what a thread read before it released a lock is kept in its own state.

### OpenServer

One module for both event loops; `loop` says which one the server was built with.
A step is one system call of the server or of a client with the assignments that
follow it. A stream is a sequence of bytes, each of which says which request or
answer it belongs to: `recv_fd` and `read` take what is there, at most `MAXLINE`,
and `recvmsg` stops behind a descriptor. A request is one byte unless it is longer
than `MAXLINE`. `client` and `pollfd` are arrays with the code's own search,
growth and packing; descriptors are the lowest free numbers, so that they are
reused. What ends the server is modelled as such: `log_sys` after `serv_accept`
refused a name, SIGPIPE for an answer to a client that is gone, ECONNRESET in
the `read` of the select loop.

### FooCount

`FooHash` with the locking of `mutex3.c`: one stretch under `hashlock` is a step,
because the count and the lists have the same lock. `foo_alloc` keeps the object's
own mutex while it fills in the rest, `foo_rele` frees after the unlock; both gaps
are steps of their own.

### The thread programs

* `JobQueue` has the pointers of the list (`q_head`, `q_tail`, `j_next`, `j_prev`) and
  beside them the sequence they stand for. `job_find` walks while other readers
  do; the three updates need the write lock and are one step each.
* `WorkQueue` has the list, the set of consumers inside `pthread_cond_wait`, and the
  producers that have unlocked and still owe their signal. A wait may return
  unasked.
* `BarrierSort` counts arrivals; `minidx`, which `merge` sets only when it finds a
  number below `LONG_MAX`, starts with any value.
* `QuitFlag` has a mask, pending signals (not queued twice) and either a thread in
  `sigwait` or handlers.
* `Timeout` counts nanoseconds and writes times as seconds and a rest, so that the
  borrow happens; the mutex has an owner and a depth.
* `GetenvKey` knows a value by its length and a buffer by whose value it holds and
  how much was written. `pthread_once` and `env_mutex` are steps.
* `PollMsg` has one queue, its helper and main. `pollmsg2.c` shares one buffer, so
  each lock, wait, write and signal is a step.

### The printer's connections

In `PrinterStatus` an answer is a sequence of tokens, one for each field that the
code looks for; the network gives any number of them per read. What lies behind
the data that was read may be any token. `datsz` and the index are computed as in
the code, with the offset of `readmore` added as a length.

`PrintClient` is one connection: the tokens of a header and of a file, cut in any
way. `Fault` stands for a file that cannot be read any more, a killed client and
a daemon that is stopped. What becomes of the job afterwards is in `PrintSpool`.

### Signals and processes

* `Sleep`, `SystemCmd` and `Abort` have the action, mask and pending state of the
  signals involved, and one step per call. The caller's own alarm, a SIGCHLD
  handler that waits for any child, and a handler that changes everything are the
  environment.
* `Popen` has `childpid[]`, what each of the caller's descriptors leads to, and for
  each command the pipe ends it inherited and those it keeps after its loop over
  `childpid[]`. A command that reads ends at the end of file, which nobody gives who
  still has the other end.
* `TellWait` has the shared counter of `devzero.c`, bytes in pipes, and flag, mask and
  pending signal of both sides.
* `Coprocess` has two pipes and a buffer that the standard library would hold back.

### Daemons and terminals

* `Daemon` follows each copy through its forks (a process is the copy and how often
  it has forked), with session leadership, controlling terminal, descriptors,
  the record lock, and the action and mask for SIGHUP.
* `TtyModes` has the terminal as the set of settings that differ from the start;
  every `tcsetattr` may fail or do any part of the changes, also one that puts the
  saved settings back (`PutBack`), whose outcome the code does not look at; `stuck`
  is the history that this left something. `GetPass` has the interrupt and suspend
  keys, which are held back, the quit key, which is not, and a `tcsetattr` that may
  fail on both sides (`unrestored`: the last one did).
* `PtyLoop` has the program's output and how much was copied, the place of both
  processes, and the parent's handler.

### Files and streams

* `MemStream` has the fields of `struct memstream` and beside them what an ordinary
  file would hold. A byte stored at an index outside of the buffer makes the function
  `msbuf` grow, so that `InBuffer` sees the null byte as well as the data. `Ftw` has the recursion as a
  stack and the path as its length.
  `Rot13Aio` has a block number per buffer and operations that complete in any
  order. `OpenFork` has the stream pipe, `csopen` and the server behind it, and
  kills of either.

## 3. Runs

| run | configuration | result | states |
| --- | --- | --- | --- |
| `db_ops` | `DbOps.cfg` | holds | 270 k |
| `db_cross` | `DbCross.cfg` | holds | 650 k |
| `spool` | `Spool.cfg` | holds | 770 k |
| `spool_reuse` | `SpoolReuse.cfg` | violated | |
| `spool_timeout` | `SpoolTimeout.cfg` | violated | |
| `workers_kill` | `WorkersKill.cfg` | violated | |
| `sem_use` | `SemUse.cfg` | holds | 39 k |
| `sem_open` | `SemOpen.cfg` | violated | |
| `open_serve` | `OpenServe.cfg` | holds | 290 k |
| `threads` | `Threads.cfg` | holds | 93 k |
| `programs` | `Programs.cfg` | holds | 57 k |
| `status_split` | `StatusSplit.cfg` | violated | |

**db_ops.** Two processes on one hash chain and a key on another. Each makes two
calls (delete, fetch, insert, replace, store with data of the same and of another
length); the second may scan instead, with up to five calls of `db_rewind` and
`db_nextrec`. `Linearizable` says that the library implements `DbMap`, where each
call is one step; `ChainsHoldMap` that a chain nobody has locked is a finite list
of exactly the committed records; `ScanComplete` and
`RecordsReadable` that a scan misses nothing and nobody meets a record that cannot
be read; `CallsReturn` that every call
ends. `PtrMax` is 4 with two records at the start, so that an index file that is
full is reached; fetches and inserts are killed. Two calls per process are enough
for the cases that matter: a deletion followed by a store into the freed slot,
beside each step of the other process; and a replacement that deletes and appends
in one call.

**db_cross.** Three processes on different chains, which never wait for the same
chain lock: they meet in the free list and at the ends of the two files.
`RecordsUnshared` (the free list holds only free records and no two records share
data), `NoRecordLost` and `AppendAtEof` say that the two other locks are enough.

**spool.** Two clients, one kill of the daemon at any point, one SIGHUP, one failed
attempt to print, timeouts, and every failing call of section 2. Three job numbers
in base 3, and a job ID file that is empty or holds 3, as "10": the number handed
out first is 1, or 3 and then the second comes after the wrap; and when the file is
to hold 1, "1" is written over "10", which a restart reads as 3. Numbers after a
wrap, after a restart, and from a spoiled file are therefore all handed out, and
those after a restart while they are free and while they are in use.
`OneJobOneFile`: a job is at most once in the queue or in
print, and what is printed comes from its own file; `AckedIsKept`: an acknowledged
job is printed or has both its files complete, unless a start could not read its
request; `NeverForgotten`: whatever is complete in the spool is also in memory, or
due to be, unless a call on its files failed in this life; `SpoolIsCleared`:
a daemon that was never interrupted and has nothing to do has in the spool only the
files of jobs it canceled; `FirstComeFirstServed`; and `AckedIsPrinted`: an
acknowledged job is printed at last, unless the last start could not open or read
its files. All but the order are stated until a number in use is handed out.

**spool_reuse.** Two clients and one kill, without that condition. The number file
is written when the printer thread takes a job, not when a number is handed out. A
daemon that was killed in between hands out a number that is still in the spool, and `creat` empties the acknowledged job's file: `AckedIsSafe` fails.

**spool_timeout.** The loop that stores the file ends when `tread` returns 0 or
-1. A client that is silent for 20 seconds gets part of its file acknowledged and
printed: `PrintsWholeFile` fails.

**workers_kill.** `add_worker` sets the head only if the list is empty and
otherwise links the new structure in front of the head without moving it. The
second worker cannot be reached and SIGTERM does not cancel it:
`KillsEveryWorker` fails.

**sem_use.** Two processes that create and one that opens, twice each, with two
exits at any step and up to four sets for the key. `BIGCOUNT` is 5, above the
number of processes as in the code.

**sem_open.** `sem_open` takes no lock, so it may come between the `GETVAL` and the
`IPC_RMID` of the last `sem_close`; the semaphore it returned is removed:
`OpenNeedsNoLock` fails. This is why `sem_use` states `NotRemovedWhileUsed` for
processes that use `sem_create`, and counts a process that used `sem_open` only
while its set exists.

**open_serve.** Both event loops with three clients: one asks twice, one asks for
a file that cannot be opened, one only comes and goes. One of them may be killed
while it waits, or one name may be too old. Tables of two entries that grow by two
make every table grow, become free in the middle and be used again.
`TablesAgree`, `OwnAnswer`, `NoFormatError`, `OpenReturns`, and `RequestUid` for
the select loop.

**threads.** Nine programs, one per initial value of `which`. `FooHash` and `FooCount`
with three threads and two objects of the same id, so that an object is found while
it is released: `NoUseAfterFree`, `CountIsRefs`, `ReferencedIsListed`, `Implements` for
`mutex2.c` and `CountImplements` for `mutex3.c`, which both implement the atomic
calls of `RefTable`. `QueuesIntact`: the links of the job list are the queue in both
directions and `job_find` misses no job (two workers, three jobs: a job in the
middle); no message of `condvar.c` is taken twice (two producers, two consumers,
three messages); `pollmsg` and `pollmsg2` print every message once and unchanged
(three messages, the third while the first is printed). `HeldIsOwn`: values of
`getenv` stay the thread's own, with lengths that just fit, do not fit and are not
set; the key exists before it is used; the mutex of `foo_alloc` is not destroyed
while held. `NotTooEarly`: the merge
sees sorted parts (two threads, all sequences of four numbers below 3); `timeout()`
calls `retry` once at most, with a valid `timespec`, and before its time only from
main itself after `malloc` or `makethread` failed ("so we just call the function
now", `threadctl/timeout.c:78`). `WaitsEnd`: every message is
taken and printed, SIGQUIT is noticed, main of `timeout.c` does not wait for
itself.

**programs.** Seventeen programs in the same way. `CreatedOnce`: three processes
create or open one database, with any of the flags `O_CREAT` and `O_TRUNC`; the write
of the hash table never wipes a record of a process that found the table in place,
and when a creator is done and nobody is in `db_open` the table is there, unless
somebody used `O_TRUNC` alone, which empties the index file for good.
`CallerRestored`: `sleep` puts back action and mask, and its alarm runs the caller's action only if another signal or the caller's own alarm ended the
wait; a mode that `ttystate` names is set in full whatever failed, and out of a mode the
terminal is as it was first, as long as no `tcsetattr` that puts the settings back has
left a part of the mode; `getpass` has the mask back at its return, and
the echo whenever a caller, or a shell that the interrupt or suspend key brings
back, has the terminal, unless its last `tcsetattr` fails. Of the quit key, which
`getpass` does not hold back, nothing is said. `AnswersRight`: the status of `system` is its own command's;
parent and child count in turns; the coprocess's answers, the result of the
forked `csopen` and the job number belong to their questions; the pty parent has
copied everything; a print job counts as printed exactly if the printer said so, for answers that
come in one piece. `RunsAlone`: two copies of a daemon with signals at any
point. `InBounds` and `ContentsExact`: all buffers of up to three bytes, all types of
stream, four calls; a tree of two levels with a link, where the path buffer
must grow once, with files and permissions taken away; five blocks through two
buffers; `abort` with any action, mask and handler. `CallsEnd`: each of
these calls and programs ends, with the exceptions named in the properties: a later
wait of `TellWait` by signals, a split answer of the printer, a `csopen` after a
failed fork, an unreadable file in `print`, a `sleep(0)` that no signal ends.

**status_split.** The comment in `printer_status` says that header and answer "can be
returned in multiple read attempts" (`printer/printd.c:886`). `readmore` returns an
offset and its callers add it to the amount of data. When an answer is split, the
program takes bytes it never read for the answer, or goes round the loop at line
968 for ever without reading: `AnyPieces` fails.

Deadlock is checked in every run that holds; states where everything is over have an explicit
stuttering step (`AllStopped`, `Quiet`, `Finished` and the like), so that any other
state without a successor is an error.

Observed while modelling, described by the models and not stated as a property of
a run:

* `db_nextrec` reads on from the descriptor's file offset, which every other call
  on the same handle moves. The comment on `db_nextrec` (`db/db.c:832`) asks only
  for a `db_rewind` before the first one; `Call` in `Db` asks for a new `db_rewind`
  after any other operation.
* `db_open` initializes the file only for `O_CREAT` together with `O_TRUNC`
  (`db/db.c:134`); `O_CREAT` alone creates two empty files and the first operation
  aborts.
* `sem_create` goes back to `semget` for `EINVAL` only (`lib/semaph.c:125`); a
  process asleep in `semop` when the set is removed gets `EIDRM` and ends.
* `loop.poll.c:92` looks up the uid of a request in `client[]` by its index in the
  poll array; after a client has left, these differ. The uid is only logged, or
  quoted in a message. `RequestUid` is therefore stated for the select loop.
* `buf_args` returns -1 for 49 arguments or more without a message, and
  `handle_request` sends what `errmsg` held: the message about an earlier request,
  perhaps of another client. `Message` describes it; no client of `open_serve`
  sends such a request.
* One client that is killed before its answer is written, or whose connection is
  accepted 30 seconds late, ends the server for all.
* A name of nearly `MAXLINE` characters makes a request longer than `MAXLINE`; the
  server reads and answers it in two parts (`ipc2/opend/loop.poll.c:73`) and the
  client aborts on a null that is not the next to last byte (`lib/recvfd.c:50`). The
  clients of `open_serve` send shorter names; the parts are in `OpenServer`.
* `ipc2/pollmsg.c:71` writes its terminator behind the buffer for a message of full
  size. In `pollmsg2.c` a spurious wakeup lets the helper receive the next message
  into the buffer main is about to print; `PrintsMessages` is stated without one.
* `threadctl/getenv3.c` leaves a value of `MAXSTRINGSZ - 1` bytes or more without its
  terminator.
* `threads/barrier.c` finds a minimum only below `LONG_MAX`; with a 32-bit `long` a
  number equal to it makes `merge` use a stale index. `BarrierSort` takes numbers
  below.
* `sleep(0)` waits until some signal is caught, perhaps for ever: `alarm(0)` sets no
  alarm. `Sleep` has it; `Returns` is about one second or more. After another signal, or the
  caller's own alarm, has ended the wait, the alarm of `sleep` may still come and run
  the caller's action.
* `WAIT` by signals puts the mask back that was before `TELL_WAIT`; in a later wait the
  signal may come between the test of the flag and `sigsuspend`, and `devzero.c` built
  with `lib/tellwait.c` hangs.
* `pty`: SIGTERM before the parent has its handler ends it without resetting the
  terminal; with `-i` the child's exit runs `tty_atexit` and resets the terminal under
  the parent.
* `popen` leaves its pipe open when `fork` fails and forgets its child when `fdopen`
  fails; `pclose` does not wait when `fclose` fails.
* `daemons/reread.c:76-79`: between the default action and the mask a SIGHUP ends
  the daemon. `daemonize` closes descriptors below `rlim_max` only.
* `ftw8.c` calls the function twice for a directory it cannot open.
* `fmemopen` puts its null over the last byte when a stream that is only written is
  full; `LikeAFile` allows for that byte.
* `ipc2/open.fe`: when `fork` fails in `csopen`, `fd[]` stays set and the next call waits
  for an answer from itself.
* `rot13c2` returns right after `aio_fsync` has been queued.
* The print command does not shut down its half of the connection, so every upload
  ends by the daemon's 20 second timeout; a client that is killed leaves a partial
  file that becomes a job. `print.c:123`: when `read` fails, `writen` is called with
  length -1 and returns -1 as well, and the loop goes on for ever.
* `tty_reset` takes a return of 0 of `tcsetattr` for success (`lib/ttymodes.c:146`),
  although "tcsetattr can return 0 on partial success" (37), which `tty_cbreak` and
  `tty_raw` verify. The terminal may then stay in a part of the mode while `ttystate`
  is `RESET`, and neither a second `tty_reset` nor `tty_atexit` does anything. The same
  holds for the calls that restore after a failed verification (42, 52, 118, 131).
  `TtyModes` does all of this; `CallerRestored` excepts it by the history `stuck`.
* `getpass` holds back SIGINT and SIGTSTP only; the quit key, which `GetPass` has, or
  SIGTERM leave the terminal without echo; so does a failure of its last `tcsetattr`,
  which is not looked at.
* A job that is canceled because its data file cannot be opened (`printer/printd.c:717`)
  stays in the spool and is printed after the next restart; a request that cannot be
  read at a start (366) is removed although its client was told "request ID".

## 4. Fairness

`CallsReturn` in `Db` assumes weak fairness of the steps of each process that is
inside the library: the kernel schedules every process, and `F_SETLKW` grants a
lock that stays free. Each process makes boundedly many calls, so a waiter cannot
be overtaken for ever; the code would not exclude that for unbounded callers.
Nothing is assumed about making or not making a call.

`AckedIsPrinted` in `PrintSpool` assumes weak fairness of every client thread, of
the printer thread and of the main thread, including the restart of a daemon that
was killed, which the code leaves to the administrator. A job whose files cannot be
opened or read may wait for the next start, or for none: `canceled` and `lost` are
its exceptions. Failed attempts to print
are bounded: a printer that never works prints nothing.

`CreateReturns` in `SysvSem` assumes weak fairness of the steps of `sem_create`,
`sem_open`, `sem_close` and of leaving the critical section, not of entering it.

`OpenReturns` in `OpenServer` assumes weak fairness of the server and of each client
that waits in `recv_fd`; nothing is assumed about connecting, asking or leaving.

In `threads` (`MCSpec` of `MCThreads`) weak fairness is assumed of the consumers, of a
producer that owes its signal, of main of `QuitFlag` and `Timeout`, and of both sides
of `PollMsg`; strong fairness of the thread in `sigwait` that needs a mutex which
main takes and releases. In `programs` weak fairness is assumed of `sleep` and the
clock, of `waitpid` in `pclose`, of commands that can run or have come to the end of
their input, of both sides of `TellWait`, `Coprocess`, `OpenFork` and `PrintClient`, of
the processes of `pty` except the child's read of what a user types, of the signal
thread of `reread.c`, of the walk, of `printer_status` (its reads have a timeout), and
of main and the kernel in `Rot13Aio`. All of this is a preemptive scheduler and a
kernel that finishes what it started. Signals, keys, kills, failures, typed input,
new messages and spurious wakeups happen or do not: nothing is assumed of them.

## 5. Proofs

Theorems hold for every value of the constants that satisfies the assumptions
named in the modules: mostly their types, and that a name which stands for nothing
differs from every name. What a theorem needs beyond that is said below. A
property is seldom inductive by itself; each module of proofs starts with the
conjuncts of an invariant that is, which TLC checked on the instances of section 3
before it was proved. Then there is a lemma for each action, or group of actions,
that keeps it.

**`DbProofs`**: `TypeCorrect` (`Spec => []TypeOK`) and `AppendsAtEof`
(`Spec => []AppendAtEof`). Type correctness says that every chain pointer, in the
files and in what a process has read, leads to a record that exists; it is not
inductive, because a process keeps offsets across its system calls. The invariant
`IInv` of theorem `Invariance` adds: `HandlesOK` (which offsets a process holds
at which point, and that they lie in the files), `DataInFile` (data offsets of
records), `LocksExclude` (at most one writer per lock) and `AppendLocks` (between
its lock and its unlock an appending process holds the lock of the file it
appends to). With these, no file grows between another process's seek and
write. The names of the locks are assumed to differ.

Then `RecordsAreReadable` (`RecordsReadable`), `ScansMissNothing` (`ScanComplete`) and
`DataIsUnshared` (`DataUnshared`, half of `RecordsUnshared`). They need nothing of the
chains: a process acts on what it read about a record some calls
ago, and what it read stays true because no write changes the room of a record or the
place of its data (`LayoutKept`). The invariant `FitInv` says so: `ReadStill`, what a
process has read about the record it is at; `WritesFit`, that what it is going to write
there has the right size; `DataFits`, that an index record and its data agree; and
`ScanGoes`, how far a scan has come and that it has returned what is behind it. On top
of it `ApartInv` says that data which no index record leads to yet belongs to one
process. All of it holds with processes killed anywhere, `CrashOps` being any set of
operations.

**`DbChainsProofs`**: `ChainsAreTheMap` (`ChainsHoldMap`), `RecordsAreUnshared`
(`RecordsUnshared`), `RecordsAreKept` (`NoRecordLost`) and `CallsAreAtomic` (`Spec =>
Linearizable`: `Db` implements `DbMap`). These are about what can be reached along a chain
of pointers, which invites an induction along the chain. The proof avoids it with two
functions that are not variables of `Db` and that the invariant only says exist: `on`,
the set of records on each list, and `rk`, a rank that falls along the list. `Linked`
then says locally, record by record, that `ptr` leads to the record of the next lower
rank; a record put in front gets a higher rank (`PushKeeps`), one taken off leaves the
others in order (`RemoveKeeps`), and only at the end `ListIsTrail` shows that the
pointers meet exactly `on`. The invariant has three parts.

* `TurnInv`: at which point of which call a process is, which locks it holds there, and
  that its answer is fixed from the same point on at which the map changed. It holds
  whatever crashes there are.
* The lists: each record of a chain is the map's (`OnChains`), each key of the map has its
  record (`InMap`), the free list holds blank records (`OnFree`), a written record is on
  its chain or about to be linked (`Written`), none is nowhere (`Kept`). The exceptions are
  named by the process that makes them: `Cuts`, a deletion between the write of the free
  pointer and that of the chain; `Wipes`, one between its two overwrites; `Away`, a
  replacement between its deletion and its insertion; `Leaves` and `Takes`, a record in
  the hand of a `db_store`.
* `Knows`: what a process has read about the list it has locked, from the walk (`Walks`, no
  record behind it has the key) to the write that uses it (`Found`, `Absent`, `Owns`).

Each writing step has a lemma that gives the new `on` and `rk`; each other step one that
they stay. For the refinement, `AbsOf` is the call of `DbMap` that a process is in; a
lemma per kind of step shows that it and the map make a step of `DbMap` or none, so the
instant of a call is the one write or read that settles its answer.

The code does not keep the lists when a process is killed inside `_db_dodelete`
(db.c:509): with kills in `delete`, TLC finds `ChainsHoldMap` and `RecordsUnshared`
violated. `HalfDeleted` says that this has happened, that is, that a process was
killed in a call that may delete, and the first two theorems are `Spec =>
[](HalfDeleted \/ ...)`: what a kill elsewhere leaves behind harms no chain.
`NoneHalfDeleted` shows that `HalfDeleted` stays false where `CrashOps` has no such call,
as in `db_ops` and `db_cross`. `CallsAreAtomic` is stated for such `CrashOps` (`NoHalfDelete`);
`RecordsAreKept` needs no condition, as it speaks of the end of runs nobody was killed in.

**`PrintSpoolProofs`**. `TypeCorrect` and `FirstCome` (`FirstComeFirstServed`) rest on
`LineInv`: the stamps of the queue increase,
the job in hand is older, and while the queue is rebuilt what is left to do is not
in it. The four properties about files (`NumbersApart`, `JobsKept`, `JobsRemembered`,
`FilesRemoved`, together `SpoolKept`) are invariants of `Spec` with no hypothesis on
behaviours; what they say, they say until a number in use is handed out, because
the daemon does nothing to prevent that. The invariant `NumberInv` has three parts
beside `LineInv`. `SpoolInv`, which holds until then: who owns which file at
which point of its thread, that a complete request has its data unless it was
printed, that a queued or held job has a complete request, that no job is in two
places, and that what is complete is under way, due, or `canceled`. `HandedOut`: in
the first life every number in the spool was handed out by it. `InSequence`: the
numbers handed out lie between the first one and the next (`Turn`, with its cases for
a negative start and for a wrap), until all positive ones were handed out. From the
last two a step that hands out a number that this life has already handed out,
before a whole turn, is impossible (`NextIsFresh`), so only a number that `reused`
records can be in use (`NotReused`).
`NumbersFresh` says the same of the first life: no number in use is handed out before
the counter has come round, whatever the job ID file held.

**`SysvSemProofs`**: `CounterExact`, `KeptWhileUsed`, `Exclusion`. The invariant says
what the undo adjustments of a process are at each point (`Undo`), since any process
may exit at any step; that the third member is 1 exactly while one process is in the
locked part (`LockMember`); that the first two are either as `semget` made them and
nobody is counted, or say how many are inside and counted (`Members`); and that who
is about to remove the set has locked out every process but those in `sem_open`
(`LastUser`). Any finite number of processes below `BIGCOUNT`, beyond which the
counter of the code goes below zero.

**`FooHashProofs`**: `NeverUsesFreed`, `CountsReferences`, `ReferencedCanBeFound` and
`Refines` (`Spec => Implements`). The inductive invariant relates the count to the
set of references (`CountIsRefs`), says which lock each thread holds at which
point, that an object with a reference is in the table unless that reference is
creating or freeing it, and that a thread that found the count to be 1 under both
locks holds the only reference. For the refinement every step is a step of
`RefTable` or a stutter under that invariant.

**`ThreadProofs`**: the safety properties of `MCThreads`, for any threads, jobs, messages,
numbers and sizes: `HandedOverIntact` (`QueuesIntact`), `NothingChangesUnderAThread`
(`HeldIsOwn`), `NothingIsEarly` (`NotTooEarly`) and `CountRefines` (`CountImplements`). A step
of one program leaves the others as they are (`Steps`), so the invariant of
`ThreadsInvariance` is the conjunction of one per program.

* `JobInv`: no job is queued twice, the links in both directions are those of the
  sequence (`Links`), and a worker that walks has the read lock, stands at a queued job
  and has none of its own behind it (`Walkers`). Without the lock in `Walkers` the walk of
  `job_find` would not survive a removal.
* `WorkInv`: the message list is finite and acyclic. `m_next` is a function, so this
  is said with the history `taken`: what is on the list is what was enqueued and not
  taken (`Linked`), and one consumer at a time is between its `pthread_mutex_lock` and unlock.
* `PollInv`: the messages queued, in the helper's hands and on the socket are, in this
  order, the successors of those printed; for the shared buffer of `pollmsg2.c`, at which
  of its points the helper and main may be together (`ShareOrder`).
* `EnvInv`: whose value a buffer holds follows from who has it (`OwnBuffers`), and a
  thread past `pthread_once` has the key (`KeyFirst`).
* `CountInv`: `FooHashProofs`' argument along a shorter invariant, since one lock holds both
  the list and the count: only the two gaps outside it need a description (`InHand`,
  `Apart`). The refinement follows as there.
* `SortInv`: a thread's part is sorted once it has arrived (`PartsSorted`), the count at
  the barrier is the number who have (`Counting`), and in the merge what is printed is
  not above what is left and each value was printed as often as it was passed (`Merging`).
* `RetryInv`: a helper's wakeup and the time asked for agree, and main calls by itself only
  when the time has come or `failed` is true (`Waited`, `TimeHasCome`); `WaitIsLeft` does the
  arithmetic of the borrow.

`LONG_MAX` is above the numbers (`SortAssumption`): otherwise `merge` uses an unset index.

**`ProgramProofs`**: the safety properties of `MCPrograms`: `RestoresCaller`
(`CallerRestored`), `AnswersAreRight` (`AnswersRight`), `OneDaemonRuns` (`RunsAlone`),
`BuffersSuffice` (`InBounds`), `ContentsAreExact` (`ContentsExact`) and, for `DbOpen` by itself,
`DatabaseCreatedOnce` (`Spec => []CreatedOnce`) and `InitializersExclude`. As in `ThreadProofs`
the invariant of `ProgramsInvariance` has one conjunct per program; TLC checks it on the
instance of `programs`.

* `SleepInv`, `TtyInv`, `PassInv`, `AbortInv`, `SystemInv`: what of the caller's is borrowed at
  which point. In `sleep` an alarm that is pending after the wait, or a timer still
  running at `cancel`, means that another signal ended the wait; in `ttymodes.c` what was
  saved is the terminal of the start while a mode is set, also after half a `tcsetattr`,
  unless an earlier one has left a part of a mode (`stuck`); in `getpass` the two keys are
  blocked wherever the echo is off, unless putting it back has failed (`unrestored`).
* `TellInv`: it is the parent's turn or the child's, or the parent was told and has not gone
  on yet. One side can move, and it expects the counter that it finds; the other waits and was
  not told. Who was told was told once: by a byte, a pending signal or a flag (`Told`).
* `CoproInv`: one line at a time is with the parent, in the first pipe, or its answer in the
  second. `PtyInv`: who stops unasked has copied all there was.
* `DaemonInv`: the lock has one holder, which is the copy past `lockfile` as the process it is
  now, after its forks (`LockHeld`), and what is closed, left and forked at each point
  (`Apart`).
* `ForkInv`: while the client waits its request is in one place: the pipe, the server, or
  answered (`Asked`, `InService`, `AnswerLeft`); so whatever kills either side, no answer of
  one call is left for the next.
* `UploadInv`: the tokens on the connection follow those the daemon has taken
  (`TokensInPlace`), for any sizes and any cut, and the client's answer tells what was
  stored (`AnswersTrue`).
* `StatusInv`: with an answer in each read the program is at its own place of the last
  answer; whatever stands behind it in the buffer does not matter (`WholeRead`).
* `AioInv`: a buffer in use holds the block that its request names, decoded or not as its
  state says (`BuffersOwnBlocks`), a block that was read is in a buffer or in its place of
  the output (`NothingLost`), and `numop` is the number of buffers in use.
* `MemInv`: `msbuf` has the indices of the buffer and no others, the null bytes included; the
  valid part of the buffer is the file, except for the byte that a stream
  opened for appending gives to its terminator, and a stream that was only
  written to has its null byte.
* `WalkInv`: the stack of `dopath` against the tree. Frames get deeper (`Frames`), each has
  room for one more name (`Room`), what is still in them was not visited (`Unvisited`), the
  counters are the numbers of visited files (`Counted`), and a file that was left alone, in a
  visited directory that was left alone, is due or in a frame (`Pending`). At the end the
  frames are gone: if a file of `Safe` were unvisited, one with the shortest path would be,
  and its directory was visited.
* `OpenInv`: `CreatedOnce` speaks of the end, when nobody is in `db_open`; its reason is in
  the middle. `TableToCome`: once a creator has emptied the index file, either the table
  is there or some creator has still to take the lock. `StillEmpty`: who saw an empty
  file in `fstat` holds the lock until it has written. Any number of processes with any
  flags; one with `O_TRUNC` alone is the exception that `CreatedOnce` states. `OpenIsOpen`
  carries this over to `MCSpec`.

Assumed are the types of the sizes, that `Null` is no process and 0 no character of a
stream, and that the files are a finite tree (`TreeAssumption`: among any of them one is the
root or has its directory outside). Names below the root are at most `NAME_MAX` long, and a
path may be longer than a name; the root's own name may have any length. `Ftw`'s `PathOf` is a
recursive function along the tree. That it has the value its definition says (`PathOfIs`)
would be an induction, which this prover does not do; here it follows from a largest part of
the tree that has lengths of paths, since a part that is not all can be extended by a file
(`PartGrows`).

**`OpenServerProofs`**: three invariants, one on top of the other. `TablesInv` relates
`client[]`, the poll array or the sets of `select`, and the connections, at every
point of the scan over them; `EntriesAgree` (`TablesAgree`) follows. `ReadyInv` says
that what was reported as readable is still so when the scan comes to it, although
entries are removed, moved and used again in between; so a request in the buffer has
bytes, and in the select loop comes from the client whose entry it is:
`UidIsTheClients` (`RequestUid`). `ProtocolInv` says for each client that its request is
unread, in service, or answered, exactly one of these, and what its stream holds;
`AnswersAreOwn` (`OwnAnswer`) and `NullsInPlace` (`NoFormatError`) follow. The last two
are for `ShortMenu`: requests no longer than the buffer and of a number of words the
server takes. With others they do not hold, see the observations in section 3. Any
number of clients, requests, faults, any `NALLOC` and `MAXLINE` with the sizes
`ConstantsTyped` names.

Only model-checked, on the instances above:

* all liveness (`CallsReturn`, `AckedIsPrinted`, `CreateReturns`, `OpenReturns`, `WaitsEnd`,
  `CallsEnd`): it rests on fairness and `ENABLED`, which the prover does not handle;
* the properties of the five runs that are violated, among them the only one of
  `PrintWorkers`.

## 6. Bounds

Constants that bound a model and are not in the code: `Menu` (the calls of each
process) and `Preload` in `Db`; `Menu` (the requests of each client) and `MaxFaults`
in `OpenServer`; `MaxStops`, `Hups`, `MaxDefers`, `Faults` and `Written` in `PrintSpool`; `MaxSets`,
`MaxExits`, `Rounds` in `SysvSem`; `MaxSends` in `QuitFlag`, `MaxMsgs` in `PollMsg`,
`MaxTime` in `Timeout`, `MaxSeconds` in `Sleep`, `MaxLines` in `Coprocess`, `MaxData` in
`PtyLoop`, `MaxOps` and `MaxSize` in `MemStream`, `MaxCalls` in `OpenFork`, `MaxTyped` in
`GetPass`, `Size` in `Rot13Aio`, `HDR`, `FILE` and `Addrs` in `PrintClient`; the sets of
processes, threads, copies, objects, files and keys everywhere.

Constants of the code made small: `PtrMax`, `MaxId`, `Base` (ten), `BIGCOUNT`, `MAXLINE`, `NALLOC`,
`SECTONSEC`, `LONG_MAX`, `NTHR`, `TNUM`, `MAXSTRINGSZ`, `NLOOPS`, `NBUF`, `IOBUFSZ`, `MAXSLEEP`,
`MAX_PASS_LEN`, `NAME_MAX`, `pathmax`, `MaxFd`. Each is chosen so that the limit is
reached: a second of three units makes the borrow of `timeout` happen, a buffer of
two characters meets a password of three, five blocks use two buffers again, a
file and a header of two tokens come in one read or in several, `MAXSLEEP` of 4
allows three tries at each address. `MaxId` and `Base` of 3 make the largest number
the only one of two digits, so that both the wrap and the stale digit behind a 1 come
within two jobs.
The stalled client (`stall`) is a fault of `spool_timeout` only, as no other property
asks whether the whole file was stored.

## 7. Plan

Done, in order of importance: the database (`Db`, `DbMap`, `DbOpen`), the spooler
(`PrintSpool`, `PrintWorkers`, `PrinterStatus`, `PrintClient`), the semaphore library,
the reference-counted objects in both forms, the open server in both forms, the
thread programs, the programs on processes, signals, terminals and files; the
theorems of section 5.

Left: what the README lists as not modelled, and proofs of liveness, which are out of
the prover's reach.
