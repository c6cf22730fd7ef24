# A TLA+ verification of somenote

The repository is a collection of C programs: notes and exercises around the
UNIX programming books, and two programs of some size.  One is **mydb**
(`c_code/apue/mydb`), a database library that several processes use on the same
two files.  The other is **cvm** (`c_code/cvm`), a controller for QEMU virtual
machines with a small daemon that launches them.  Both are concurrent, both
keep shared state outside the processes, and neither has tests beyond a
straight-line example.  Beside them stand three small programs whose whole
point is concurrency with the kernel or the network: a web client with a pool of
non-blocking connections, a non-blocking echo client and a copy program with
asynchronous I/O.  This directory models all five, checks them with TLC and
proves theorems about each of them with TLAPS.

## 1. Inventory

| Part | Source | State | Operations | What is hard |
|---|---|---|---|---|
| mydb library | `apue/mydb/db.c`, `apue_db.h` | index file (free-list head, chain heads, records), data file, fcntl byte locks, a handle per process | `db_open`, `db_close`, `db_fetch`, `db_store`, `db_delete`, `db_rewind`, `db_nextrec` | several files written step by step under four kinds of locks; a scan that locks no chain; kills and full disks in the middle of a call |
| cvm exec daemon | `cvm/exec.c`, `exec()` in `cvm.c` | listen queue, children, pending SIGCHLD | accept, fork, read and `system()` in the child, `sig_chld` | signals that merge, a handler that blocks, a fork that fails |
| cvm power, images, view mode | `cvm/cvm.c` | image files, `vnc_tokens`, the QEMU processes as `ps` shows them | `addvm`, `delvm`, `power`, `ppower`, `viewmode`, `migrate_recv0`, `diskk_expend`, one-line monitor commands | no locks at all; every decision rests on a look at `ps`; asynchronous launches |
| cvm copy jobs | `cvm/cvm.c` | rsync processes, a log named after the second the job started in | import, upload, sync, backup, restore, cold migration, alter; the progress queries; `migrate_cancel1` | logs that are shared or not there yet; a cancel that races with a start |
| cvm lists, disks, bridges, periodic starters | `cvm/*.c` | none | `ls`, `ssh`, scripts | nothing |
| non-blocking echo client | `unp/strclinonb.c` | two buffers with two pointers each | one `select` loop | partial reads and writes, end of file on both sides, both directions full |
| web client | `unp/web/web.c`, `web.h` | flags per file, three counters, descriptor sets | connect, write, read | connections that complete in any order, fail or are reset; descriptor numbers that come back |
| other servers and clients | `unp/`, `epoll_lizi.c`, `csapp/tiny.c`, `csapp/echo` | a client table at most | echo, time of day | little |
| asynchronous copy | `asyncio.c` | eight buffers in flight | read, translate, write | completions in any order, errors, an input that changes its length |
| exercises | `apue/*.c`, `algorithem`, `expert_c`, `1-*.c`, `sigjump.c`, `daemon_2.c`, `pthread_timeout.c` | - | one feature each | - |
| book code | `apue/apue.3e`, `unp/unpv13e`, `csapp/code` | - | - | third party, not modelled |

How they interact: the processes that use mydb meet only in its files and
locks.  Invocations of cvm meet in the image directory, in `vnc_tokens`, in
QEMU's monitor sockets and in the process table; they hand the command that
starts a QEMU to the exec daemon over a local connection and never learn what
became of it.  All other programs stand alone.

What makes each part correct:

* mydb: the files implement a dictionary in which every call happens at one
  instant; every chain holds exactly its records; nothing is shared that must
  not be; every call returns; a killed process damages no chain but the one it
  was changing.
* exec daemon: every command is started once or lost, never forgotten; ended
  children are collected; descriptors do not leak.
* cvm: what a command says about a machine is true, it does not touch the image
  of a running machine where it promises to look first, and the password of a
  display agrees with `vnc_tokens`.  A progress of 100 means that the bytes of all
  copies of the command were sent, and a cancelled migration leaves no copy at
  work.
* web client: its counters and descriptor sets describe the connections that are
  really open, no connection is given up before the other side has ended it,
  and it ends.
* echo client: no byte is lost, doubled or reordered while it runs, and client
  and server never wait for each other for ever.
* asynchronous copy: every block is written once, at its own offset and
  enciphered, before success is reported.

`PROJECT.json` lists the hazards line by line.

## 2. Modules

| Module | Contents |
|---|---|
| `KVStore` | what mydb promises: an atomic dictionary with calls and returns |
| `MyDB` | `db.c` step by step |
| `MyDBImpl` | the refinement mapping from `MyDB` to `KVStore` |
| `MyDBProofs` | TLAPS proofs about `MyDB` |
| `DbOpen` | `db_open` and `db_close` by several creators, against the stores of other processes |
| `DbOpenProofs` | TLAPS proofs about `DbOpen` |
| `Launcher` | what exec() may expect of the daemon |
| `ExecDaemon` | `exec.c` step by step, and the mapping to `Launcher` |
| `ExecDaemonProofs` | TLAPS proofs about `ExecDaemon` |
| `CvmPower` | the power, image and view-mode commands of `cvm.c`; it uses the daemon as `Launcher` describes it |
| `CvmPowerProofs` | TLAPS proofs about `CvmPower` |
| `CvmJobs` | the copy jobs, the progress queries and `migrate_cancel1` of `cvm.c` |
| `CvmJobsProofs` | TLAPS proofs about `CvmJobs` |
| `WebClient` | `web.c` with the kernel's sockets and the servers |
| `WebClientProofs` | TLAPS proofs about `WebClient` |
| `StrCli` | `strclinonb.c` with the typist, the echo server and the reader of the output |
| `StrCliProofs` | TLAPS proofs about `StrCli` |
| `FileCopy` | what `asyncio.c` promises: blocks copied in any order, each once |
| `AsyncCopy` | `asyncio.c` with the kernel's asynchronous I/O, and the mapping to `FileCopy` |
| `AsyncCopyProofs` | TLAPS proofs about `AsyncCopy` |
| `MCMyDB`, `MCDbOpen`, `MCExecDaemon`, `MCCvmPower`, `MCCvmJobs`, `MCWebClient`, `MCStrCli`, `MCAsyncCopy` | small instances for TLC |

Definitions whose comment begins with "Variant:" are the code with a plausible
mistake in it.  They are not part of any specification; `PROJECT.json` names
for each property a variant that breaks it.

### MyDB

A step is one access to a shared file together with the local work up to the
next access; a lock request and the first read under that lock are one step.
`writev` and `readv` of one record are taken to be atomic, except that a `writev`
on a full disk may leave a part of a record.  Offsets count items
instead of bytes: 0 is the free list, `1..NHASH` are the chain heads, records
follow.  `idx` and `dat` are the records of the two files, `ptr` the list
pointers, `wlock` and the read locks the fcntl locks, `db[p]` the handle, `pc[p]`
the place in the code, `pos[p]` the file offset that `db_nextrec` continues
from.  What a list holds is stated by closed sets of records (`Closed`, `Reach`):
a record is on a list if every set that has its first record, and the successor of
each of its members, has that record; the list ends if all these sets have the
end marker 0.  Keys and values are model values with a length each; the lengths decide
about reuse, overwriting and rejection as in the code.  Formatting of pointers
and lengths as text is abstracted to their values.

Actions and code: `Call`, `RejectFlag`, `RejectLen` are the entry checks;
`FindAndLock`, `FindNext`, `FindHit`, `FindMiss` are `_db_find_and_lock` and
what each caller does with its result; `DelFree` ... `DelUnlink` are the five
accesses of `_db_dodelete`; `FreeLock` ... `FreeTake` are `_db_findfree`;
`AppDat`, `AppDatW`, `AppIdx`, `AppIdxW`, `ReuseDat`, `ReuseIdx`, `Link`,
`Overwrite` are the writes of `db_store`; the `Scan` actions are `db_nextrec`.
`DatFull`, `IdxRefused`, `IdxFull`, `LinkQuit`, `ScanAbort` are the error exits,
after which the kernel drops the locks and what has been written stays.  On a
full disk `writev` leaves nothing or a part of the record at the end of the
file, which then is an item that holds no record (`klen` 0): dead space in the
data file, and in the index file something no list leads to and at which every
scan aborts (`ScanAbort`).  `IdxRefused` is the `err_dump` at `db.c:575` for a
record longer than `IDXLEN_MAX`, after its data was appended; `KEYLEN_MAX` is
the longest key within it (the digits of offset and length are not counted).
`Crash` kills a process at any step of a call.

Not followed: keys with a `':'`, which `db_store` takes and over which every later
walk of `_db_readidx` ends in its `err_dump` at `db.c:421`, so keys of the model
hold none; a key so long that the `sprintf` at `db.c:573` overruns `idxbuf`;
the `err_quit` at `db.c:568`, which no step can reach, because a pointer written
there was read from the file and `PtrFits` is proved; `IDXLEN_MIN`, which a
record with a key that is not empty never falls below; what `_db_readidx` may
make of bytes at a lost offset that look like a record by chance (the model
always aborts there); `DATLEN_MIN`; the overlapping `sprintf` in `_db_writeidx` when
`_db_dodelete` calls it (undefined, and harmless with the usual C libraries);
several handles of one process on the same file.  Facts that the abstract
specification allows on purpose: a scan may miss a key whose value is replaced
by one of another length while the scan passes, and a replace that meets a full
disk leaves the key without any value (`Abort`).  One fact it does not cover:
after an exit at `PTR_MAX` a scan sees a record that no fetch finds, so the
refinement is checked with pointers large enough.

### DbOpen

Each process opens with any mix of `O_CREAT` and `O_TRUNC` (`Modes`).  The two
`open` calls, the lock, `fstat`, the heads, the unlock and the rewind are
separate steps; so are the accesses of a store, which holds the lock of its
chain from `Store` to `Return`.  `O_TRUNC` asks no lock, so a truncation may fall
anywhere, also in the middle of a store; a process may be killed at any step.
The index file is whole, empty or `bad`: not empty, and without its heads at the
start.

What the code does lose follows from that.  A store under way when the file is
truncated appends its index record, or writes its chain head, into the empty
file; the creator then sees a size other than 0 (`db.c:194`), writes no heads, and
returns a handle on a bad file.  And the truncations of the two files are two
calls: a store that falls between them keeps its index record and loses its data.
`StoredLinked` and `CreatorFindsHeads` therefore speak of the time after a
truncation that found no store under way (`quiet`), and of the index file only;
what they promise then, against creators that come late, is what the lock and
the look at the size are for.

### ExecDaemon

`pc` and `cur` are the parent's loop, `queue` the listen queue, `child[c]` the
child that serves the connection `c`, `sigpend` and `inhandler` the signal.
The handler calls `wait`, which blocks: it leaves only when there is no child
at all, and nothing is accepted until then.  `fork_fails` is the branch the
code takes for -1.  `Gone` kills a client between `connect` and `write`.
Commands end, because every command `cvm.c` sends ends in `&`; with a command
that stays in the foreground the daemon would stop serving at the next SIGCHLD.

### CvmPower

`run[p]` is an invocation: where it is, its command and machine.  Every call of
`vmison`, `exec`, `monitor` (connect, then write), `qemu-img`, `rm`, `sed` and
`fclose` is a step.  `qemu[i][s]` is a launch of machine `i` on its way from the
daemon's queue over the shell to a running QEMU.  `vmison` is true for exactly
one matching line of `ps`, and the shell that starts QEMU matches as well.
`sed -i` reads and later renames, so an `addVMview` that has the old file open
writes its lines to nowhere.  `addVMview` opens the file once, sets the password
of one machine after the other (`NextView`), holds their lines in the buffer of
stdio (`buf[p]`) and writes them with `fclose` after the last.  A QEMU that ends
between connect and write kills the invocation with SIGPIPE, and the buffer with
it.  A `vnc_tokens` that is missing ends `View` in `feof(NULL)`.  `addvm` of type 2
looks for the image, makes it and makes its overlay in three steps.

Because nothing is locked, no property of these commands holds for all
interleavings.  `raced[i]` records, as history only, that commands for `i`
overlapped, that one looked at `i` while a launch was under way, or that an
`addVMview` died of SIGPIPE at a later machine with the line of `i` in its buffer,
until the machine is off and idle again.  The properties say what holds without such a
race; the model contains the races, and dropping the condition makes TLC
produce them.  (Example for `ViewSettled`: power on answers "error" because the
start takes longer than 100 ms; view mode is switched on; the machine comes up
without a password.)

Not followed: the contents of images (`power_commit`, `power_compare`), the
paths of the monitor sockets, QEMU's own start-up beyond image and display; the
descriptors that `exec` and `monitor` leave open after a failed connect, which one
invocation with very many ids could run out of; a list of ids so long that its
lines overflow the buffer of stdio and are written in parts.

### CvmJobs

`run[p]` is an invocation, `jobs[j]` the background process it leaves behind:
first the shell that `system()` started, which has not opened its log, then
`rsync`, then done (it has printed its totals) or dead.  `full` says that it
has sent all its bytes at least once, or has no file to send.  `logs[t]` are the
jobs that have opened the log of the second `t`; with none of them the file does
not exist and `rate()` crashes (`RateCrash`).  `os_import` looks at the clock and only then at the image, so
its log may be named after a second long past.  `rate` takes the last percentage,
or 100 for the totals: that is 100 for a copy that still has to be renamed and may
break or be killed, and for a source that does not exist (`Shows`).  In a log with
two writers anything may be found.  `backup_query` reads its
two logs in two steps.  `migrate_cancel1` alternates between `ps` and `kill`.
`quiet` and the step `Answered` are history for the properties.

Facts of the code the properties allow on purpose: two commands in one second,
or one in the second after a backup, share a log, and then a progress of 100 may
belong to the other job (`Shared` in `HundredSent`); a progress of 100 is no promise
that the file is in place; a query that comes too
early crashes (`LogFollows` says that this is the only way); a `migrate_send1`
that has looked at the clock before a cancel still starts its copy after it.

Not followed: `rate()` of type 1, which reads the log of a patched QEMU;
`migrate_delete1` and the rebase commands; the overrun of `result` by a log of
more than 64 KB.

### WebClient

`f_flags` and `f_fd` are the table `file[]`, the three counters and the two sets
are those of `web.h`, `rs` and `ws` what the last `select` found, `i` the file at
hand.  `sock[f]` is the kernel's side of a connection and `Open` the sockets that
hold a descriptor; `socket()` gives out the lowest free number, so numbers come
back.  The loops of `main` over the files are steps; `start_connect` has its
three outcomes.  A connect that failed leaves an error which `getsockopt` clears,
and the next write is a SIGPIPE: the program then ends with every file still
under way.  A server may end a connection at any time, before the request, after
a part of its reply or after all of it: `read` returns 0 each time and the file is
done.  `asks` counts requests that went out; a write to a connection that was reset
fails without anybody looking.  `home_page` is one step, as it blocks and touches
nothing else; it may fail or die of SIGPIPE.

### StrCli

The buffers are arrays with the code's four pointers as indices.  One step is
one read or write with the pointer work around it; between them the typist types,
the server echoes or dies and the output is read, each at its own pace, over
channels of bounded capacity.  `stdin_read` and `sock_read` set the bit of the
other side without `select`, so that a write may find no room (EWOULDBLOCK).
Three things that the code does and TLC finds, which the properties describe
instead of hiding: a full buffer is taken for the end of the input (line 39);
after that, or after the true end, a partial write is followed by `shutdown`, and
the rest of the buffer ends in SIGPIPE (line 107); a return forgets bytes that
wait for standard output (line 75).  Errors of the terminal are left out.

### AsyncCopy and FileCopy

`op`, `last`, `aio_offset`, `aio_nbytes`, `data` are the fields of `bufs[i]`,
`aio[i]` is what `aio_error` says.  `last` is never reset, as in the code.  The
kernel completes or fails any request at any time, and `Resize` lets another
program truncate or extend the input.  `FileCopy` says what the result may be:
every block at its own offset, once, shorter than a block only at the end, and
success after all of them; its cipher is stated by arithmetic modulo 26, the
code's by four comparisons.  The mapping counts a block as copied when its write
has completed.

## 3. Runs

With two workers every run finishes within three minutes.

| Run | Instance | Shows |
|---|---|---|
| `mydb_store` | 2 processes, 3 keys of two lengths on 2 chains that share the free list and the ends of the files, values of two lengths, 3 records, every call but the scan, every flag (694,976 states, symmetry) | type invariant; chains and free list hold exactly what they should; one record per key; every pointer that is followed leads to a whole record; `KVStore` is implemented; records keep their shape |
| `mydb_scan` | one process changes the database on a disk that may be full at any append, the other scans and fetches; 2 records, partial ones included, fairness (315,242) | a scan returns only pairs that are in the database; an abort loses at most the key being replaced; every call returns |
| `mydb_crash` | 4 keys on 2 chains, one too long, 3 records, kills at any step, `PTR_MAX` and the value length within reach (853,229, symmetry) | after a kill only the chain that was being changed can be damaged; no data record is shared; pointers stay in range at every limit |
| `dbopen` | 3 processes that open with any flags, store 2 records step by step, close and are killed (2,881,641 states, symmetry) | unless the last truncation fell into a store, no store that has returned is lost under late heads, and a creator finds its heads |
| `execd` | 3 clients that come again and again, backlog 2, failing forks, killed clients (78,516) | `Launcher` is implemented, liveness included; zombies are signalled and collected; no descriptor leaks |
| `cvm_power` | 2 invocations, 1 machine, 2 launches, every power and image command but the removal of images, which `cvm_view` has (1,915,453) | answers of status and halt, and the looks before resize and start, are right without a race |
| `cvm_view` | 2 invocations; creation, power on, view mode and removal of a machine beside another one, both in one view-mode command or in two (4,428,157) | password and `vnc_tokens` agree without a race |
| `cvm_jobs` | 2 invocations, 3 copies, 3 seconds, `Pause` 2, `Mid` 99 (874,604) | 100 percent means that every copy has sent its bytes or has none to send, unless a log is shared; a log that is asked for is there or to come; one `pbackup` shares no log with itself; cancel ends and leaves no copy |
| `web` | 4 files named, a table of 3, 2 connections, replies of 2 pieces that may end early (213,897) | the counters and descriptor sets describe the open sockets; a normal end has read every connection to the end that the other side made; a failed connect is never a fetched file; the program ends |
| `strcli` | 5 bytes, buffers of 3, channels of 1, 2 and 1 bytes (199,432) | pointers stay in the buffers and bytes in order; which inputs are read to the end; what a return means; the loop ends |
| `asynccopy` | 7 of 8 bytes in blocks of 2, 2 buffers, failures, a changing input (16,704) | `FileCopy` is implemented, its end included; the request count and list are exact; no two buffers hold one block |

`TypeOK` is an invariant of the runs where it says more than the shape of the
state: `mydb_store`, `execd` and, with the pointers of the buffers, `strcli`.  In
the other modules it is the first conjunct of the inductive invariant, which is
proved.

One run ends in a violation and belongs to the finding: `dbopen_race`, where
`O_TRUNC` empties the file before the lock that the comment at `db.c:181` says
protects simultaneous creators.

Other places where the code and its comments disagree, seen while modelling: the
free list reuses only a record of exactly equal lengths (`db.c:719`), the comment
at `db.c:649` says "not smaller"; `db_nextrec` after another call through the same
handle reads at a wrong offset and aborts (`ScanAbort`), the comment at `db.c:757`
says it returns the next record; a machine stopped by power 5 is reported as "on"
(`cvm.c:313`), the comment at `cvm.c:659` lists a status "pause".

Why the bounds are enough: lists of three records have a first, a middle and a
last element, which are the cases of the pointer code; two chains are needed
for sharing and a third adds no new pair of locks; two processes cover every
pair of steps, and no step of the code depends on how many others there are.
In `mydb_crash` `PTR_MAX` lies between the second and the third record, and
`MaxTorn` is 1: once a list is torn no further kill happens, but all later
calls on the torn list do.  This bound matters.  After a second kill, on another
chain, a third chain can lose records, and TLC follows the model there step by
step if it is led: a replace or delete in chain D is killed before it unlinks
its record `y`, so that D's record `x` still leads to `y`; `y` is reused in chain C; a
delete of C's first record `g` is killed at the same place and `g` is reused in D,
so that C leads through `g` and `x` to `y`.  Now a delete of `y` has `x` as predecessor
and only chain C locked.  If `x` meanwhile is deleted from D and reused in a sound
chain E, the last write of that delete cuts E off behind `x`.  Two launches of a machine are the
least that makes `ps` show two lines; three clients are needed so that two
children end while the parent serves another connection.  In `cvm_jobs` three
copies allow a round of a backup and the first copy of the next one, or a round
beside a migration or an import that falls into one of its logs, and
`Pause` 2 is the shortest sleep for which `PbackupApart` holds (the code sleeps
10); 99 is the progress nearest to a false 100.  In `web` there are more files
than places and more places than connections, so that the table is cut, a
descriptor number is used twice and a file waits for a connection.  In `strcli`
the input is longer than a buffer and a buffer longer than every channel: all of
them become full and every read and write can be partial.  In `asynccopy` there
are more blocks than buffers, the last block is short, and the file can grow past
the length seen at the start.

In `web`, `strcli`, `asynccopy` and `cvm_jobs` deadlock is not checked: the first
three programs end, and in the last the bounds on time and jobs let the system
come to rest.  `Terminates` and `Copies` say instead that they end.

Fairness: in `mydb_scan`, weak fairness for steps that need no lock and strong
fairness for lock requests, which stands for the kernel granting `F_SETLKW` in
the end.  With three or more processes the kernel does not promise that, as
readers may overtake a waiting writer for ever; the run has two.  In `execd`,
weak fairness for the parent, the handler and each child, and for a client to
write or be killed once it has connected.  `fork` may fail each time.  In `web`,
weak fairness for the program, for a connect that is under way (accepted or
refused) and for a server (it sends to the end or goes away, also that of the home
page); a server that stays silent for ever does hold the program, which has no timeout.
In `strcli`, for the client, the typist (the input ends), the server and the
reader of the output; nothing forces the server to die or to live.  In
`asynccopy`, for the main loop and for each request.  In `cvm_jobs`, only for the
steps of an invocation: neither the clock nor a copy has to go on.

## 4. Proofs

Every theorem below holds for all values of the constants that satisfy the named
`ASSUME`s of its module: sizes are natural numbers, "no process" is no process,
functions have their domains.  Assumptions that say more than that are named
with the theorem that needs them.  Each inductive invariant was model-checked on
instances of the size of the runs before it was proved.  The general shape is
the same everywhere: `Init => IInv`, one lemma per action (or group of actions)
for `IInv /\ [Next]_vars => IInv'`, and the theorem by `IInv => P`.

### MyDBProofs

For any processes, keys, values, lengths, table and disk size.  First, with kills at
any step (`SpecCrash`, which includes the behaviours of `Spec`):

* `TypeCorrect`: `SpecCrash => []TypeOK`.
* `DataStaysPrivate`: `SpecCrash => []DataPrivate`.  No two index records ever
  name the same place in the data file.
* `PointersLead`: `SpecCrash => []ReadsGood`.  Every pointer followed along a chain
  or the free list leads to a whole index record, and every index record to data
  of its length.  The run `mydb_store` checks this without kills on a disk with
  room; the theorem also covers lists that a killed process has left torn, and
  files in which a full disk has left partial records.  It says nothing of the
  sequential reads of a scan, which abort at a partial record or a lost offset.
* `PointersFit`: `SpecCrash => []PtrFits`.
* `ShapeKeeps`: `SpecCrash => ShapeStable`.  No step changes the lengths of a
  record or its place in the data file; also proved with kills, where the run has
  none.

`DataPrivate` is not inductive: nothing in it says that a place just appended
is new.  `IInv` adds what the code keeps between its calls: a process that
writes at the end of a file holds the lock on the end and the end has not moved
since it looked (`TailOK`); appended data that has no index record yet is known
to one process only and lies below the end (`FreshOK`); a process that works on
a record it has read still holds that record's data offset (`HeldOK`); requests
are well formed at the steps that use them (`ReqOK`).

`FullInv` builds on it.  `LeadsOK` says of every pointer in the file, and of every
copy of one in a DB structure, that it fits and ends the list or leads to a
written record.  The one pointer that was not read before is the record at hand
in `Link`, which the limit guards.  `ShapeOK` says that the lengths in an index
record are those of its key and its data, blanks included, and that a process
knows the lengths of the record it works on; for a record from the free list that
is what `Fits` has compared.  No lock is needed for either: even two processes
that hold the same record, as can happen behind a torn list, agree about it.

Then the lists:

* `ChainsStaySound`: `Spec => []ChainsSound`, and `ChainsSoundUntorn`, the same under
  `SpecCrash` until a process is killed that has a list locked for writing.
* `FreeListSound`: `SpecCrash => []FreeSound`, which speaks of the same states.
* `KeysStayUnique`: `Spec => []UniqueKey` if `LastRec <= PTR_MAX`.

`ListInv` is the invariant.  `LockOK` says which step holds which lock, and that a
writer is alone.  `ListIs(f, h, S)` says that the pointers `f` lead from `h` through
exactly the records `S`, each once, to the end; it is stated by closed sets, so that
no induction is needed.  `ListSame`, `ListRemove` and `ListInsert` are the three
things the code does to a list.  Each chain is `ListIs` over its live records
without the one a store has written and not linked.  Between the second and the
last write of `_db_dodelete` the chain on disk leads into the free list; the
invariant then speaks of the pointers with the last write already made
(`Restored`).  The free list is `ListIs` over the blank records that no process has
taken or is about to free.  `ChainStep` and `FreeStep` say what a process knows of
its list at each step; for a search, that a record with the key is still ahead of it
(`Ahead`), from which `FindMiss` concludes that there is none (`Absent`).  A step
that changes a list writes one place in the index file and that place is of no chain
other than its own (`Touches`); the lemmas `Other...` derive once what this leaves
alone, so that each action has to show its own list only.

`UniqueKey` and the refinement need `LastRec <= PTR_MAX`, pointers large enough for
the file: `db_store` exits at the limit after it has written the record
(`LinkQuit`).  The record is live and on no list, so the next store of its key
writes another one, and a scan sees a pair no fetch finds.  The other theorems do
not need this.  In the code `PTR_MAX` is 99999: the two theorems cover index files
of up to so many bytes.

Last, `StoreLinearizable`: `Spec => Linearizable` if `LastRec <= PTR_MAX`, the
refinement of `KVStore`.  `RInv` adds to the above which calls reach which step and
which flags they have passed (`CtlOK`), that a scan keeps the free list locked and so
the record it reads stays (`ScanOK`: every delete needs that lock), and that a live record has a value unless it is being deleted (`ValOK`).  The abstract
dictionary is defined by a CHOOSE over records and processes; `DictIs` says the
same without it, and `DictUnique` shows with `UniqueKey` and the locks that it has
one solution.  A step changes no key but its own (`DictOther`).  The moment at which
a call takes effect is the blanking of the data for a delete or a replace by
another length, the write of the index record for an insert (a scan sees it before
it is linked), the write of the data for a replace in place, the read for a fetch or
a scan, and the end of the chain for a call that fails; every other step is a
stutter.  An exit on a full disk is `Abort`.

### DbOpenProofs

For any number of processes and records and any set of open modes, with kills:
`NoStoreLost` (`StoredLinked`) and `CreatorHasHeads` (`CreatorFindsHeads`).  The
invariant adds the holder of the lock, and that no store is under way while a
creator looks and writes (`LockOK`), that an empty file stays empty while the
heads are being written (`WriteOK`), that an empty file has no linked
records (`EmptyOK`), that a process that stores has a record (`RecOK`), and for the time after a quiet truncation (`QuietOK`): a
store that has come past its reads works on a whole file (`StoresOK`), and the
creator of the present file does not come past its lock without heads
(`NewestOK`).

### ExecDaemonProofs

For any number of clients and any backlog:

* `TypeCorrect`, `NoZombieForgotten` (`ZombieSignalled`) and `NoDescriptorLeak`
  (`DescriptorsBounded`), each inductive together with `TypeOK`.
* `Launches`: `Spec => L!Init /\ [][L!Next]_launch`, the refinement of
  `Launcher` without its liveness.  `LaunchInv` adds that a connection waits in
  the queue once and untouched, that the connection in service is undecided
  until `fork` returns, and that a child decides only after `system()`.

### CvmPowerProofs

For any machines, invocations, commands and launches: `TypeCorrect`, `AnswersHold`
(`AnswersTrue`), `ActsOnlyOffline` (`ActsOffline`) and `ViewSettles`
(`ViewSettled`).  The invariant says which command can be at which step
(`PathsOK`); that a machine has one QEMU up at most, whoever starts it, as the
display `:id+100` belongs to the first (`UpOnce`); for a machine without a race, that at
most one invocation works on it, what that one knows about the launches and the
password at each step, and that the password agrees with `vnc_tokens` when nobody
works on it (`MachinesOK`); that an `addVMview` which holds lines in its buffer is
alive and in its loop, that a machine in the buffer has its password, and whom it
belongs to until `fclose` (`LinesOK`), which is why the machines of a dead buffer
count as raced; and that the copy which `sed` is writing is right
about all other machines without a race (`CopiesOK`).  The last is needed
because two invocations for different machines do meet in `vnc_tokens`.

The proof found a fault in the model: two arms of the CASE in `After` overlapped.
TLC takes the first arm that is true, while TLA+ leaves the choice open, so the
runs had checked less than the text said.  The arms are disjoint now.

### CvmJobsProofs

For any number of jobs, invocations and seconds: `LogsComing` (`LogFollows`),
`HundredMeansSent` (`HundredSent`), `PairsApart` (`PbackupApart`) and `CancelComplete`
(`CancelLeavesNone`).  `PairsApart` rests on `PauseAssumption`, a pause of at least
two seconds; the code sleeps ten.  The invariant says that a job which has begun
is in its log and a log holds only jobs of its second (`JobsOK`), how far each
invocation has come (`RunsOK`: the logs of its own copies lie before the second it
works in, its announced logs have a job, what its first reading of 100 said still
holds), that announced logs have a job (`PrintedOK`), and that in a quiet state no
migration is under way (`QuietOK`).  `HundredSent` needs that a log whose only
writer has sent everything stays so or becomes shared (`Settled`): a job can join
it later.

### WebClientProofs

For any number of files and connections: `CountersExact` (`CountersTrue`),
`SocketsWatched` (`Watched`), `RefusedNeverFetched` (`NeverFetchedUnconnected`) and
`ExitMeansRead` (`ExitReadAll`).  The invariant holds at every step of the
loop, between the places where the counters are right: what the flag of a file
says about its socket (`FilesOK`), descriptors of open sockets differ (`FdsApart`),
the file at hand in `write_get_cmd` (`GetOK`), what `select` found still holds for
the files the scan has yet to reach (`ScanOK`), the counters and sets with the
file at hand taken into account (`CountOK`, `WatchOK`).

### StrCliProofs

For every buffer size, input and channel capacity: `TypeCorrect` (`TypeOK`, the
pointers), `BytesInOrder` (`InOrder`), `ShortInputsRead` (`ShortInputRead`) and
`ReturnsComplete` (`ReturnComplete`).  `InOrder` speaks of a concatenation of five
sequences; the invariant says instead which byte each single place holds
(`BackOK`, `AheadOK`), which every step moves by arithmetic alone, and the
concatenation follows.  `RecvOK` carries what `select` said to the read, and
`ShutOK` says why bytes left behind by a `shutdown` cannot end in a quiet return.

### AsyncCopyProofs

For any number of buffers, block size and input: `RequestsCounted` (`NumopTrue`),
`BlocksApart` (`OneBufferEach`) and `CopiesSafely`, the refinement of `FileCopy`
without its end: `Spec => FC!Init /\ [][FC!Next]_(FC!vars)`.  The invariant adds
that blocks are taken in order (`OffOK`), that only the buffer of the last block
is marked (`LastOK`), and what a buffer holds at each stage, plain and then
enciphered (`DataOK`).  That the four comparisons of the code are the arithmetic
cipher of `FileCopy` is a lemma over all bytes.

### Only model-checked

* All liveness (`CallReturns`, `CancelEnds`, `Terminates`, `Reaped`, the liveness of `Launcher`
  in `LaunchesAll` and of `FileCopy` in `Copies`): fairness and ENABLED are out of the prover's reach.
* `ChainsSound` after a kill that tore a list, which is part of `mydb_crash`.  It is
  true only as long as no second chain is torn (section 3), so no invariant of the
  kind above has it: for one torn chain the invariant has to say which
  records behind the tear can still be reached and why none of them has a key of
  that chain.  Everything else the runs check as an invariant or an action property
  is proved.

## 5. Not modelled

More than four fifths of the lines of C in the repository are the source distributions of
three textbooks (`apue/apue.3e`, `unp/unpv13e`, `csapp/code`): third-party code,
kept for its headers and examples.  They are left out, which is why the modules
cover a small share of all lines while they cover the larger part of the
repository's own concurrent code.

Of the repository's own programs these are left out:

* The poll server (`unp/tcpsrvpoll.c`) clears its client table from index 0 and so
  overwrites the listening descriptor two lines after it was stored (line 46):
  `poll` watches nothing and no handler is ever reached.  The epoll server fails
  at its start, in `epoll_create(0)`.  There is no behaviour to model.
* The other servers and clients (UDP, time of day, threads, `tiny.c`) handle one
  request at a time and keep no state between requests.
* `apue/rwlock.c` is a job queue without a program that uses it.
* The lists, disks and bridges of `cvm.c` print the output of `ls`, `ssh`,
  `qemu-img` and scripts that are not in the repository; the periodic starters are
  loops of `system` and `sleep` around such scripts.
* The remaining exercises show one library call each or are sequential textbook
  algorithms on small inputs, which a test covers as well.

## 6. State of the plan

The plan of modules, runs and theorems has been carried out.  What could be added:

* A proof that after one kill all other chains of mydb stay sound, which
  `mydb_crash` checks on its instance (see "Only model-checked").
* The remaining commands of `cvm.c`, if the scripts they start are added to the
  repository.
