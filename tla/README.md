# Verification of aesdchar, aesdsocket and the examples

TLA+ models, model-checking runs and TLAPS proofs for the programs of this
repository: the `aesdchar` Linux character device with its circular buffer, the
`aesdsocket` server that stores what its clients send in that device, and the
threading and systemcalls examples.

## 1. The system

| Component | State | Operations | Interacts with |
|---|---|---|---|
| circular buffer (`aesd-char-driver/aesd-circular-buffer.[ch]`) | `entry[10]`, `in_offs`, `out_offs`, `full`, `total_size` | `init`, `add_entry`, `find_entry_offset_for_fpos`, `read_helper` | called by the driver, which must hold the lock |
| driver file operations (`aesd-char-driver/main.c`) | `struct aesd_dev`: mutex, buffer, `partial`, `partial_entry`; a position per open file | `open`, `release`, `read`, `write`, `llseek` | any process; the ring |
| driver ioctls (`main.c`, `aesd_ioctl.h`) | `seek`, `seekto_position` in the device | `AESDCHAR_IOCSEEKTO`, `AESDCHAR_FLUSH`, both without the mutex | run concurrently with read and write |
| module load and unload (`main.c`, `aesdchar_load`, `aesdchar_unload`) | module loaded, device memory | `aesd_init_module`, `aesd_cleanup_module` | refused while a file is open |
| server (`server/aesdsocket.c`) | signal flags, thread list (`queue.h` SLIST), pthread mutex, sockets | accept loop, connection thread (receive, store, return), join, signal handler, shutdown | clients by TCP; opens the device for every connection |
| server timer | `caught_sigalrm` | timestamp every 10 s | dead code: `start_timer` is `false` |
| `examples/threading` | a mutex of the caller, `thread_data` with a success flag | start a thread; in it wait, lock, hold, unlock | the caller, who shares the mutex, joins and frees |
| `examples/systemcalls` | descriptor 1, descriptors of output files, child processes | `do_system`, `do_exec`, `do_exec_redirect`: open, dup2, fork, execv, waitpid | the commands it runs |
| `finder-app` (`writer.c`, `finder.sh`, `writer.sh`) | files | write a string to a file, count matches | `finder-test.sh` |
| tests, start/stop, kernel build and qemu scripts | none of their own | | drive the programs above |

### What is hard about it

* `read` and `write` test `mutex_is_locked` before `mutex_lock` and again after
  `mutex_unlock`, so that the outcome of a call depends on what other processes
  do between two of its lines.
* `llseek`, both ioctls, the sizing of `tmp` in `write` and the last comparison
  of `read` access the device without the mutex. Every assignment to the ring is
  therefore visible half-done.
* The seek request belongs to the device, not to the file.
* The file position counts from the oldest stored byte, which moves when a full
  ring overwrites an entry.
* A read of a full ring stops at the physical end of the array; entries are
  never cleared, so a flush leaves stale sizes and pointers behind.
* In the server, one mutex is held for a whole connection, from before the first
  `recv` to after the last `send`; the accept loop joins threads while clients
  wait; a signal may arrive anywhere. Other programs use the device meanwhile.
* In the examples, every failing call is logged and most are then ignored.

### What makes each component correct

* Ring: it holds the most recent N commands in order, `total_size` is their
  length, a lookup inverts concatenation, a read returns the next bytes. (The lookup
  of position 0 and reads that start inside an entry do less: section 3.)
* Driver: mutual exclusion on every exit path; the ring is that of serial adds
  however calls interleave; commands cut into pieces lose and repeat no byte;
  a reader gets contiguous bytes and none twice; no stored entry points to memory
  that a flush or a removal gave back; every call returns.
* Server: a client's command reaches the device whole and the reply is the
  device's content after it; threads are joined once; descriptors do not run out
  by themselves; a signal ends the server.
* Threading: users of the mutex exclude one another, and a flag that is set means
  that the mutex was given back.
* Systemcalls: true means that the command exited with 0; a call leaves no child
  behind; descriptors do not pile up; a redirected command writes to the file its
  call names. (The first two except a failing `waitpid`. That a call closes its
  output file, and that later commands write to the terminal again, is not so: see
  section 3.)

The hazards behind these are in `PROJECT.json`, each at its line.

## 2. Modules

    CommandLog            what the device promises: the last N commands, in order
       ^ implemented by
    CircularBuffer        the functions of the ring as operators on a buffer value
    Ring                  the ring driven by one caller at a time
       ^ implemented by
    AesdChar              the driver: processes, mutex, partial writes, seeks, flush

    AesdSocket            the server's threads on top of the device (CircularBuffer)

    Threading             the threading example and its caller
    SystemCalls           the systemcalls example and its children

    MCRing, MCAesdChar, MCAesdSocket, MCSystemCalls            instances for TLC
    CircularBufferProofs  theorems: the operators, their loops included
    RingProofs            the ring, its lookups and reads
    AesdCharProofs        the driver's lock
    AesdCharRingProofs    the driver's ring, bytes and memory
    AesdCharReadProofs    the driver's types, and what its readers get
    AesdSocketProofs      the server: lock, threads, joins, descriptors, signals,
                          the ring under it, types, replies
    ThreadingProofs, SystemCallsProofs                         the examples

**CircularBuffer.** A buffer is a record with the fields of
`struct aesd_circular_buffer`. `aesd_circular_buffer_add_entry` is the
composition of one operator per assignment (`DropOldSize`, `AddNewSize`,
`StoreEntry`, `AdvanceIn`, `AdvanceOut`), so that `AesdChar` can take the same
assignments one step at a time. The memory of an entry is a pair of a block name
and an index, and `read_helper` copies such pairs: reading past an entry's end is
visible. The loops are recursive functions over their iterations, one definition
each, so that they can be reasoned about: `SizesBefore` (the sums of entry sizes),
`Remaining` (the search for a position) and `CopyStates` (the copy, one
`CopyEntry` per iteration). `start_entry`, `section_end` and `seekto_fpos`
are the parts of `aesd_read` and `aesd_adjust_file_offset` that walk the entries.

**Ring.** The calls `add_entry`, the flush's reset and the initialisation when
the module is loaded again (`Load`), one at a time. A history
variable `appended` counts the bytes ever added, and a block is named by the
value of `appended` when it was added. Byte `k` of a block is then byte
`buffptr + k` of the stream of everything written, and "the most recent writes in
order, without gap or overlap" says that each entry ends where the next begins:
no sum over entries is needed to state it or to prove it. The properties of the
lookup, of a read and of the seek sum are stated here too, for every position and
every count of `Counts`. `Spec` has no bound on
`appended`; `MCRing.BoundedSpec` adds `MaxBytes` for TLC. `StepSpec` has the same
steps, with the size of an added entry computed from `appended'` (`Grow`): TLC can
evaluate it where the sizes are all the positive numbers, as in the refinement by
the driver.

**AesdChar.** Processes make calls on their own file of one device. `pc[p]` is
the place in the call, `frame[p]` its arguments and locals. Steps are cut
wherever another process can observe the difference:

| code | actions |
|---|---|
| `aesd_write` | `WriteCall` (arguments; `tmp` sized from the partial entry, unlocked), `WriteCheck`, `WriteLock`, `WriteMerge` (prepend the partial entry) or `WriteOops`, `WriteKeepPartial` or `WriteCommit`, then `add_entry`'s assignments `WriteDrop` `WriteSize` `WriteStore` `WriteIn` `WriteOut`, `WriteUnlock`, `WriteRecheck` |
| `aesd_read` | `ReadCall`, `ReadCheck`, `ReadLock`, `ReadEof`, `ReadSeek`, `ReadClear`, `ReadCopy`, `ReadUnlock`, `ReadRecheck`, `ReadAdvance` |
| `aesd_llseek` | `Llseek` (through `generic_file_llseek_size`, a kernel function modelled from its use) |
| `AESDCHAR_IOCSEEKTO` | `SeektoCall`, `SeektoSum` (one loop iteration; outside the array any size of `Garbage`), `SeektoFlag` |
| `AESDCHAR_FLUSH` | `FlushCall`, `FlushFree` (one iteration), `FlushReset` (one assignment) |
| files, module | `aesd_open`, `aesd_release`, `aesd_cleanup_module`, `aesd_init_module` |

Undefined behaviour is a choice: an uninitialised slot holds any entry of `Junk`;
the test for `'\n'` in a block that has been freed sees either answer. A write of
no bytes gets `ZERO_SIZE_PTR` from `kmalloc`, and `data[-1]` (or the store to
`*data`) is a fault at an address nothing is mapped at: `WriteOops` kills the
process, closes its file and leaves the mutex held. `freed` remembers who freed a
block (a merge, a flush, the removal of the module), since the merged command is
kept in a block that a merge has freed. A block that was freed is never given out
again, so what two owners of one block do to each other is not seen.

Several accesses are one step in these places: `in_offs` and `full` (`WriteIn`);
`total_size -= x` and `+= x`, a read and a write of one word; the lookup and the copy
of a read (`ReadCopy`, main.c:111-154); the merge, which reads `partial` and
`partial_entry` several times (`WriteMerge`, main.c:232-244); the three assignments
that keep a partial entry (`WriteKeepPartial`, main.c:251-253). All are made with the
mutex held, so the only code that can come between them is `aesd_flush`, which takes
no lock; a flush does race every other pair of assignments in the model. The theorems about the ring and its
readers assume that nobody flushes during another process's call (`SerialFlush`,
`SoleFlusher`), where the coarser steps make no difference. `TypeOK`, the lock's
properties and `RoomLostToOthers` are stated for flushes at any time, between the
steps as they are cut here.

`received`, `committed` and `delivered` are history variables for the properties.
The refinement of `Ring` maps `buffer` to `Settled`: the ring as it will be when the
`add_entry` in progress has finished its assignments, or, from the first
assignment of a flush to the ring on, as the flush leaves it. So the whole of
`add_entry` is one `Add` at `WriteCommit`, and the whole of a flush one `Flush` at
its first assignment to the ring (`full`).
Each process has one open file; a second file of the same process behaves like
another process that never runs at the same time.

**AesdSocket.** The server composed with the device. The threads use the device
under the server's mutex, so a device call (`WriteDevice`, `ReadDevice`,
`SeekDevice`, built from the operators of `CircularBuffer`) is one step;
`AesdChar` has the steps inside. Other programs (`echo`, `cat`, `flush_test`) use
the device between the server's calls, without the server's mutex. Their reads and
writes take the driver's mutex and so come before or after a call of the server; a
flush does not, and in the code it can run inside one. Here it is one step between
two calls: what a flush inside a write does is `AesdChar`'s subject (`flush_race`). A client makes
one connection and so names the thread that serves it. `files` counts the
descriptors of connections and device files; the listening socket and standard
streams are not counted.

| code | actions |
|---|---|
| `accept_connection_thread` | `Lock`, `Receive...`, `OpenReply`, `ReturnData`, `Unlock`, `Close`; `ThreadFails` for every call whose failure makes the thread call `exit(-1)`, `ThreadExhausts` for an open that finds no descriptor |
| `recieve_socket_data` | `ReceiveChunk` (one `recv` and `write`), `ReceiveSeek` (leaves the device file open), `ReceiveClose` (`recv` returns 0: `strcmp(NULL)`, the process dies) |
| `return_socket_data` | `OpenReply`, `ReturnData` (one `read` and `send`; goes on while the buffer is full) |
| `main` | `set_signal_handling`, `open_socket` (with the daemon fork), `StartFails`, `Listen`, `Accept` (with thread creation and list insertion, which only `main` sees), `JoinTest` (the assignment in the condition), `Join`, `LoopTest`, `AfterLoop`, `MainFails` |
| `signal_handler` | `Signal`: runs on the main thread, which Linux prefers for a signal sent to the process; a blocked `accept` returns `EINTR`. Between `LoopTest` and `accept` (label `listen`) it only sets the flag; before `sigaction` it kills the process |
| `graceful_socket_shutdown` | one thread cancelled per step; `ThreadCancelled` is the thread's end at a cancellation point |
| start script | `Restart`: a new process on the device the last one left |
| `dev.sh`, `flush_test.c` | `OutsideWrite`, `OutsideRead` (takes a pending seek away), `OutsideFlush` |

A message is what the code tells apart: a chunk with or without a newline in it
and at its end, a seek command, end of file. Seek commands name a command the device
can hold or the one after (`cmd` in 0..N); larger numbers, whose sum reads beyond the
array, are in `AesdChar` (`Garbage`), and malformed ones are left out. `ThreadFails`
takes the unlock and the `exit(-1)` of aesdsocket.c:193-194 and 198-199 as one step;
what another thread may do with the mutex between the two is left out.

**Threading.** `start_thread_obtaining_mutex` is one step of the caller, the two
sleeps of `threadfunc` are time that passes before a step. Any create, lock or
unlock may fail (`Faults`); the code then goes on: `LockFails` leads to the same
place as `Lock`, and the unlock that follows frees a mutex the thread does not
hold, as a default pthread mutex allows. The caller, who locks the mutex once and
joins, is modelled from the comments in `threading.h`.

**SystemCalls.** A process that calls the three functions one after another, and
one record per call: the child it forked, what descriptor 1 of the child is, how
`waitpid` returned, the result. `fds` counts the descriptors that `open` returned and
that are still open; descriptor 1 is `stdout`. A child whose
parent's `waitpid` failed goes on by itself. `do_system` is the same without the
redirection: `system` forks a shell, waits for it, and any status but 0 (-1
included) becomes `true` in `bool status`. After a failing `waitpid`
`do_exec_redirect` evaluates a status that was never set: any result.

Operators named `X_Fault` (for example `Succ_NoWrap`) are `X` with a plausible
mistake. No specification uses them. `PROJECT.json` pairs each with a property
that TLC refutes when the mistake takes the place of `X`.

## 3. Runs

| run | instance | shows |
|---|---|---|
| `ring` | N = 3, sizes 1..3, 11 bytes in all, slots uninitialised with size 0 or 2 | `MostRecentWrites`, `TotalSizeExact`; `ImplementsLog`; in every reachable ring, for every position and every count: `FindCorrect`, `ReadExact`, `CatReturnsAll`, `SeekFindsCommand` |
| `driver_writers` | two processes, one also reads; N = 2, commands in pieces of 1 or 2 bytes, writes of nothing, 4 bytes; fair scheduling | `TypeOK`, `MutexDiscipline`, `ByteConservation`, `ImplementsSerialRing`, `EveryCallReturns`, `DeathFreezesLog`, `RoomLostToOthers` |
| `driver_readers` | a writer; a reader of 1, 2 or 9 bytes that also seeks, sends the seek ioctl and reopens | `ReadReturnsStream`, `NoRedelivery` |
| `driver_one_user` | one process that writes pieces, reads, seeks, flushes, reopens, unloads and loads the module | `EntriesLive`, and `ImplementsSerialRing` across flushes and reloads |
| `server` | three clients, N = 2, any messages, SIGTERM and SIGALRM from start-up on, failing calls, four descriptors, one restart | `TypeOK`, `ServerMutex`, `ChunksTogether`, `ReplyCorrect`, `OnlySeeksLeak`, `JoinedOnce`, `AtMostOneMore`, `AtMostTwoThreads` |
| `server_liveness` | three clients that send a command or a seek, buffers of 2 bytes, one call of another program, fair scheduling | `ReplyCorrect`, `ReplyForward`, `EveryClientServed`, `SignalEndsServer` |
| `threading` | three threads and the caller, any call failing, fair scheduling | `HolderOwns`, `SuccessMeansReleased`, `EveryThreadJoined` |
| `systemcalls` | three calls out of five kinds, two output files, any call failing, fair scheduling | `TrueMeansSucceeded`, `NoChildLeft`, `OneDescriptorLeft`, `RedirectedOutput`, `EveryCallReturns` |
| `read_too_much` | as `ring` | violates `ReadWithinCount` |
| `freed_memory_added` | one process, pieces | violates `AddedMemoryAllocated` |
| `flush_race` | a writer and a flusher | violates `QuietTotalExact` |
| `join_completed` | three clients | violates `JoinsCompleted` |

`FindCorrect` has three parts. For every position inside the data but 0 the lookup
names the stored entry and the byte. For position 0 it returns the oldest entry and
leaves `*entry_offset_byte_rtn` as the caller had it (aesd-circular-buffer.c:55 assigns
the local pointer), although the comment at lines 33-35 says that the value is set
when the position is found; `aesd_read` does not call it for position 0. For a
position beyond the data it never returns a stored entry, and returns nothing when
the ring is full. `RoomLostToOthers` says how `tmp` in `aesd_write` can become too
small: it has room when it is allocated, and only another process that keeps a
partial entry before this one has merged takes the room away. `driver_writers`
reaches that. `OneDescriptorLeft` counts every descriptor on an output file,
descriptor 1 included, which is the one that stays.

**Bounds.** With N = 3 and 11 bytes of entries of size 1 to 3 the ring fills,
wraps more than twice and is flushed in every position; entries of different
sizes replace one another in every order. N = 2 is enough for the driver: the
ring is empty, half full, full and wrapped, and 4 bytes overwrite a full ring
twice while another call is at any of its steps. `Counts` is 1 and 9 in the driver
runs, a count that stays in one entry and one larger than everything stored, and
in `driver_readers` also 2, with which `read_helper` may copy too much
(`read_too_much`): `ReadReturnsStream` speaks of the copies that are exact
(`ExactCopy` in `Ring`), `NoRedelivery` of all. In the server `ReplyCorrect`
demands that a reply ends at the newest byte only where its reads are exact
(`ExactReads`): one buffer has room for everything, as in `server`, or all
commands are as long as the buffer and the reply starts with one of them, as in
`server_liveness`, which reads a reply in several buffers. A reply read inside a
command may copy too much and end early; it is a gapless piece even then. Llseek offsets
-1, 0, 1 with the three bases reach every position of so small a device. The seek
arguments include a command beyond the array.

Three clients are the fewest that show the join loop at work (the first
connection is joined when the second arrives) and, with N = 2, wrap the ring.
Clients are interchangeable, which `server` uses as a symmetry. Its buffer holds
everything; `server_liveness` reads replies in several full buffers. With
three descriptors, what the server needs without seek commands, or with four, it
runs out after one or two of them, which the runs reach. One outside call
comes between any two steps of the server. Three threads let one that failed to
lock free the mutex of a second while a third waits. In `systemcalls` three calls
are two redirected ones to different files and one that follows, or a child left
running over two later calls.

**Deadlock** is checked in `driver_readers` and `driver_one_user`. The ring runs
stop at their byte bound; in `driver_writers` a process killed with the mutex held
may leave the others waiting for ever; the server waits for clients that need not
come; the examples end. These switch the check off.

**Fairness** (`FairSpec`): weak for every step of a call in progress, since the
scheduler runs a process that is ready; strong for taking the mutex, since a
kernel mutex hands itself over to a waiter that has spun or slept long enough
(`MUTEX_FLAG_HANDOFF`), so that a waiter does not lose every race. Processes need
not make calls. In the server: weak for the main thread and for every connection
thread, its client included: the liveness properties are about clients that finish
their command and take their reply. A client that does not blocks everybody. An
open that finds no descriptor fails and is part of the thread's progress; injected
failures, signals, connections and outside calls are never forced. In the
examples: weak for every thread, for the caller and for children, since commands
end; weak is enough for the mutex because each of its users takes it once.

### What the code does not do

* `read_too_much`: `read_helper` adds the start inside the first entry to the
  end of whichever entry the copy stops in, and then copies more than `count`.
* `freed_memory_added`: `*data = kmalloc(...)` after `kfree(data)` leaves `data`
  pointing to freed memory, which then holds the command.
* `flush_race`: a flush during a write leaves `total_size` wrong for good.
* `join_completed`: the main thread joins whatever is in the list, because the
  test for completed threads is an assignment; from the second connection on the
  server accepts nobody before its newest client is done.

More behaviours that are in the models and that no property forbids:

* after the first wrap the seek ioctl sums from slot 0 while positions count from
  `out_offs`, and finds another command (`SeekFindsCommand` is for the time before);
* the test after `mutex_unlock` cannot tell a failed unlock from another process's
  lock, so a call may fail after its effect;
* a read that compares its position with `total_size` between the subtraction and
  the addition of a writer returns 0 although it has copied data;
* after a flush the lookup finds positions beyond the data, in slots that are not
  occupied, because it sums stale sizes;
* the lookup does not set the byte offset for position 0
  (aesd-circular-buffer.c:53-57, against lines 33-35);
* a file at the end of the data gets end-of-file although a seek to stored data is
  pending; in the server, a seek on an empty device is applied to a later client's
  reply;
* with two writers `tmp` may be too small for the merge, which then writes beyond it;
* the block of a command that arrived in pieces is freed by its merge (main.c:239) and
  once more by the flush (main.c:326) or the removal that comes to its slot;
* a seek whose flag is set while a reader takes the one before is lost, and a read
  that fails at its last test of the mutex has used up a seek;
* once the ring has wrapped, a reply may stop at the physical end of the ring,
  before the newest commands; so may one whose read copied more than the buffer
  holds, because its length is then not the one the loop goes on with;
* a client that closes its connection before a newline ends the server;
* each seek command leaves a descriptor open, and the server exits when there are
  none left;
* a write of no bytes kills the writer and locks the device until the module is
  loaded again, which needs all files closed; `AESDCHAR_FLUSH`, which takes no
  lock, still works (`DeathFreezesLog`);
* another program's read between a client's seek command and its reply takes the
  seek away; one that writes or flushes makes the reply skip bytes;
* `start_thread_obtaining_mutex` returns true when `pthread_create` fails
  (threading.h:42 says "false if a failure occurred"), and leaks `thread_data`;
* a thread whose lock failed sets `thread_complete_success` when its unlock
  succeeds (threading.h:23: "false if an error occurred");
* `do_exec_redirect` may return true after `waitpid` failed (systemcalls.c:28-31
  says false);
* descriptor 1 keeps the output file open after `do_exec_redirect` (systemcalls.c:72:
  "This file will be closed at completion of the function call"), and the output of
  the caller and of every later command goes there until the next redirected call;
* not in the model, for stdio's buffer is not: a child whose `execv` fails calls `exit`
  (systemcalls.c:55, 102), which writes its copy of what the caller had printed and
  not flushed, so that it appears twice.

## 4. Proofs

Proved by TLAPS for every N in 1..256, every set of entry sizes and any content
of uninitialised slots (`CapacityAssumption`, `RingAssumption`):

* `RingInvariant`: `RingInv` is an invariant. It is inductive as it stands:
  `MostRecentWrites` needs `OffsetsAgree` (so that the slot `add_entry` overwrites
  is the oldest of a full ring and the free one otherwise), and `TotalSizeExact`
  needs `MostRecentWrites` (so that what is subtracted is the distance to the next
  oldest entry). `CircularBufferProofs` gives the fields of the result of each
  operator; `StoredGrows` and `StoredShifts` say what an add does to the k-th
  stored entry of a ring that is not full and of a full one.
* `MostRecentWritesHolds`, `TotalSizeHolds`: its parts.
* `FindCorrectHolds`, `ReadExactHolds`, `CatReturnsAllHolds`,
  `SeekFindsCommandHolds`: what the lookup, a read, `cat` and the seek ioctl find in
  every reachable ring. All four follow from one state predicate, `HoldsMostRecent`:
  the k-th stored entry starts at stream position `StartOf(k)` and ends at
  `StartOf(k + 1)` and is not empty (`HoldsStream`). The recursive functions are shown to exist (`Iterates`) and
  their values are found by induction on slot numbers, as membership in a set
  (`FromTo`, from the least element of a set of naturals, `NatLeast`), since the
  library's induction takes an operator the provers cannot instantiate.
  `Remaining[k]` is the distance from `StartOf(k)`, and the first slot that distance
  lies inside is the one that holds the byte; past the data it can only be one of the
  slots that are not occupied, of which a full ring has none. `LoopInv` is the invariant of
  `read_helper`'s loop: what is copied is numbered without a gap, and it ends where
  the next entry begins, or has `count` bytes, or `count` and the surplus that
  `CopyEnd` adds; `ExactCopy` excludes the last.
* `OldestNeverGoesBack`: the action property behind every statement that a position
  only moves forward in the stream.
* `RingRefinesLog`: the ring implements `CommandLog`: an add is `Record`, a flush
  or a reload is `Forget`.

For any set of processes, any calls and any data (`DriverAssumption`):

* `LockInvariant`: `LockInv` is inductive: `MutexDiscipline`, and `InUse` (the
  kernel's guarantee that a module is not removed under a call), which it needs because loading the module again makes a new, free mutex, and no call
  may be inside then. A process that was killed inside keeps the mutex, so the
  converse of `MutexDiscipline` has to allow for it. `ProcessStep` has one step per action, each by one of four
  lemmas: the call moves outside the critical section, inside it, enters or leaves.
* `MutexDisciplineHolds`, `MutualExclusion`.
* `DeathFreezesLogHolds`: the action property, from `LockInv` alone: every action
  that assigns to the ring is by the holder of the mutex, a flush, or a load.

* `TypeOKHolds`: `TypeInv` is inductive: the types, and for every label that the
  locals are those of a call that can be there (`Fits`). It needs no hypothesis on
  who flushes.
* `RoomLostToOthersHolds`: the action property, from `TypeInv` before and after the
  step: the call makes room, every other step leaves the pending entry as long as it
  was or shorter (`KeepsRoom`), but one that keeps a partial entry.

For any set of processes, any calls and any data, if a process that flushes is the
only one that writes (`SerialFlush`: it is also satisfied when nobody writes, when
nobody flushes, and by one process that does everything):

* `DriverInvariant`: `DriverInv` is inductive: `LockInv`, the types of the ring and
  of the locals of writes and flushes, and per process what it knows of the ring:
  the branch `add_entry` chose still fits `full`, a flush has reset the fields it
  is past, a write that reaches the newline test has at least one byte.
* `ImplementsSerialRingHolds`: each step maps to a step of `Ring` or to a stutter.
  Assignments of `add_entry` are stutters because each does the first thing left
  to do in `Settled`; the others leave `Settled` alone because at most one process
  adds (the lock) and none flushes meanwhile (`SerialFlush`).
* `DriverImplementsRing`, `DriverImplementsLog`, `DriverRingInvariant`:
  `RingProofs` instantiated with the driver's `Settled` and `committed`, its
  assumptions discharged from the driver's: the driver implements `CommandLog`,
  and the ring's invariant holds of its settled ring.
* `QuietTotalExactHolds`: when no call is in progress `Settled` is the ring itself.
* `ByteConservationHolds`: `BytesInv` places the bytes received: committed, pending
  in `partial_entry`, or with the one write between its merge and its newline test.
  It makes an exception for the two assignments of a flush between which the
  partial entry has no size and is still marked.
* `MemoryInvariant`, `EntriesLiveHolds`: `MemoryInv` says that the
  occupied slots point to different blocks, already written, and that none of them
  has been given back, but for the slots a flush in progress is through with. The
  last needs the first (freeing one slot must not free another) and both need
  `DriverInv`. Several flushes at a time are possible only when nobody writes, and
  then the ring is empty (`IdleRing`).

`SerialFlush` is what the code needs and does not ensure: in the instance of
`flush_race` TLC refutes `QuietTotalExact`, `ByteConservation` and
`EntriesLive`. The instances of `driver_writers`, `driver_readers` and
`driver_one_user` satisfy it. Readers need more (`SoleFlusher`), which the same
instances satisfy:

* `ReadReturnsStreamHolds`, `NoRedeliveryHolds`: under `SoleFlusher`, nobody flushes
  but a process that does all the reading and writing itself. `ReadInv` is inductive
  with `TypeInv` and `DriverInv`: what a file has got ends at or before its position
  (`delivered <= Oldest + f_pos`, kept because the oldest byte never goes back); from
  the comparison with the end to the copy the position of the file is inside the
  data, since the ring does not change while the mutex is held; and after the copy
  the data is numbered from where it was read. The ring's part is `HoldsStream` of
  the settled ring, by the refinement. Without the hypothesis TLC refutes
  `ReadReturnsStream`: a flush between the comparison and the copy.

For any clients, messages, failures, outside users of the device and restarts
(`ServerAssumption`):

* `ServerMutexHolds`: `ServerMutex`, by the inductive `ServerLockInv` (the same with
  the type of `thread`). The clause for cancelled threads is needed because a
  thread cancelled inside the critical section leaves the mutex held.
* `ThreadsInvariant`: `ThreadsInv` is inductive: `ServerLockInv`; `ListInv`, how long
  the thread list is at each place of `main` and that what is left to visit is what
  is left in it; `ServedInv`, that a thread that serves is in the list or cancelled;
  `FilesInv`, that the open descriptors are those of the seeks and those of the
  threads in the list.
* `AtMostTwoThreadsHolds`, `JoinedOnceHolds`: from the list.
* `OnlySeeksLeakHolds`: from `FilesInv`; that two threads have three descriptors and
  not four is the mutex, under which the device is opened.
* `AtMostOneMoreHolds`: `LateInv`: after a late connection `main` is not at `accept`
  and finds the flag before it is.
* `ChunksTogetherHolds`: `ArrivalsInv`: nothing has arrived from a client whose
  thread has not had the mutex, and the last arrival is from the one that has it.

* `ServerTypeOK`: the types. The count of descriptors needs a lower bound as well as
  an upper one, for a close subtracts from it: `OpenInv` says that while the server
  runs there are at least as many as the threads that serve have open (`Covered`).
* `ServerImplementsRing`: every step of the server, of another program or of a
  restart is one operation of `Ring` on the device or none (`DeviceCalls`,
  `CallStep`), so what `RingProofs` shows of the ring holds of this module's device,
  whose calls are atomic (`StreamsHold`, `DeviceOldestGrows`).
  `ServerImplementsLog` concludes that the device under the server implements
  `CommandLog`, and only if other programs do not flush it
  (`"flush" \notin Outside`): a flush inside a write breaks the ring, which atomic
  calls cannot show (run `flush_race`).
* `ReplyForwardHolds`: `ForwardInv`: what was sent without a seek is in order and ends
  before the byte that the file's position stands for. Other programs move the
  oldest byte, but only forward.
* `ReplyCorrectHolds`: `ReplyInv` is inductive with `ServerLockInv`, `StreamsHold` and
  the types: a reply is not started, or it is a gapless piece that starts at the
  oldest byte or the position sought and ends at the file's position, or it is
  complete. Between lock and unlock nobody else of the server is in a place from
  which it changes the device (`ServerMutex`), and a step of another program sets
  `disturbed`. A reply whose first buffer was full goes on; that it then ends at the
  newest byte needs that a read of whole commands returns a whole buffer and leaves
  the position at the start of a command (`ReadOfWhole`). For other sizes this is
  false, which is where the condition `ExactReads` comes from.

For any number of threads and any failing calls (`ThreadingAssumption`):

* `HolderOwnsHolds`, `SuccessMeansReleasedHolds`: `ThreadingInv`, the two with the
  types, is inductive. An unlock frees the mutex whoever holds it, and it is
  `HolderOwns` itself that says the unlocking thread does, as long as no lock
  failed; after a failed lock the second property needs nothing but the flags.

For any calls, commands and failing system calls (`SystemCallsAssumption`):

* `SystemCallsInvariant`, and from it `TrueMeansSucceededHolds`, `NoChildLeftHolds`,
  `OneDescriptorLeftHolds`, `RedirectedOutputHolds`: `SystemCallsInv` is inductive: the
  types; `CallInv`, which ties the place in a call to the call's record, to the count
  of descriptors and to descriptor 1; and `JobInv`, what is asked of each record. A
  child's step may change the record of an earlier call; `NoChildLeft` says that such
  a child belongs to a call whose `waitpid` failed, and that is what keeps
  `TrueMeansSucceeded`.

Every safety invariant and action property of the runs is a theorem. Only
model-checked: all liveness and fairness (`EveryCallReturns`, `EveryClientServed`,
`SignalEndsServer`, `EveryThreadJoined`), which the prover does not handle. The four
violations are TLC's counterexamples.

## 5. Plan

Done: the ring, the driver with module reload and processes killed in a call, the
server from start-up to restart with its descriptors and with other users of the
device, and both examples, with their runs; proofs of every safety property, and of
the refinement of the command log by the ring, by the driver and by the device under
the server. What a next step could add:

1. A composition of the server's threads with the steps inside the driver, for
   outside calls that make the server's own fail (`-ENOMEM` from the mutex tests);
   a failing device call is a `ThreadFails` today.
2. Several open files per process, and connections that a client makes one after
   another.

### Not modelled

* The timer: `start_timer` is `false` and never set, so no reachable state has it.
* `writer.c`, `writer.sh` and `finder.sh`: a pass of system calls or of `grep`
  without concurrency or state. (`writer.c` opens with `O_EXCL`; for a file that
  exists it logs "Writing over contents" and writes to descriptor -1.)
* Scripts, tests, kernel build: no state of their own.
* Allocation failure and failing user copies in the driver: the code looks at
  neither result; a failed copy changes what bytes contain, and the model names
  bytes by their place. The server's memory is not counted.
* The buffer of standard output in `systemcalls`, which is libc's: what `exit` in a child
  writes out of it depends on what the caller printed.
* `queue.h` beyond the four SLIST operations the server uses.
