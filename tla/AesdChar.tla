----------------------------- MODULE AesdChar -----------------------------
(***************************************************************************)
(* The aesdchar driver (aesd-char-driver/main.c): processes that call      *)
(* read, write, llseek and ioctl on open files of one device.  A step is   *)
(* what another process can observe half-way: every test of the mutex,     *)
(* every access made without it, and, because llseek, the ioctls and the   *)
(* end of aesd_read do not take it, every assignment to the ring.          *)
(*                                                                         *)
(* Bytes are named by their place in the stream of all bytes that ever     *)
(* reached the ring: the memory a write allocates is named by the value    *)
(* committed has when its bytes enter the device, so byte k of it is byte  *)
(* buffptr + k of the stream, as in Ring.                                  *)
(***************************************************************************)
EXTENDS CircularBuffer

CONSTANTS Procs,        \* processes, each with its own file of the device
          Free,         \* the mutex has no owner
          Ops,          \* Ops[p]: the calls process p makes
          Payloads,     \* what is written: [count, nl]; nl: ends in '\n'
          Counts,       \* the counts passed to read
          Offsets,      \* the offsets passed to llseek
          Seeks,        \* the arguments of AESDCHAR_IOCSEEKTO
          Garbage,      \* sizes found in memory beyond the entry array
          Junk,         \* what an uninitialised slot may hold
          MaxBytes,     \* bound on the bytes the device has received
          MaxFileSize   \* max_file_size of aesd_llseek

(* The argument of AESDCHAR_IOCSEEKTO: write_cmd and write_cmd_offset. *)
aesd_seekto == [cmd : Nat, off : Nat]

ASSUME DriverAssumption ==
  /\ Free \notin Procs
  /\ Ops \in [Procs -> SUBSET {"read", "write", "llseek", "seekto", "flush", "reopen", "rmmod"}]
  /\ Payloads \subseteq [count : Nat, nl : BOOLEAN]
  /\ Counts \subseteq Nat
  /\ Offsets \subseteq Int
  /\ Seeks \subseteq aesd_seekto
  /\ Garbage \subseteq Nat
  /\ Junk \subseteq Entries(Nat)
  /\ MaxBytes \in Nat /\ MaxFileSize \in Nat

VARIABLES
  \* struct aesd_dev
  mutex, buffer, partial, partial_entry, seek, seekto_position,
  \* the kernel: module loaded, open files and their positions, memory
  \* passed to kfree and by whom
  loaded, open, f_pos, freed,
  \* the calls in progress: where they are, and their arguments and locals
  pc, frame,
  \* history: bytes received, bytes committed to the ring, and the end of
  \* what a file's reads have delivered since it was opened or sought
  received, committed, delivered

device == <<buffer, partial, partial_entry, seek, seekto_position>>
kernel == <<loaded, open, f_pos, freed>>
history == <<received, committed, delivered>>
vars == <<mutex, device, kernel, pc, frame, history>>

WriteSection == {"w_merge", "w_test", "w_drop", "w_size", "w_store", "w_in", "w_out", "w_unlock"}
ReadSection  == {"r_eof", "r_seek", "r_clear", "r_copy", "r_unlock"}
Critical     == WriteSection \cup ReadSection
(* "dead": killed by an oops. *)
Labels == {"idle", "dead", "w_check", "w_lock", "w_recheck", "r_check", "r_lock", "r_recheck",
           "r_advance", "s_sum", "s_flag", "f_free", "f_reset"} \cup Critical

Freers == {"merge", "flush", "rmmod"}

NoCall == [op |-> "none"]

WriteFrames  == [op : {"write"}, count : Nat, nl : BOOLEAN, tmp_size : Nat, write_size : Nat,
                 was_full : BOOLEAN, entry : Entries(Nat)]
ReadFrames   == [op : {"read"}, count : Nat, pos : Nat, data : Seq(Nat \X Nat), from : Nat,
                 inside : BOOLEAN, exact : BOOLEAN]
SeektoFrames == [op : {"seekto"}, cmd : Nat, off : Nat, index : Nat, new_pos : Nat]
FlushFrames  == [op : {"flush"}, index : Nat]
Frames == {NoCall} \cup WriteFrames \cup ReadFrames \cup SeektoFrames \cup FlushFrames

TypeOK ==
  /\ mutex \in Procs \cup {Free}
  /\ buffer \in Buffers(Nat)
  /\ partial \in BOOLEAN /\ partial_entry \in Entries(Nat)
  /\ seek \in BOOLEAN /\ seekto_position \in Nat
  /\ loaded \in BOOLEAN /\ open \in [Procs -> BOOLEAN]
  /\ f_pos \in [Procs -> Nat] /\ freed \subseteq Nat \X Freers
  /\ pc \in [Procs -> Labels] /\ frame \in [Procs -> Frames]
  /\ received \in Nat /\ committed \in Nat /\ delivered \in [Procs -> Nat]

(* aesd_init_module: every slot is a copy of an uninitialised entry. *)
FreshBuffers == {aesd_circular_buffer_init(junk) : junk \in [Slots -> Junk]}
NoEntry == [buffptr |-> 0, size |-> 0]

Init ==
  /\ buffer \in FreshBuffers
  /\ mutex = Free
  /\ partial = FALSE /\ partial_entry = NoEntry
  /\ seek = FALSE /\ seekto_position = 0
  /\ loaded = TRUE
  /\ open = [p \in Procs |-> FALSE]
  /\ f_pos = [p \in Procs |-> 0]
  /\ freed = {}
  /\ pc = [p \in Procs |-> "idle"]
  /\ frame = [p \in Procs |-> NoCall]
  /\ received = 0 /\ committed = 0
  /\ delivered = [p \in Procs |-> 0]

-----------------------------------------------------------------------------
(* Control *)

Goto(p, label) == pc' = [pc EXCEPT ![p] = label]

Step(p, from, to) == pc[p] = from /\ Goto(p, to)

Call(p, op, label, f) ==
  /\ pc[p] = "idle" /\ open[p] /\ op \in Ops[p]
  /\ Goto(p, label)
  /\ frame' = [frame EXCEPT ![p] = f]

Return(p) ==
  /\ Goto(p, "idle")
  /\ frame' = [frame EXCEPT ![p] = NoCall]

(* if (mutex_is_locked(mutex)) return -ENOMEM, before mutex_lock and again *)
(* after mutex_unlock.                                                     *)
CheckUnlocked(p, from, to) ==
  /\ pc[p] = from
  /\ \/ mutex # Free /\ Return(p)
     \/ mutex = Free /\ Goto(p, to) /\ UNCHANGED frame
  /\ UNCHANGED <<mutex, device, kernel, history>>

(* mutex_lock.  The test that follows it finds the mutex locked. *)
Lockable_Always == TRUE
Lockable == mutex = Free
Lock(p, from, to) ==
  /\ Lockable
  /\ mutex' = p
  /\ Step(p, from, to)
  /\ UNCHANGED <<device, kernel, frame, history>>

(* mutex_unlock. *)
Unlocked_Never == mutex
Unlocked == Free
Unlock(p, from, to) ==
  /\ mutex' = Unlocked
  /\ Step(p, from, to)
  /\ UNCHANGED <<device, kernel, frame, history>>

-----------------------------------------------------------------------------
(* aesd_write *)

(* Bytes of writes that have not entered the device yet (for MaxBytes). *)
InFlight(p) == IF pc[p] \in {"w_check", "w_lock", "w_merge"} THEN frame[p].count ELSE 0

(* tmp is sized from partial_entry before the mutex is tested. *)
TmpSize_NoPartial(count) == count
TmpSize(count) == count + partial_entry.size

WriteCall(p, d) ==
  /\ received + SumFunction([q \in Procs |-> InFlight(q)]) + d.count <= MaxBytes
  /\ Call(p, "write", "w_check",
          [op |-> "write", count |-> d.count, nl |-> d.nl,
           tmp_size |-> TmpSize(d.count), write_size |-> d.count,
           was_full |-> FALSE, entry |-> NoEntry])
  /\ UNCHANGED <<mutex, device, kernel, history>>

WriteCheck(p) == CheckUnlocked(p, "w_check", "w_lock")

WriteLock(p) == Lock(p, "w_lock", "w_merge")

MergeFrees == IF partial THEN freed \cup {<<committed, "merge">>} ELSE freed \ {<<committed, "merge">>}

(* With a partial entry pending its bytes are put in front of the new      *)
(* ones: data is freed and the bytes are copied to the freed memory, for   *)
(* "*data = kmalloc(...)" does not change data.  The code reads partial    *)
(* and partial_entry->size several times here; only a flush could change   *)
(* them in between.  A block that was freed is not given out again.        *)
WriteMerge(p) ==
  /\ Step(p, "w_merge", "w_test")
  /\ frame[p].count > 0
  /\ freed' = MergeFrees
  /\ frame' = [frame EXCEPT ![p].write_size = @ + (IF partial THEN partial_entry.size ELSE 0)]
  /\ received' = received + frame[p].count
  /\ UNCHANGED <<mutex, device, loaded, open, f_pos, committed, delivered>>

(* A write of no bytes: kmalloc(0) returns an address nothing is mapped at, *)
(* and reading data[-1], or storing to *data, is an oops.  The process is  *)
(* killed and its file closed; nobody unlocks the mutex.                   *)
WriteOops(p) ==
  /\ Step(p, "w_merge", "dead")
  /\ frame[p].count = 0
  /\ frame' = [frame EXCEPT ![p] = NoCall]
  /\ open' = [open EXCEPT ![p] = FALSE]
  /\ UNCHANGED <<mutex, device, loaded, f_pos, freed, history>>

(* What data[write_size-1] != '\n' sees: anything, in freed memory. *)
EndsInNewline(p) == IF <<committed, "merge">> \in freed THEN BOOLEAN ELSE {frame[p].nl}

KeptEntry_NewBytesOnly(p) == [buffptr |-> committed, size |-> frame[p].count]
KeptEntry(p) == [buffptr |-> committed, size |-> frame[p].write_size]

(* Three assignments under the mutex; a flush between them is left out.    *)
WriteKeepPartial(p) ==
  /\ Step(p, "w_test", "w_unlock")
  /\ FALSE \in EndsInNewline(p)
  /\ partial' = TRUE
  /\ partial_entry' = KeptEntry(p)
  /\ UNCHANGED <<mutex, buffer, seek, seekto_position, kernel, frame, history>>

(* partial_entry->size keeps its value. *)
WriteCommit(p) ==
  /\ Step(p, "w_test", IF buffer.full THEN "w_drop" ELSE "w_size")
  /\ TRUE \in EndsInNewline(p)
  /\ partial' = FALSE
  /\ frame' = [frame EXCEPT ![p].was_full = buffer.full,
                            ![p].entry = [buffptr |-> committed, size |-> frame[p].write_size]]
  /\ committed' = committed + frame[p].write_size
  /\ UNCHANGED <<mutex, buffer, partial_entry, seek, seekto_position, kernel, received, delivered>>

(* The assignments of aesd_circular_buffer_add_entry. *)
AddStep(p, from, to, b) ==
  /\ Step(p, from, to)
  /\ buffer' = b
  /\ UNCHANGED <<mutex, partial, partial_entry, seek, seekto_position, kernel, frame, history>>

WriteDrop(p)  == AddStep(p, "w_drop", "w_size", DropOldSize(buffer))
WriteSize(p)  == AddStep(p, "w_size", "w_store", AddNewSize(buffer, frame[p].entry))
WriteStore(p) == AddStep(p, "w_store", "w_in", StoreEntry(buffer, frame[p].entry))
WriteIn(p)    == AddStep(p, "w_in", IF frame[p].was_full THEN "w_out" ELSE "w_unlock",
                         AdvanceIn(buffer, frame[p].was_full))
WriteOut(p)   == AddStep(p, "w_out", "w_unlock", AdvanceOut(buffer))

WriteUnlock(p) == Unlock(p, "w_unlock", "w_recheck")

(* -ENOMEM when the mutex is locked again by then, count otherwise. *)
WriteRecheck(p) ==
  /\ pc[p] = "w_recheck"
  /\ Return(p)
  /\ UNCHANGED <<mutex, device, kernel, history>>

-----------------------------------------------------------------------------
(* The ring as it will be once an add_entry or a flush in progress is      *)
(* through: what the serial ring of module Ring looks like from here.      *)

FinishAdd(p, b) ==
  LET f == frame[p]
      out(c)   == IF f.was_full THEN AdvanceOut(c) ELSE c
      in(c)    == out(AdvanceIn(c, f.was_full))
      store(c) == in(StoreEntry(c, f.entry))
      size(c)  == store(AddNewSize(c, f.entry))
  IN  CASE pc[p] = "w_drop"  -> size(DropOldSize(b))
        [] pc[p] = "w_size"  -> size(b)
        [] pc[p] = "w_store" -> store(b)
        [] pc[p] = "w_in"    -> in(b)
        [] pc[p] = "w_out"   -> out(b)

Adders == {p \in Procs : pc[p] \in {"w_drop", "w_size", "w_store", "w_in", "w_out"}}

Settled ==
  CASE Adders # {} -> FinishAdd(CHOOSE p \in Adders : TRUE, buffer)
    [] Adders = {} /\ (\E p \in Procs : pc[p] = "f_reset" /\ frame[p].index > 5) -> ResetOffsets(buffer)
    [] OTHER -> buffer

Serial == INSTANCE Ring WITH buffer <- Settled, appended <- committed, Sizes <- Nat \ {0}

-----------------------------------------------------------------------------
(* aesd_read.  The VFS hands it a copy of the file position and stores the *)
(* copy back unless the call fails.                                        *)

ReadCall(p, c) ==
  /\ Call(p, "read", "r_check",
          [op |-> "read", count |-> c, pos |-> f_pos[p], data |-> << >>, from |-> 0,
           inside |-> FALSE, exact |-> FALSE])
  /\ UNCHANGED <<mutex, device, kernel, history>>

ReadCheck(p) == CheckUnlocked(p, "r_check", "r_lock")

ReadLock(p) == Lock(p, "r_lock", "r_eof")

EofReturn_Locked(p) == Return(p) /\ UNCHANGED mutex
EofReturn(p) == Return(p) /\ mutex' = Free

(* The position is compared with the end before a pending seek is applied. *)
ReadEof(p) ==
  /\ pc[p] = "r_eof"
  /\ \/ /\ frame[p].pos >= buffer.total_size
        /\ EofReturn(p)
     \/ /\ frame[p].pos < buffer.total_size
        /\ Goto(p, "r_seek")
        /\ UNCHANGED <<mutex, frame>>
  /\ UNCHANGED <<device, kernel, history>>

ReadSeek(p) ==
  /\ Step(p, "r_seek", IF seek THEN "r_clear" ELSE "r_copy")
  /\ frame' = [frame EXCEPT ![p].pos = IF seek THEN seekto_position ELSE @]
  /\ UNCHANGED <<mutex, device, kernel, history>>

ReadClear(p) ==
  /\ Step(p, "r_clear", "r_copy")
  /\ seek' = FALSE
  /\ UNCHANGED <<mutex, buffer, partial, partial_entry, seekto_position, kernel, frame, history>>

(* from, inside and exact record for the properties where in the stream    *)
(* the position is, whether it is inside the data, and whether the copy is *)
(* one that ends where it should (see Ring).  The lookup and the copy are  *)
(* one step: no writer gets between them, and a flush there is left out.   *)
ReadCopy(p) ==
  /\ Step(p, "r_copy", "r_unlock")
  /\ frame' = [frame EXCEPT
                 ![p].data = read_entries(buffer, frame[p].pos, frame[p].count),
                 ![p].from = Serial!Oldest + frame[p].pos,
                 ![p].inside = frame[p].pos < buffer.total_size,
                 ![p].exact = Serial!ExactCopy(frame[p].pos, frame[p].count)]
  /\ UNCHANGED <<mutex, device, kernel, history>>

ReadUnlock(p) == Unlock(p, "r_unlock", "r_recheck")

ReadRecheck(p) == CheckUnlocked(p, "r_recheck", "r_advance")

NewPos_Unmoved(pos, n) == pos
NewPos(pos, n) == pos + n

(* total_size is read without the mutex. *)
ReadAdvance(p) ==
  LET f == frame[p]
      n == IF f.pos < buffer.total_size THEN Len(f.data) ELSE 0
  IN  /\ pc[p] = "r_advance"
      /\ Return(p)
      /\ f_pos' = [f_pos EXCEPT ![p] = NewPos(f.pos, n)]
      /\ delivered' = [delivered EXCEPT ![p] = CASE n > 0 -> f.data[n][1] + f.data[n][2] + 1
                                                 [] n = 0 /\ f.pos # f_pos[p] -> 0
                                                 [] OTHER -> @]
      /\ UNCHANGED <<mutex, device, loaded, open, freed, received, committed>>

-----------------------------------------------------------------------------
(* aesd_llseek, aesd_ioctl: no lock *)

(* generic_file_llseek_size: SEEK_SET, SEEK_CUR and SEEK_END; a position   *)
(* below 0 or above max_file_size is refused.                              *)
generic_file_llseek_size(p, pos) ==
  /\ pos \in 0 .. MaxFileSize
  /\ f_pos' = [f_pos EXCEPT ![p] = pos]
  /\ delivered' = [delivered EXCEPT ![p] = IF pos = f_pos[p] THEN @ ELSE 0]

Llseek(p) ==
  /\ pc[p] = "idle" /\ open[p] /\ "llseek" \in Ops[p]
  /\ \E offset \in Offsets, base \in {0, f_pos[p], buffer.total_size} :
       generic_file_llseek_size(p, base + offset)
  /\ UNCHANGED <<mutex, device, loaded, open, freed, pc, frame, received, committed>>

SeektoCall(p, s) ==
  /\ Call(p, "seekto", "s_sum",
          [op |-> "seekto", cmd |-> s.cmd, off |-> s.off, index |-> 0, new_pos |-> 0])
  /\ UNCHANGED <<mutex, device, kernel, history>>

(* One iteration of the loop over the slots before write_cmd, which no     *)
(* check keeps inside the array; then the position is stored.              *)
SeektoSum(p) ==
  LET f == frame[p]
  IN  /\ pc[p] = "s_sum"
      /\ \/ /\ f.index < f.cmd
            /\ \E size \in IF f.index \in Slots THEN {buffer.entry[f.index].size} ELSE Garbage :
                 frame' = [frame EXCEPT ![p].new_pos = @ + size, ![p].index = @ + 1]
            /\ UNCHANGED <<pc, seekto_position>>
         \/ /\ f.index = f.cmd
            /\ seekto_position' = f.new_pos + f.off
            /\ Goto(p, "s_flag")
            /\ UNCHANGED frame
      /\ UNCHANGED <<mutex, buffer, partial, partial_entry, seek, kernel, history>>

SeektoFlag(p) ==
  /\ pc[p] = "s_flag"
  /\ seek' = TRUE
  /\ Return(p)
  /\ UNCHANGED <<mutex, buffer, partial, partial_entry, seekto_position, kernel, history>>

FlushCall(p) ==
  /\ Call(p, "flush", "f_free", [op |-> "flush", index |-> 0])
  /\ UNCHANGED <<mutex, device, kernel, history>>

(* One iteration of the loop over all slots, of which those below in_offs  *)
(* are freed.                                                              *)
FlushFree(p) ==
  LET i == frame[p].index
  IN  /\ pc[p] = "f_free"
      /\ freed' = IF i < buffer.in_offs THEN freed \cup {<<buffer.entry[i].buffptr, "flush">>} ELSE freed
      /\ frame' = [frame EXCEPT ![p].index = IF i + 1 = N THEN 1 ELSE i + 1]
      /\ Goto(p, IF i + 1 = N THEN "f_reset" ELSE "f_free")
      /\ UNCHANGED <<mutex, device, loaded, open, f_pos, history>>

(* The fields of the ring aesd_flush resets, with its last assignments. *)
FlushedFields_NotFull == <<"in_offs", "in_offs", "out_offs", "total_size">>
FlushedFields_NotSize == <<"full", "in_offs", "out_offs", "out_offs">>
FlushedFields         == <<"full", "in_offs", "out_offs", "total_size">>

FlushRing(b, i) ==
  IF i \in 5 .. 8
  THEN [b EXCEPT ![FlushedFields[i - 4]] = IF FlushedFields[i - 4] = "full" THEN FALSE ELSE 0]
  ELSE b

(* The assignments of aesd_flush, in order.  Bytes of a partial write that *)
(* is dropped count as not received.                                       *)
FlushReset(p) ==
  LET i == frame[p].index
  IN  /\ pc[p] = "f_reset"
      /\ partial_entry' = IF i = 1 THEN [partial_entry EXCEPT !.size = 0] ELSE partial_entry
      /\ partial' = (partial /\ i # 2)
      /\ received' = IF i = 2 THEN committed ELSE received
      /\ seekto_position' = IF i = 3 THEN 0 ELSE seekto_position
      /\ seek' = (seek /\ i # 4)
      /\ buffer' = FlushRing(buffer, i)
      /\ IF i = 8 THEN Return(p)
                  ELSE frame' = [frame EXCEPT ![p].index = i + 1] /\ UNCHANGED pc
      /\ UNCHANGED <<mutex, kernel, committed, delivered>>

-----------------------------------------------------------------------------
(* Files and the module *)

aesd_open(p) ==
  /\ loaded /\ ~open[p] /\ pc[p] = "idle"
  /\ open' = [open EXCEPT ![p] = TRUE]
  /\ f_pos' = [f_pos EXCEPT ![p] = 0]
  /\ delivered' = [delivered EXCEPT ![p] = 0]
  /\ UNCHANGED <<mutex, device, loaded, freed, pc, frame, received, committed>>

aesd_release(p) ==
  /\ pc[p] = "idle" /\ open[p] /\ "reopen" \in Ops[p]
  /\ open' = [open EXCEPT ![p] = FALSE]
  /\ UNCHANGED <<mutex, device, loaded, f_pos, freed, pc, frame, history>>

(* rmmod is refused while a file is open (.owner = THIS_MODULE). *)
Unused == \A q \in Procs : ~open[q]
aesd_cleanup_module(p) ==
  /\ "rmmod" \in Ops[p] /\ loaded
  /\ Unused
  /\ loaded' = FALSE
  /\ freed' = freed \cup {<<buffer.entry[i].buffptr, "rmmod">> : i \in 0 .. buffer.in_offs - 1}
  /\ UNCHANGED <<mutex, device, open, f_pos, pc, frame, history>>

(* insmod after rmmod does what Init says.  Bytes pending in partial_entry *)
(* are gone.  When alloc_chrdev_region or cdev_add fails the module is not *)
(* loaded, and nobody sees what it did to the device.                      *)
aesd_init_module(p) ==
  /\ "rmmod" \in Ops[p] /\ ~loaded
  /\ loaded' \in BOOLEAN
  /\ buffer' \in FreshBuffers
  /\ mutex' = Free
  /\ partial' = FALSE /\ partial_entry' = NoEntry
  /\ seek' = FALSE /\ seekto_position' = 0
  /\ received' = committed
  /\ UNCHANGED <<open, f_pos, freed, pc, frame, committed, delivered>>

-----------------------------------------------------------------------------
Write(p) ==
  \/ \E d \in Payloads : WriteCall(p, d)
  \/ WriteCheck(p) \/ WriteLock(p) \/ WriteMerge(p) \/ WriteOops(p)
  \/ WriteKeepPartial(p) \/ WriteCommit(p)
  \/ WriteDrop(p) \/ WriteSize(p) \/ WriteStore(p) \/ WriteIn(p) \/ WriteOut(p)
  \/ WriteUnlock(p) \/ WriteRecheck(p)

Read(p) ==
  \/ \E c \in Counts : ReadCall(p, c)
  \/ ReadCheck(p) \/ ReadLock(p) \/ ReadEof(p) \/ ReadSeek(p) \/ ReadClear(p)
  \/ ReadCopy(p) \/ ReadUnlock(p) \/ ReadRecheck(p) \/ ReadAdvance(p)

Ioctl(p) ==
  \/ \E s \in Seeks : SeektoCall(p, s)
  \/ SeektoSum(p) \/ SeektoFlag(p)
  \/ FlushCall(p) \/ FlushFree(p) \/ FlushReset(p)

Next ==
  \E p \in Procs :
    \/ Write(p) \/ Read(p) \/ Llseek(p) \/ Ioctl(p)
    \/ aesd_open(p) \/ aesd_release(p) \/ aesd_cleanup_module(p) \/ aesd_init_module(p)

Spec == Init /\ [][Next]_vars

(* A call in progress is scheduled until it returns, and a mutex that is   *)
(* free again and again is handed to each of its waiters.                  *)
Running(p) ==
  \/ WriteCheck(p) \/ WriteMerge(p) \/ WriteOops(p) \/ WriteKeepPartial(p) \/ WriteCommit(p)
  \/ WriteDrop(p) \/ WriteSize(p) \/ WriteStore(p) \/ WriteIn(p) \/ WriteOut(p)
  \/ WriteUnlock(p) \/ WriteRecheck(p)
  \/ ReadCheck(p) \/ ReadEof(p) \/ ReadSeek(p) \/ ReadClear(p) \/ ReadCopy(p)
  \/ ReadUnlock(p) \/ ReadRecheck(p) \/ ReadAdvance(p)
  \/ SeektoSum(p) \/ SeektoFlag(p) \/ FlushFree(p) \/ FlushReset(p)

FairSpec ==
  /\ Spec
  /\ \A p \in Procs : WF_vars(Running(p)) /\ SF_vars(WriteLock(p) \/ ReadLock(p))

-----------------------------------------------------------------------------
(* Properties *)

(* The process inside the code between mutex_lock and mutex_unlock, on     *)
(* whichever path it leaves that code, is the one that holds the mutex, or *)
(* it was killed there.                                                    *)
MutexDiscipline ==
  \A p \in Procs :
    /\ pc[p] \in Critical => mutex = p
    /\ mutex = p => pc[p] \in Critical \cup {"dead"}

(* What the kernel guarantees (.owner = THIS_MODULE, and calls only on     *)
(* open files): the module is never removed under a call.                  *)
InUse == \A p \in Procs : (pc[p] \notin {"idle", "dead"} => open[p]) /\ (open[p] => loaded)

(* MutexDiscipline and InUse, with the types they need, are inductive. *)
LockInv ==
  /\ mutex \in Procs \cup {Free}
  /\ pc \in [Procs -> Labels]
  /\ open \in [Procs -> BOOLEAN]
  /\ loaded \in BOOLEAN
  /\ MutexDiscipline
  /\ InUse

(* However reads and writes interleave, the ring behaves as if entries     *)
(* were added one at a time: every write that ends a command is one Add of *)
(* the serial ring and nothing else changes it.  With the theorems about   *)
(* Ring, the device therefore holds the most recent commands and           *)
(* total_size is their length.                                             *)
ImplementsSerialRing == Serial!StepSpec

Flushing == \E p \in Procs : pc[p] \in {"f_free", "f_reset"}

(* Outside a critical section every byte the device accepted is either in  *)
(* a committed command or in the one pending partial entry: commands cut   *)
(* into several writes, by several processes, lose and repeat nothing.     *)
ByteConservation ==
  mutex = Free /\ ~Flushing =>
    received = committed + (IF partial THEN partial_entry.size ELSE 0)

(* What aesd_read has copied is the part of the stream that starts at the  *)
(* file position, without a gap, never more than count and never nothing   *)
(* when the position is inside the data, whatever other processes do       *)
(* between the copy and the return.  Left out are the copies in which      *)
(* read_helper runs past the end of an entry (ReadWithinCount in MCRing).  *)
ReadReturnsStream ==
  \A p \in Procs :
    LET f == frame[p]
    IN  pc[p] \in {"r_unlock", "r_recheck", "r_advance"} /\ f.inside /\ f.exact /\ f.count > 0 =>
          /\ Len(f.data) \in 1 .. f.count
          /\ \A j \in 1 .. Len(f.data) : f.data[j][1] + f.data[j][2] = f.from + j - 1

(* Without a seek a file never gets the same byte twice, although its      *)
(* position counts from the oldest byte, which moves as writers overwrite, *)
(* and although a read may fail after it has copied data or used up a      *)
(* pending seek.                                                           *)
NoRedelivery ==
  \A p \in Procs :
    LET f == frame[p]
    IN  /\ pc[p] = "r_advance" /\ f.pos = f_pos[p]
        /\ f.pos < buffer.total_size /\ f.data # << >>
        => f.data[1][1] + f.data[1][2] >= delivered[p]

Released(block) == <<block, "flush">> \in freed \/ <<block, "rmmod">> \in freed

(* The ring holds no entry whose memory a flush or the removal of the      *)
(* module has given back, although a flush leaves all pointers in the      *)
(* slots and writes go on after it.  Memory aesd_write itself freed too    *)
(* early (AddedMemoryAllocated, below) is not meant.                       *)
EntriesLive ==
  loaded /\ ~Flushing => \A k \in 1 .. Serial!Count : ~Released(Serial!Stored[k].buffptr)

(* The bytes put together for p's write still fit into tmp, which p sized  *)
(* before it had the mutex.                                                *)
Room(p) ==
  pc[p] \in {"w_check", "w_lock", "w_merge"} /\ partial =>
    frame[p].tmp_size >= partial_entry.size + frame[p].count

(* tmp is large enough when aesd_write allocates it, and becomes too small *)
(* for what aesd_write will copy to it in one way only: another process    *)
(* keeps a partial entry in between.  No failed or finished call, flush or *)
(* reload of the module does it.                                           *)
RoomLostToOthers ==
  [][\A p \in Procs : Room(p) /\ ~Room(p)' =>
       \E q \in Procs \ {p} : pc[q] = "w_test" /\ pc'[q] = "w_unlock"]_vars

(* Every call returns, unless a process has been killed inside the         *)
(* critical section.                                                       *)
SomeoneDied == \E p \in Procs : pc[p] = "dead"
EveryCallReturns == \A p \in Procs : pc[p] # "idle" ~> (pc[p] = "idle" \/ SomeoneDied)

(* Once a process has been killed inside the critical section, no read or  *)
(* write gets into it any more, those already past their first test of the *)
(* mutex included: the command log stays as it is until the module is      *)
(* loaded again.                                                           *)
DeathFreezesLog ==
  [][\A p \in Procs : pc[p] = "dead" /\ mutex = p /\ loaded /\ loaded' =>
       mutex' = p /\ (buffer' = buffer \/ Flushing)]_vars

-----------------------------------------------------------------------------
(* What the repository says of the driver and the code does not do.        *)

(* "Any memory referenced in @param add_entry must be allocated by and/or  *)
(* must have a lifetime managed by the caller."                            *)
AddedMemoryAllocated ==
  \A p \in Procs :
    pc[p] \in {"w_drop", "w_size", "w_store"} => <<frame[p].entry.buffptr, "merge">> \notin freed

(* total_size is the "total bytes stored in buffer", whenever no call is   *)
(* in progress.                                                            *)
QuietTotalExact ==
  (\A p \in Procs : pc[p] = "idle") => Serial!TotalSizeExact
=============================================================================
