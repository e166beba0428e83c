------------------------ MODULE AesdCharRingProofs ------------------------
(***************************************************************************)
(* For any number of processes and any mix of calls in which nobody writes *)
(* while another process flushes (SerialFlush): the driver, whose          *)
(* add_entry is five assignments and whose flush takes no lock, implements *)
(* the ring that is changed by one whole operation at a time, and what     *)
(* follows from that.                                                      *)
(***************************************************************************)
EXTENDS AesdCharProofs, CircularBufferProofs

(* A process that flushes is the only one that writes, or nobody writes.   *)
(* Without this the driver does not do what is proved here: see            *)
(* QuietTotalExact.                                                        *)
SerialFlush == \A p, q \in Procs : "flush" \in Ops[p] /\ "write" \in Ops[q] => p = q

AddLabels == {"w_drop", "w_size", "w_store", "w_in", "w_out"}
WriteLabels == {"w_check", "w_lock"} \cup WriteSection

(* What holds of a process: the types of the locals of a write and of a    *)
(* flush, that a write commits at least one byte, that the branch chosen   *)
(* at the start of add_entry fits the ring, and what a flush has already   *)
(* reset.                                                                  *)
ProcInv(p) ==
  /\ pc[p] \in WriteLabels => "write" \in Ops[p] /\ frame[p] \in WriteFrames
  /\ pc[p] \in {"w_check", "w_lock", "w_merge"} => frame[p].write_size = frame[p].count
  /\ pc[p] = "w_test" => frame[p].write_size > 0
  /\ pc[p] \in AddLabels \ {"w_out"} => frame[p].was_full = buffer.full
  /\ pc[p] \in {"w_drop", "w_out"} => frame[p].was_full
  /\ pc[p] \in {"f_free", "f_reset"} => "flush" \in Ops[p] /\ frame[p] \in FlushFrames
  /\ pc[p] = "f_reset" =>
       /\ frame[p].index \in 1 .. 8
       /\ frame[p].index > 5 => ~buffer.full
       /\ frame[p].index > 6 => buffer.in_offs = 0
       /\ frame[p].index > 7 => buffer.out_offs = 0

DeviceInv ==
  buffer \in Buffers(Nat) /\ partial \in BOOLEAN /\ partial_entry \in Entries(Nat) /\ committed \in Nat

(* Inductive, together with the locking discipline. *)
DriverInv ==
  LockInv /\ DeviceInv /\ DOMAIN frame = Procs /\ \A p \in Procs : ProcInv(p)

-----------------------------------------------------------------------------
(* The ring as it will be: Settled, of given values of the variables.      *)

Out(f, b)   == IF f.was_full THEN AdvanceOut(b) ELSE b
In(f, b)    == Out(f, AdvanceIn(b, f.was_full))
Store(f, b) == In(f, StoreEntry(b, f.entry))
Size(f, b)  == Store(f, AddNewSize(b, f.entry))
Finish(label, f, b) ==
  CASE label = "w_drop"  -> Size(f, DropOldSize(b))
    [] label = "w_size"  -> Size(f, b)
    [] label = "w_store" -> Store(f, b)
    [] label = "w_in"    -> In(f, b)
    [] label = "w_out"   -> Out(f, b)

Resets(label, f) == label = "f_reset" /\ f.index > 5

SettledOf(b, c, f) ==
  LET adders == {p \in Procs : c[p] \in AddLabels}
      p == CHOOSE p \in adders : TRUE
  IN  CASE adders # {} -> Finish(c[p], f[p], b)
        [] adders = {} /\ (\E q \in Procs : Resets(c[q], f[q])) -> ResetOffsets(b)
        [] OTHER -> b

(* SettledOf is Settled, in this state and in the next. *)
LEMMA SettledForm ==
  Settled = SettledOf(buffer, pc, frame) /\ Settled' = SettledOf(buffer', pc', frame')
  BY DEF Settled, SettledOf, Adders, FinishAdd, Finish, Size, Store, In, Out, Resets, AddLabels

(* Its three cases, when no two processes are in add_entry. *)
LEMMA SettledAdding ==
  ASSUME NEW b, NEW c, NEW f, NEW p \in Procs, c[p] \in AddLabels,
         \A q \in Procs : c[q] \in AddLabels => q = p
  PROVE  SettledOf(b, c, f) = Finish(c[p], f[p], b)
  <1> DEFINE A == {q \in Procs : c[q] \in AddLabels}
             a == CHOOSE q \in A : TRUE
  <1>1. A = {p}
    OBVIOUS
  <1>2. A # {} /\ a = p
    BY <1>1
  <1> HIDE DEF A, a
  <1> QED BY <1>2 DEF SettledOf, A, a

(* Nobody adds, and a flush has begun to reset the ring. *)
LEMMA SettledResetting ==
  ASSUME NEW b, NEW c, NEW f, \A q \in Procs : c[q] \notin AddLabels,
         \E q \in Procs : Resets(c[q], f[q])
  PROVE  SettledOf(b, c, f) = ResetOffsets(b)
  <1>1. {q \in Procs : c[q] \in AddLabels} = {}
    OBVIOUS
  <1> QED BY <1>1 DEF SettledOf

(* The ring is as it is. *)
LEMMA SettledQuiet ==
  ASSUME NEW b, NEW c, NEW f, \A q \in Procs : c[q] \notin AddLabels /\ ~Resets(c[q], f[q])
  PROVE  SettledOf(b, c, f) = b
  <1>1. {q \in Procs : c[q] \in AddLabels} = {}
    OBVIOUS
  <1> QED BY <1>1 DEF SettledOf

(* It does not depend on what is not in an add_entry or a reset. *)
LEMMA SettledSame ==
  ASSUME NEW b, NEW c, NEW f, NEW d, NEW g,
         \A q \in Procs : \/ c[q] = d[q] /\ f[q] = g[q]
                          \/ /\ c[q] \notin AddLabels /\ ~Resets(c[q], f[q])
                             /\ d[q] \notin AddLabels /\ ~Resets(d[q], g[q])
  PROVE  SettledOf(b, c, f) = SettledOf(b, d, g)
  <1> DEFINE A == {q \in Procs : c[q] \in AddLabels}
             B == {q \in Procs : d[q] \in AddLabels}
  <1>1. A = B
    OBVIOUS
  <1>2. (\E q \in Procs : Resets(c[q], f[q])) <=> (\E q \in Procs : Resets(d[q], g[q]))
    OBVIOUS
  <1>3. A # {} => (CHOOSE q \in A : TRUE) \in A
    OBVIOUS
  <1>4. A # {} => LET q == CHOOSE q \in A : TRUE IN Finish(c[q], f[q], b) = Finish(d[q], g[q], b)
    BY <1>3
  <1> QED BY <1>1, <1>2, <1>4 DEF SettledOf

-----------------------------------------------------------------------------
(* The serial ring is made of the same operators. *)
LEMMA SameOperators ==
  /\ Serial!FreshBuffers = FreshBuffers
  /\ \A b : Serial!ResetOffsets(b) = ResetOffsets(b)
  /\ \A b, e : Serial!aesd_circular_buffer_add_entry(b, e) = aesd_circular_buffer_add_entry(b, e)
  <1>1. Serial!Slots = Slots
    BY DEF Serial!Slots, Slots
  <1>2. \A junk : Serial!aesd_circular_buffer_init(junk) = aesd_circular_buffer_init(junk)
    BY DEF Serial!aesd_circular_buffer_init, aesd_circular_buffer_init
  <1>3. Serial!FreshBuffers = FreshBuffers
    BY <1>1, <1>2 DEF Serial!FreshBuffers, FreshBuffers
  <1>4. \A b : Serial!ResetOffsets(b) = ResetOffsets(b)
    BY DEF Serial!ResetOffsets, ResetOffsets
  <1>5. \A i : Serial!Succ(i) = Succ(i)
    BY DEF Serial!Succ, Succ
  <1>6. \A b : Serial!DropOldSize(b) = DropOldSize(b) /\ Serial!AdvanceOut(b) = AdvanceOut(b)
    BY <1>5 DEF Serial!DropOldSize, DropOldSize, Serial!AdvanceOut, AdvanceOut
  <1>7. \A b, e : Serial!AddNewSize(b, e) = AddNewSize(b, e) /\ Serial!StoreEntry(b, e) = StoreEntry(b, e)
    BY DEF Serial!AddNewSize, AddNewSize, Serial!StoreEntry, StoreEntry
  <1>8. \A b, f : Serial!AdvanceIn(b, f) = AdvanceIn(b, f)
    BY <1>5 DEF Serial!AdvanceIn, AdvanceIn
  <1>9. \A b, e : Serial!aesd_circular_buffer_add_entry(b, e) = aesd_circular_buffer_add_entry(b, e)
    BY <1>6, <1>7, <1>8 DEF Serial!aesd_circular_buffer_add_entry, aesd_circular_buffer_add_entry
  <1> QED BY <1>3, <1>4, <1>9

(* What a step of the driver is to the serial ring. *)
SerialStep ==
  \/ UNCHANGED <<Settled, committed>>
  \/ \E n \in Nat \ {0} : Serial!Add(n)
  \/ Serial!Flush
  \/ Serial!Load

Others(p) == DOMAIN frame' = Procs /\ \A q \in Procs : q # p => pc'[q] = pc[q] /\ frame'[q] = frame[q]

(* Nobody is in add_entry while a process flushes, and only one at a time. *)
LEMMA Alone ==
  ASSUME DriverInv, SerialFlush, NEW p \in Procs, NEW q \in Procs, p # q
  PROVE  /\ pc[p] \in WriteSection => pc[q] \notin WriteSection
         /\ pc[p] \in WriteLabels => pc[q] \notin {"f_free", "f_reset"}
  <1>1. ProcInv(p) /\ ProcInv(q) /\ MutexDiscipline
    BY DEF DriverInv, LockInv
  <1> QED BY <1>1 DEF SerialFlush, ProcInv, MutexDiscipline, Critical

(* A step that leaves the ring alone, of a process outside add_entry and   *)
(* the end of aesd_flush.                                                  *)
LEMMA QuietStep ==
  ASSUME DriverInv, LockInv', DeviceInv', NEW p \in Procs, Others(p), ProcInv(p)',
         UNCHANGED <<buffer, committed>>,
         pc[p] \notin AddLabels, ~Resets(pc[p], frame[p]),
         pc'[p] \notin AddLabels, ~Resets(pc'[p], frame'[p])
  PROVE  DriverInv' /\ SerialStep
  <1>1. \A q \in Procs : ProcInv(q)'
    BY DEF DriverInv, Others, ProcInv
  <1>2. UNCHANGED Settled
    <2>1. SettledOf(buffer, pc, frame) = SettledOf(buffer, pc', frame')
      BY SettledSame DEF Others
    <2> QED BY <2>1, SettledForm
  <1> QED BY <1>1, <1>2 DEF DriverInv, SerialStep, Others

(* ... and that leaves it where no local matters. *)
LEMMA PlainStep ==
  ASSUME DriverInv, LockInv', NEW p \in Procs, Others(p),
         UNCHANGED <<buffer, partial, partial_entry, committed>>,
         pc[p] \notin AddLabels \cup {"f_reset"}, pc'[p] \notin WriteLabels \cup {"f_free", "f_reset"}
  PROVE  DriverInv' /\ SerialStep
  <1>1. ProcInv(p)'
    BY DEF ProcInv, WriteLabels, WriteSection, AddLabels
  <1>2. DeviceInv'
    BY DEF DriverInv, DeviceInv
  <1>3. pc'[p] \notin AddLabels
    BY DEF WriteLabels, WriteSection, AddLabels
  <1> QED BY <1>1, <1>2, <1>3, QuietStep DEF Resets

(* ... and a step that changes no call. *)
LEMMA SameStep ==
  ASSUME DriverInv, LockInv', UNCHANGED <<buffer, partial, partial_entry, committed, pc, frame>>
  PROVE  DriverInv' /\ SerialStep
  <1>1. UNCHANGED Settled
    BY SettledForm
  <1> QED BY <1>1 DEF DriverInv, DeviceInv, ProcInv, SerialStep

-----------------------------------------------------------------------------
(* The steps of reads, of the seek ioctl and of the files. *)
LEMMA ReadStep ==
  ASSUME DriverInv, LockInv', NEW p \in Procs, Read(p)
  PROVE  DriverInv' /\ SerialStep
  <1> USE DEF WriteLabels, WriteSection, AddLabels, device
  <1>1. DOMAIN frame = Procs /\ pc \in [Procs -> Labels]
    BY DEF DriverInv, LockInv
  <1>2. /\ UNCHANGED <<buffer, partial, partial_entry, committed>>
        /\ \/ frame' = frame
           \/ \E f : frame' = [frame EXCEPT ![p] = f]
        /\ \E l \in {"idle", "r_check", "r_lock", "r_recheck", "r_advance"} \cup ReadSection :
             pc' = [pc EXCEPT ![p] = l]
        /\ pc[p] \in {"idle", "r_check", "r_lock", "r_recheck", "r_advance"} \cup ReadSection
    <2> USE DEF ReadSection, history
    <2>1. CASE \E c \in Counts : ReadCall(p, c)
      BY <2>1 DEF ReadCall, Call, Goto
    <2>2. CASE ReadCheck(p) \/ ReadRecheck(p)
      BY <2>2 DEF ReadCheck, ReadRecheck, CheckUnlocked, Return, Goto
    <2>3. CASE ReadLock(p) \/ ReadUnlock(p)
      BY <2>3 DEF ReadLock, ReadUnlock, Lock, Unlock, Step, Goto
    <2>4. CASE ReadEof(p)
      BY <2>4 DEF ReadEof, EofReturn, Return, Goto
    <2>5. CASE ReadSeek(p)
      BY <2>5 DEF ReadSeek, Step, Goto
    <2>6. CASE ReadClear(p)
      BY <2>6 DEF ReadClear, Step, Goto
    <2>7. CASE ReadCopy(p)
      BY <2>7 DEF ReadCopy, Step, Goto
    <2>8. CASE ReadAdvance(p)
      BY <2>8 DEF ReadAdvance, Return, Goto
    <2> QED BY <2>1, <2>2, <2>3, <2>4, <2>5, <2>6, <2>7, <2>8 DEF Read
  <1>3. Others(p)
    BY <1>1, <1>2 DEF Others
  <1>4. pc'[p] \in {"idle", "r_check", "r_lock", "r_recheck", "r_advance"} \cup ReadSection
    BY <1>1, <1>2
  <1> QED BY <1>2, <1>3, <1>4, PlainStep DEF ReadSection

(* The seek ioctl reads the sizes of the entries and changes none. *)
LEMMA SeektoStep ==
  ASSUME DriverInv, LockInv', NEW p \in Procs,
         SeektoSum(p) \/ SeektoFlag(p) \/ \E s \in Seeks : SeektoCall(p, s)
  PROVE  DriverInv' /\ SerialStep
  <1> USE DEF WriteLabels, WriteSection, AddLabels, device, history
  <1>1. DOMAIN frame = Procs /\ pc \in [Procs -> Labels]
    BY DEF DriverInv, LockInv
  <1>2. /\ UNCHANGED <<buffer, partial, partial_entry, committed>>
        /\ \/ frame' = frame
           \/ \E f : frame' = [frame EXCEPT ![p] = f]
        /\ \/ pc' = pc
           \/ \E l \in {"idle", "s_sum", "s_flag"} : pc' = [pc EXCEPT ![p] = l]
        /\ pc[p] \in {"idle", "s_sum", "s_flag"}
    <2>1. CASE SeektoSum(p)
      BY <2>1 DEF SeektoSum, Goto
    <2>2. CASE SeektoFlag(p)
      BY <2>2 DEF SeektoFlag, Return, Goto
    <2>3. CASE \E s \in Seeks : SeektoCall(p, s)
      BY <2>3 DEF SeektoCall, Call, Goto
    <2> QED BY <2>1, <2>2, <2>3
  <1>3. Others(p)
    BY <1>1, <1>2 DEF Others
  <1>4. pc'[p] \in {"idle", "s_sum", "s_flag"}
    BY <1>1, <1>2
  <1> QED BY <1>2, <1>3, <1>4, PlainStep

(* llseek, open, release and rmmod change neither the ring nor a call. *)
LEMMA FileStep ==
  ASSUME DriverInv, LockInv', NEW p \in Procs,
         Llseek(p) \/ aesd_open(p) \/ aesd_release(p) \/ aesd_cleanup_module(p)
  PROVE  DriverInv' /\ SerialStep
  BY SameStep DEF Llseek, aesd_open, aesd_release, aesd_cleanup_module, device, history

(* A buffer as the module makes it. *)
LEMMA FreshBuffer ==
  ASSUME NEW b \in FreshBuffers
  PROVE  b \in Buffers(Nat) /\ b.in_offs = 0 /\ b.out_offs = 0 /\ ~b.full /\ b.total_size = 0
  <1>1. PICK junk \in [Slots -> Junk] : b = aesd_circular_buffer_init(junk)
    BY DEF FreshBuffers
  <1>2. junk \in [Slots -> Entries(Nat)]
    BY DriverAssumption
  <1>3. 0 \in Slots
    BY CapacityAssumption DEF Slots
  <1> QED BY <1>1, <1>2, <1>3 DEF aesd_circular_buffer_init, Buffers

(* insmod: no call is in progress. *)
LEMMA LoadStep ==
  ASSUME DriverInv, LockInv', NEW p \in Procs, aesd_init_module(p)
  PROVE  DriverInv' /\ SerialStep
  <1>1. /\ buffer' \in FreshBuffers /\ UNCHANGED <<pc, frame, committed>>
        /\ partial' = FALSE /\ partial_entry' = NoEntry
    BY DEF aesd_init_module
  <1>2. \A q \in Procs : pc[q] \in {"idle", "dead"}
    BY DEF aesd_init_module, DriverInv, LockInv, InUse
  <1>3. DeviceInv'
    <2>1. partial' \in BOOLEAN
      BY <1>1, Zenon
    <2>2. partial_entry' \in Entries(Nat) /\ buffer' \in Buffers(Nat) /\ committed' \in Nat
      BY <1>1, FreshBuffer DEF NoEntry, Entries, DriverInv, DeviceInv
    <2> QED BY <2>1, <2>2 DEF DeviceInv
  <1>4. \A q \in Procs : ProcInv(q)'
    BY <1>1, <1>2 DEF ProcInv, WriteLabels, WriteSection, AddLabels
  <1>5. Settled' = buffer'
    BY <1>1, <1>2, SettledQuiet, SettledForm DEF AddLabels, Resets
  <1>6. Serial!Load
    BY <1>1, <1>5, SameOperators DEF Serial!Load
  <1> QED BY <1>1, <1>3, <1>4, <1>6 DEF DriverInv, SerialStep

-----------------------------------------------------------------------------
(* The steps of a write that do not reach the ring. *)
LEMMA WriteCallStep ==
  ASSUME DriverInv, LockInv', NEW p \in Procs, NEW d \in Payloads, WriteCall(p, d)
  PROVE  DriverInv' /\ SerialStep
  <1> DEFINE f == [op |-> "write", count |-> d.count, nl |-> d.nl,
                   tmp_size |-> TmpSize(d.count), write_size |-> d.count,
                   was_full |-> FALSE, entry |-> NoEntry]
  <1>1. /\ pc[p] = "idle" /\ pc' = [pc EXCEPT ![p] = "w_check"] /\ "write" \in Ops[p]
        /\ frame' = [frame EXCEPT ![p] = f]
        /\ UNCHANGED <<buffer, partial, partial_entry, committed>>
    BY DEF WriteCall, Call, Goto, device, history
  <1>2. DOMAIN frame = Procs /\ pc \in [Procs -> Labels] /\ partial_entry.size \in Nat
    BY DEF DriverInv, LockInv, DeviceInv, Entries
  <1>3. f \in WriteFrames /\ f.write_size = f.count
    <2>1. d.count \in Nat /\ d.nl \in BOOLEAN /\ TmpSize(d.count) \in Nat
      BY <1>2, DriverAssumption DEF TmpSize
    <2>2. NoEntry \in Entries(Nat)
      BY DEF NoEntry, Entries
    <2> QED BY <2>1, <2>2 DEF WriteFrames
  <1>4. Others(p) /\ pc'[p] = "w_check" /\ frame'[p] = f
    BY <1>1, <1>2 DEF Others
  <1> HIDE DEF f
  <1>5. ProcInv(p)'
    BY <1>1, <1>3, <1>4 DEF ProcInv, WriteLabels, WriteSection, AddLabels
  <1>6. DeviceInv'
    BY <1>1 DEF DriverInv, DeviceInv
  <1> QED BY <1>1, <1>4, <1>5, <1>6, QuietStep DEF AddLabels, Resets

(* The tests of the mutex, the lock, the unlock, and the oops. *)
LEMMA WriteWaits ==
  ASSUME DriverInv, LockInv', NEW p \in Procs,
         WriteCheck(p) \/ WriteLock(p) \/ WriteOops(p) \/ WriteUnlock(p) \/ WriteRecheck(p)
  PROVE  DriverInv' /\ SerialStep
  <1> USE DEF device, history
  <1>1. DOMAIN frame = Procs /\ pc \in [Procs -> Labels] /\ ProcInv(p)
    BY DEF DriverInv, LockInv
  <1>2. CASE /\ \/ pc[p] = "w_check" /\ pc' = [pc EXCEPT ![p] = "w_lock"]
                \/ pc[p] = "w_lock" /\ pc' = [pc EXCEPT ![p] = "w_merge"]
             /\ UNCHANGED <<frame, buffer, partial, partial_entry, committed>>
    <2>1. Others(p) /\ pc'[p] \in {"w_lock", "w_merge"} /\ frame'[p] = frame[p]
      BY <1>1, <1>2 DEF Others
    <2>2. ProcInv(p)'
      BY <1>1, <1>2, <2>1 DEF ProcInv, WriteLabels, WriteSection, AddLabels
    <2>3. DeviceInv'
      BY <1>2 DEF DriverInv, DeviceInv
    <2> QED BY <1>2, <2>1, <2>2, <2>3, QuietStep DEF AddLabels, Resets
  <1>3. CASE /\ pc[p] \in {"w_check", "w_merge", "w_unlock", "w_recheck"}
             /\ \E l \in {"idle", "dead", "w_recheck"} : pc' = [pc EXCEPT ![p] = l]
             /\ frame' = frame \/ frame' = [frame EXCEPT ![p] = NoCall]
             /\ UNCHANGED <<buffer, partial, partial_entry, committed>>
    <2>1. Others(p)
      BY <1>1, <1>3 DEF Others
    <2>2. pc'[p] \in {"idle", "dead", "w_recheck"}
      BY <1>1, <1>3
    <2> QED BY <1>3, <2>1, <2>2, PlainStep DEF WriteLabels, WriteSection, AddLabels
  <1>4. CASE WriteCheck(p)
    BY <1>2, <1>3, <1>4 DEF WriteCheck, CheckUnlocked, Return, Goto
  <1>5. CASE WriteLock(p)
    BY <1>2, <1>5 DEF WriteLock, Lock, Step, Goto
  <1>6. CASE WriteOops(p)
    BY <1>3, <1>6 DEF WriteOops, Step, Goto
  <1>7. CASE WriteUnlock(p)
    BY <1>3, <1>7 DEF WriteUnlock, Unlock, Step, Goto
  <1>8. CASE WriteRecheck(p)
    BY <1>3, <1>8 DEF WriteRecheck, Return, Goto
  <1> QED BY <1>4, <1>5, <1>6, <1>7, <1>8

(* The merge leaves more than nothing to be stored. *)
LEMMA WriteMergeStep ==
  ASSUME DriverInv, LockInv', NEW p \in Procs, WriteMerge(p)
  PROVE  DriverInv' /\ SerialStep
  <1> DEFINE n == frame[p].write_size + (IF partial THEN partial_entry.size ELSE 0)
             f == [frame[p] EXCEPT !.write_size = n]
  <1>1. /\ pc[p] = "w_merge" /\ pc' = [pc EXCEPT ![p] = "w_test"] /\ frame[p].count > 0
        /\ UNCHANGED <<buffer, partial, partial_entry, committed>>
    BY DEF WriteMerge, Step, Goto, device, history
  <1>2. /\ DOMAIN frame = Procs /\ pc \in [Procs -> Labels] /\ partial_entry.size \in Nat
        /\ ProcInv(p)
    BY DEF DriverInv, LockInv, DeviceInv, Entries
  <1>3. frame[p] \in WriteFrames /\ "write" \in Ops[p] /\ frame[p].write_size = frame[p].count
    BY <1>1, <1>2 DEF ProcInv, WriteLabels, WriteSection
  <1>4. frame' = [frame EXCEPT ![p] = f]
    BY <1>2, <1>3 DEF WriteMerge, WriteFrames
  <1>5. n \in Nat /\ n > 0
    BY <1>1, <1>2, <1>3 DEF WriteFrames
  <1>6. f \in WriteFrames /\ f.write_size > 0
    <2> HIDE DEF n
    <2> QED BY <1>3, <1>5 DEF WriteFrames
  <1>7. Others(p) /\ pc'[p] = "w_test" /\ frame'[p] = f
    BY <1>1, <1>2, <1>4 DEF Others
  <1> HIDE DEF f
  <1>8. ProcInv(p)'
    BY <1>3, <1>6, <1>7 DEF ProcInv, WriteLabels, WriteSection, AddLabels
  <1>9. DeviceInv'
    BY <1>1 DEF DriverInv, DeviceInv
  <1> QED BY <1>1, <1>7, <1>8, <1>9, QuietStep DEF AddLabels, Resets

(* A partial command is kept outside the ring. *)
LEMMA WriteKeepStep ==
  ASSUME DriverInv, LockInv', NEW p \in Procs, WriteKeepPartial(p)
  PROVE  DriverInv' /\ SerialStep
  <1>1. /\ pc[p] = "w_test" /\ pc' = [pc EXCEPT ![p] = "w_unlock"]
        /\ partial_entry' = [buffptr |-> committed, size |-> frame[p].write_size]
        /\ partial' = TRUE
        /\ UNCHANGED <<frame, buffer, committed>>
    BY DEF WriteKeepPartial, KeptEntry, Step, Goto, history
  <1>2. /\ DOMAIN frame = Procs /\ pc \in [Procs -> Labels] /\ committed \in Nat
        /\ ProcInv(p) /\ buffer \in Buffers(Nat)
    BY DEF DriverInv, LockInv, DeviceInv
  <1>3. frame[p] \in WriteFrames /\ "write" \in Ops[p]
    BY <1>1, <1>2 DEF ProcInv, WriteLabels, WriteSection
  <1>4. DeviceInv'
    <2>1. partial' \in BOOLEAN
      BY <1>1, Zenon
    <2>2. partial_entry' \in Entries(Nat)
      BY <1>1, <1>2, <1>3 DEF Entries, WriteFrames
    <2> QED BY <1>1, <1>2, <2>1, <2>2 DEF DeviceInv
  <1>5. Others(p) /\ pc'[p] = "w_unlock" /\ frame'[p] = frame[p]
    BY <1>1, <1>2 DEF Others
  <1>6. ProcInv(p)'
    BY <1>3, <1>5 DEF ProcInv, WriteLabels, WriteSection, AddLabels
  <1> QED BY <1>1, <1>4, <1>5, <1>6, QuietStep DEF AddLabels, Resets

-----------------------------------------------------------------------------
(* The end of a command, and the assignments of add_entry. *)

(* From the start add_entry does to the ring what the whole function does. *)
LEMMA FinishFromStart ==
  ASSUME NEW b \in Buffers(Nat), NEW f, f.was_full = b.full
  PROVE  Finish(IF b.full THEN "w_drop" ELSE "w_size", f, b) = aesd_circular_buffer_add_entry(b, f.entry)
  <1>0. b.full \in BOOLEAN
    BY DEF Buffers
  <1>1. CASE b.full
    <2>1. f.was_full = TRUE
      BY <1>0, <1>1
    <2>2. Finish("w_drop", f, b) = Size(f, DropOldSize(b))
      BY DEF Finish
    <2> QED BY <1>1, <2>1, <2>2 DEF Size, Store, In, Out, aesd_circular_buffer_add_entry
  <1>2. CASE ~b.full
    <2>1. f.was_full = FALSE
      BY <1>0, <1>2
    <2>2. Finish("w_size", f, b) = Size(f, b)
      BY DEF Finish
    <2> QED BY <1>2, <2>1, <2>2 DEF Size, Store, In, Out, aesd_circular_buffer_add_entry
  <1> QED BY <1>1, <1>2

(* A step of the one process that is between the end of a command and the  *)
(* end of add_entry keeps what holds of the others.                        *)
LEMMA OthersKeep ==
  ASSUME DriverInv, SerialFlush, NEW p \in Procs, pc[p] \in WriteSection, Others(p)
  PROVE  \A q \in Procs : q # p => ProcInv(q)' /\ pc'[q] \notin AddLabels /\ ~Resets(pc'[q], frame'[q])
  <1> SUFFICES ASSUME NEW q \in Procs, q # p
               PROVE  ProcInv(q)' /\ pc'[q] \notin AddLabels /\ ~Resets(pc'[q], frame'[q])
    OBVIOUS
  <1>1. pc[q] \notin WriteSection /\ pc[q] \notin {"f_free", "f_reset"}
    BY Alone DEF WriteLabels
  <1>2. pc'[q] = pc[q] /\ frame'[q] = frame[q] /\ ProcInv(q)
    BY DEF Others, DriverInv
  <1> QED BY <1>1, <1>2 DEF ProcInv, AddLabels, WriteSection, Resets

(* The end of a command is an Add of the serial ring. *)
LEMMA WriteCommitStep ==
  ASSUME DriverInv, SerialFlush, LockInv', NEW p \in Procs, WriteCommit(p)
  PROVE  DriverInv' /\ SerialStep
  <1> DEFINE e == [buffptr |-> committed, size |-> frame[p].write_size]
             f == [frame[p] EXCEPT !.was_full = buffer.full, !.entry = e]
             l == IF buffer.full THEN "w_drop" ELSE "w_size"
  <1>1. /\ pc[p] = "w_test" /\ pc' = [pc EXCEPT ![p] = l]
        /\ partial' = FALSE /\ committed' = committed + frame[p].write_size
        /\ UNCHANGED <<buffer, partial_entry>>
    BY DEF WriteCommit, Step, Goto
  <1>2. /\ DOMAIN frame = Procs /\ pc \in [Procs -> Labels] /\ committed \in Nat
        /\ ProcInv(p) /\ buffer \in Buffers(Nat) /\ partial_entry \in Entries(Nat)
    BY DEF DriverInv, LockInv, DeviceInv
  <1>3. frame[p] \in WriteFrames /\ "write" \in Ops[p] /\ frame[p].write_size \in Nat \ {0}
    <2>1. frame[p] \in WriteFrames /\ "write" \in Ops[p] /\ frame[p].write_size > 0
      BY <1>1, <1>2 DEF ProcInv, WriteLabels, WriteSection
    <2> QED BY <2>1 DEF WriteFrames
  <1>4. frame' = [frame EXCEPT ![p] = f]
    BY <1>2, <1>3 DEF WriteCommit, WriteFrames
  <1>5. f \in WriteFrames /\ f.was_full = buffer.full /\ f.entry = e
    <2>1. e \in Entries(Nat) /\ buffer.full \in BOOLEAN
      BY <1>2, <1>3 DEF Entries, Buffers
    <2> HIDE DEF e
    <2> QED BY <1>3, <2>1 DEF WriteFrames
  <1>6. l \in {"w_drop", "w_size"} /\ (l = "w_drop" => buffer.full)
    OBVIOUS
  <1>7. Others(p) /\ pc'[p] = l /\ frame'[p] = f
    BY <1>1, <1>2, <1>4, <1>6 DEF Others
  <1>8. \A q \in Procs : q # p => ProcInv(q)' /\ pc'[q] \notin AddLabels /\ ~Resets(pc'[q], frame'[q])
    BY <1>1, <1>7, OthersKeep DEF WriteSection
  <1>9. Settled = buffer
    <2>1. \A q \in Procs : pc[q] \notin AddLabels /\ ~Resets(pc[q], frame[q])
      <3>1. pc[p] \notin AddLabels /\ ~Resets(pc[p], frame[p])
        BY <1>1 DEF AddLabels, Resets
      <3>2. \A q \in Procs : q # p => pc'[q] = pc[q] /\ frame'[q] = frame[q]
        BY <1>7 DEF Others
      <3> QED BY <1>8, <3>1, <3>2
    <2> QED BY <2>1, SettledQuiet, SettledForm
  <1>10. Settled' = aesd_circular_buffer_add_entry(buffer, e)
    <2>1. Settled' = Finish(l, f, buffer)
      <3>1. pc'[p] \in AddLabels /\ \A q \in Procs : pc'[q] \in AddLabels => q = p
        BY <1>6, <1>7, <1>8 DEF AddLabels
      <3>2. SettledOf(buffer', pc', frame') = Finish(pc'[p], frame'[p], buffer')
        <4> HIDE DEF f, l
        <4> QED BY <3>1, SettledAdding
      <3> HIDE DEF f, l
      <3> QED BY <1>1, <1>7, <3>2, SettledForm
    <2>2. Finish(l, f, buffer) = aesd_circular_buffer_add_entry(buffer, f.entry)
      <3> HIDE DEF f
      <3> QED BY <1>2, <1>5, FinishFromStart
    <2> HIDE DEF f, l, e
    <2> QED BY <1>5, <2>1, <2>2
  <1>11. Serial!Add(frame[p].write_size)
    BY <1>1, <1>9, <1>10, SameOperators DEF Serial!Add
  <1>12. ProcInv(p)'
    <2> HIDE DEF f, l
    <2> QED BY <1>1, <1>3, <1>5, <1>6, <1>7 DEF ProcInv, WriteLabels, WriteSection, AddLabels
  <1>13. DeviceInv'
    <2>1. partial' \in BOOLEAN
      BY <1>1, Zenon
    <2>2. committed' \in Nat
      BY <1>1, <1>2, <1>3
    <2> QED BY <1>1, <1>2, <2>1, <2>2 DEF DeviceInv
  <1>14. SerialStep
    BY <1>3, <1>11 DEF SerialStep
  <1> QED BY <1>7, <1>8, <1>12, <1>13, <1>14 DEF DriverInv, Others

(* One assignment of add_entry is no step of the serial ring. *)
LEMMA AddingStep ==
  ASSUME DriverInv, SerialFlush, LockInv', NEW p \in Procs, NEW from \in AddLabels, NEW to,
         NEW b \in Buffers(Nat), AddStep(p, from, to, b),
         to \in AddLabels \cup {"w_unlock"},
         (IF to \in AddLabels THEN Finish(to, frame[p], b) ELSE b) = Finish(from, frame[p], buffer),
         to \in AddLabels \ {"w_out"} => b.full = buffer.full /\ from # "w_out" /\ to # "w_drop",
         to \in {"w_drop", "w_out"} => frame[p].was_full
  PROVE  DriverInv' /\ SerialStep
  <1>1. /\ pc[p] = from /\ pc' = [pc EXCEPT ![p] = to] /\ buffer' = b
        /\ UNCHANGED <<partial, partial_entry, committed, frame>>
    BY DEF AddStep, Step, Goto, history
  <1>2. /\ DOMAIN frame = Procs /\ pc \in [Procs -> Labels] /\ ProcInv(p)
    BY DEF DriverInv, LockInv
  <1>3. Others(p) /\ pc'[p] = to /\ frame'[p] = frame[p]
    BY <1>1, <1>2 DEF Others
  <1>4. \A q \in Procs : q # p => ProcInv(q)' /\ pc'[q] \notin AddLabels /\ ~Resets(pc'[q], frame'[q])
    BY <1>1, <1>3, OthersKeep DEF WriteSection, AddLabels
  <1>5. Settled = Finish(from, frame[p], buffer)
    <2>1. \A q \in Procs : pc[q] \in AddLabels => q = p
      BY <1>3, <1>4 DEF Others
    <2>2. SettledOf(buffer, pc, frame) = Finish(pc[p], frame[p], buffer)
      BY <1>1, <2>1, SettledAdding
    <2> QED BY <1>1, <2>2, SettledForm
  <1>6. Settled' = IF to \in AddLabels THEN Finish(to, frame[p], b) ELSE b
    <2>1. CASE to \in AddLabels
      <3>1. SettledOf(buffer', pc', frame') = Finish(pc'[p], frame'[p], buffer')
        BY <1>3, <1>4, <2>1, SettledAdding
      <3> QED BY <1>1, <1>3, <2>1, <3>1, SettledForm
    <2>2. CASE to = "w_unlock"
      <3>1. \A q \in Procs : pc'[q] \notin AddLabels /\ ~Resets(pc'[q], frame'[q])
        BY <1>3, <1>4, <2>2 DEF AddLabels, Resets
      <3>2. SettledOf(buffer', pc', frame') = buffer'
        BY <3>1, SettledQuiet
      <3> QED BY <1>1, <2>2, <3>2, SettledForm DEF AddLabels
    <2> QED BY <2>1, <2>2
  <1>7. ProcInv(p)'
    <2>1. frame[p] \in WriteFrames /\ "write" \in Ops[p]
      BY <1>1, <1>2 DEF ProcInv, WriteLabels, WriteSection, AddLabels
    <2>2. to \in AddLabels \ {"w_out"} => frame[p].was_full = b.full
      BY <1>1, <1>2 DEF ProcInv, AddLabels
    <2> QED BY <1>1, <1>3, <2>1, <2>2 DEF ProcInv, WriteLabels, WriteSection, AddLabels
  <1>8. DeviceInv'
    BY <1>1 DEF DriverInv, DeviceInv
  <1> QED BY <1>1, <1>3, <1>4, <1>5, <1>6, <1>7, <1>8 DEF DriverInv, SerialStep, Others

(* Storing an entry leaves the full flag alone. *)
LEMMA StoreEntryKeeps ==
  ASSUME NEW b \in Buffers(Nat), NEW e \in Entries(Nat)
  PROVE  StoreEntry(b, e) \in Buffers(Nat) /\ StoreEntry(b, e).full = b.full
  BY DEF StoreEntry, Buffers

(* The five assignments of add_entry. *)
LEMMA AddSteps ==
  ASSUME DriverInv, SerialFlush, LockInv', NEW p \in Procs,
         WriteDrop(p) \/ WriteSize(p) \/ WriteStore(p) \/ WriteIn(p) \/ WriteOut(p)
  PROVE  DriverInv' /\ SerialStep
  <1> DEFINE f == frame[p]
  <1>1. pc[p] \in AddLabels
    BY DEF WriteDrop, WriteSize, WriteStore, WriteIn, WriteOut, AddStep, Step, AddLabels
  <1>2. buffer \in Buffers(Nat) /\ f \in WriteFrames /\ ProcInv(p)
    BY <1>1 DEF DriverInv, DeviceInv, ProcInv, AddLabels, WriteLabels, WriteSection
  <1>3. f.entry \in Entries(Nat) /\ f.was_full \in BOOLEAN
    BY <1>2 DEF WriteFrames
  <1>4. CASE WriteDrop(p)
    <2>1. DropOldSize(buffer) \in Buffers(Nat) /\ DropOldSize(buffer).full = buffer.full
      BY <1>2, DropOldSizeFields
    <2>2. Finish("w_size", f, DropOldSize(buffer)) = Finish("w_drop", f, buffer)
      BY DEF Finish
    <2> QED BY <1>4, <2>1, <2>2, AddingStep DEF WriteDrop, AddLabels
  <1>5. CASE WriteSize(p)
    <2> DEFINE b == AddNewSize(buffer, f.entry)
    <2>1. b \in Buffers(Nat) /\ b.full = buffer.full
      BY <1>2, <1>3, AddNewSizeFields
    <2>2. Finish("w_store", f, b) = Finish("w_size", f, buffer)
      BY DEF Finish, Size
    <2> HIDE DEF b
    <2>3. AddStep(p, "w_size", "w_store", b)
      BY <1>5 DEF WriteSize, b
    <2> QED BY <2>1, <2>2, <2>3, AddingStep DEF AddLabels
  <1>6. CASE WriteStore(p)
    <2> DEFINE b == StoreEntry(buffer, f.entry)
    <2>1. b \in Buffers(Nat) /\ b.full = buffer.full
      <3> HIDE DEF f
      <3>1. StoreEntry(buffer, f.entry) \in Buffers(Nat) /\ StoreEntry(buffer, f.entry).full = buffer.full
        BY <1>2, <1>3, StoreEntryKeeps
      <3> QED BY <3>1
    <2>2. Finish("w_in", f, b) = Finish("w_store", f, buffer)
      BY DEF Finish, Store
    <2> HIDE DEF b
    <2>3. AddStep(p, "w_store", "w_in", b)
      BY <1>6 DEF WriteStore, b
    <2> QED BY <2>1, <2>2, <2>3, AddingStep DEF AddLabels
  <1>7. CASE WriteIn(p)
    <2> DEFINE b == AdvanceIn(buffer, f.was_full)
               to == IF f.was_full THEN "w_out" ELSE "w_unlock"
    <2>1. f.was_full = buffer.full
      BY <1>2, <1>7 DEF WriteIn, AddStep, Step, ProcInv, AddLabels
    <2>2. b \in Buffers(Nat)
      <3>1. CASE f.was_full = TRUE
        BY <1>2, <3>1, AdvanceInFullFields
      <3>2. CASE f.was_full = FALSE
        BY <1>2, <2>1, <3>2, AdvanceInNotFullFields
      <3> QED BY <1>3, <3>1, <3>2
    <2>3. Finish("w_in", f, buffer) = IF f.was_full THEN Finish("w_out", f, b) ELSE b
      BY DEF Finish, In, Out
    <2> HIDE DEF b
    <2>4. AddStep(p, "w_in", to, b)
      BY <1>7 DEF WriteIn, b
    <2>5. /\ to \in {"w_out", "w_unlock"} /\ (to = "w_out" => f.was_full)
          /\ (IF to \in AddLabels THEN Finish(to, f, b) ELSE b) = Finish("w_in", f, buffer)
      BY <2>3 DEF AddLabels
    <2> HIDE DEF to
    <2> QED BY <2>2, <2>4, <2>5, AddingStep DEF AddLabels
  <1>8. CASE WriteOut(p)
    <2>1. f.was_full
      BY <1>2, <1>8 DEF WriteOut, AddStep, Step, ProcInv
    <2>2. AdvanceOut(buffer) \in Buffers(Nat)
      BY <1>2, AdvanceOutFields
    <2>3. AdvanceOut(buffer) = Finish("w_out", f, buffer)
      BY <2>1 DEF Finish, Out
    <2> QED BY <1>8, <2>2, <2>3, AddingStep DEF WriteOut, AddLabels
  <1> QED BY <1>4, <1>5, <1>6, <1>7, <1>8

-----------------------------------------------------------------------------
(* The steps of aesd_flush, with which no write is in progress. *)
LEMMA FlushCallStep ==
  ASSUME DriverInv, LockInv', NEW p \in Procs, FlushCall(p)
  PROVE  DriverInv' /\ SerialStep
  <1> DEFINE f == [op |-> "flush", index |-> 0]
  <1>1. /\ pc[p] = "idle" /\ pc' = [pc EXCEPT ![p] = "f_free"] /\ "flush" \in Ops[p]
        /\ frame' = [frame EXCEPT ![p] = f]
        /\ UNCHANGED <<buffer, partial, partial_entry, committed>>
    BY DEF FlushCall, Call, Goto, device, history
  <1>2. DOMAIN frame = Procs /\ pc \in [Procs -> Labels]
    BY DEF DriverInv, LockInv
  <1>3. f \in FlushFrames
    BY DEF FlushFrames
  <1> HIDE DEF f
  <1>4. Others(p) /\ pc'[p] = "f_free" /\ frame'[p] = f
    BY <1>1, <1>2 DEF Others
  <1>5. ProcInv(p)'
    BY <1>1, <1>3, <1>4 DEF ProcInv, WriteLabels, WriteSection, AddLabels
  <1>6. DeviceInv'
    BY <1>1 DEF DriverInv, DeviceInv
  <1> QED BY <1>1, <1>4, <1>5, <1>6, QuietStep DEF AddLabels, Resets

(* The loop that frees the entries leaves the ring as it is. *)
LEMMA FlushFreeStep ==
  ASSUME DriverInv, LockInv', NEW p \in Procs, FlushFree(p)
  PROVE  DriverInv' /\ SerialStep
  <1> DEFINE i == frame[p].index
             j == IF i + 1 = N THEN 1 ELSE i + 1
             l == IF i + 1 = N THEN "f_reset" ELSE "f_free"
             f == [frame[p] EXCEPT !.index = j]
  <1>1. /\ pc[p] = "f_free" /\ pc' = [pc EXCEPT ![p] = l]
        /\ UNCHANGED <<buffer, partial, partial_entry, committed>>
    BY DEF FlushFree, Goto, device, history
  <1>2. DOMAIN frame = Procs /\ pc \in [Procs -> Labels] /\ ProcInv(p)
    BY DEF DriverInv, LockInv
  <1>3. frame[p] \in FlushFrames /\ "flush" \in Ops[p]
    BY <1>1, <1>2 DEF ProcInv
  <1>4. frame' = [frame EXCEPT ![p] = f]
    BY <1>2, <1>3 DEF FlushFree, FlushFrames
  <1>5. i \in Nat /\ j \in Nat /\ l \in {"f_reset", "f_free"} /\ (l = "f_reset" => j = 1)
    BY <1>3 DEF FlushFrames
  <1>6. f \in FlushFrames /\ f.index = j
    <2> HIDE DEF j
    <2> QED BY <1>3, <1>5 DEF FlushFrames
  <1>7. Others(p) /\ pc'[p] = l /\ frame'[p] = f
    BY <1>1, <1>2, <1>4 DEF Others
  <1> HIDE DEF f, l, j
  <1>8. ProcInv(p)'
    BY <1>3, <1>5, <1>6, <1>7 DEF ProcInv, WriteLabels, WriteSection, AddLabels
  <1>9. DeviceInv'
    BY <1>1 DEF DriverInv, DeviceInv
  <1> QED BY <1>1, <1>5, <1>6, <1>7, <1>8, <1>9, QuietStep DEF AddLabels, Resets

(* The first four assignments of aesd_flush are not to the ring. *)
LEMMA OutsideReset == ASSUME NEW b, NEW i \in 1 .. 4 PROVE FlushRing(b, i) = b
  <1>1. i \notin 5 .. 8
    OBVIOUS
  <1> QED BY <1>1 DEF FlushRing

(* What one assignment of aesd_flush does to the ring. *)
LEMMA FlushRingFields ==
  ASSUME NEW b \in Buffers(Nat), NEW i \in 1 .. 8
  PROVE  /\ FlushRing(b, i) \in Buffers(Nat)
         /\ FlushRing(b, i).entry = b.entry
         /\ FlushRing(b, i).full = (b.full /\ i # 5)
         /\ FlushRing(b, i).in_offs = IF i = 6 THEN 0 ELSE b.in_offs
         /\ FlushRing(b, i).out_offs = IF i = 7 THEN 0 ELSE b.out_offs
         /\ FlushRing(b, i).total_size = IF i = 8 THEN 0 ELSE b.total_size
  <1>1. 0 \in Slots
    BY CapacityAssumption DEF Slots
  <1>2. i \in 1 .. 4 \/ i = 5 \/ i = 6 \/ i = 7 \/ i = 8
    OBVIOUS
  <1>3. CASE i \in 1 .. 4
    <2>1. FlushRing(b, i) = b
      BY <1>3, OutsideReset
    <2>2. b.full \in BOOLEAN
      BY DEF Buffers
    <2> QED BY <1>3, <2>1, <2>2
  <1>4. CASE i = 5
    <2>1. FlushRing(b, i) = [b EXCEPT !.full = FALSE]
      <3>1. i \in 5 .. 8 /\ FlushedFields[i - 4] = "full"
        BY <1>4 DEF FlushedFields
      <3>2. (IF FlushedFields[i - 4] = "full" THEN FALSE ELSE 0) = FALSE
        BY <3>1, Zenon
      <3>3. FlushRing(b, i)
              = [b EXCEPT !["full"] = IF FlushedFields[i - 4] = "full" THEN FALSE ELSE 0]
        BY <3>1, Zenon DEF FlushRing
      <3> QED BY <3>2, <3>3, Zenon
    <2>2. [b EXCEPT !.full = FALSE].full = FALSE
      BY DEF Buffers
    <2>3. FlushRing(b, i).full = (b.full /\ i # 5)
      BY <1>4, <2>1, <2>2
    <2>4. FALSE \in BOOLEAN
      BY Zenon
    <2>5. [b EXCEPT !.full = FALSE] \in Buffers(Nat)
      BY <2>4 DEF Buffers
    <2>6. /\ FlushRing(b, i).entry = b.entry /\ FlushRing(b, i).in_offs = b.in_offs
          /\ FlushRing(b, i).out_offs = b.out_offs /\ FlushRing(b, i).total_size = b.total_size
      BY <2>1 DEF Buffers
    <2>7. /\ FlushRing(b, i).in_offs = IF i = 6 THEN 0 ELSE b.in_offs
          /\ FlushRing(b, i).out_offs = IF i = 7 THEN 0 ELSE b.out_offs
          /\ FlushRing(b, i).total_size = IF i = 8 THEN 0 ELSE b.total_size
      BY <1>4, <2>6
    <2>8. FlushRing(b, i) \in Buffers(Nat)
      BY <2>1, <2>5
    <2> QED BY <2>3, <2>6, <2>7, <2>8, Zenon
  <1>5. CASE i = 6
    <2>1. FlushRing(b, i) = [b EXCEPT !.in_offs = 0]
      BY <1>5 DEF FlushRing, FlushedFields
    <2> QED BY <1>1, <1>5, <2>1 DEF Buffers
  <1>6. CASE i = 7
    <2>1. FlushRing(b, i) = [b EXCEPT !.out_offs = 0]
      BY <1>6 DEF FlushRing, FlushedFields
    <2> QED BY <1>1, <1>6, <2>1 DEF Buffers
  <1>7. CASE i = 8
    <2>1. FlushRing(b, i) = [b EXCEPT !.total_size = 0]
      BY <1>7 DEF FlushRing, FlushedFields
    <2> QED BY <1>7, <2>1 DEF Buffers
  <1> QED BY <1>2, <1>3, <1>4, <1>5, <1>6, <1>7

(* Buffers with the same entries are the same once they are reset, and a   *)
(* reset buffer is its own reset.                                          *)
LEMMA ResetSame ==
  ASSUME NEW b \in Buffers(Nat), NEW c \in Buffers(Nat), b.entry = c.entry
  PROVE  /\ ResetOffsets(b) = ResetOffsets(c)
         /\ ~b.full /\ b.in_offs = 0 /\ b.out_offs = 0 /\ b.total_size = 0 => ResetOffsets(c) = b
  BY DEF ResetOffsets, Buffers

(* The first assignment to the ring is a Flush of the serial ring, and the *)
(* later ones are no step of it.                                           *)
LEMMA FlushResetStep ==
  ASSUME DriverInv, SerialFlush, LockInv', NEW p \in Procs, FlushReset(p)
  PROVE  DriverInv' /\ SerialStep
  <1> DEFINE i == frame[p].index
             f == [frame[p] EXCEPT !.index = i + 1]
  <1>1. /\ pc[p] = "f_reset" /\ buffer' = FlushRing(buffer, i) /\ UNCHANGED committed
        /\ partial' = (partial /\ i # 2)
        /\ partial_entry' = IF i = 1 THEN [partial_entry EXCEPT !.size = 0] ELSE partial_entry
    BY DEF FlushReset
  <1>2. /\ DOMAIN frame = Procs /\ pc \in [Procs -> Labels] /\ \A q \in Procs : ProcInv(q)
        /\ buffer \in Buffers(Nat) /\ partial_entry \in Entries(Nat) /\ committed \in Nat
    BY DEF DriverInv, LockInv, DeviceInv
  <1>3. frame[p] \in FlushFrames /\ "flush" \in Ops[p] /\ i \in 1 .. 8
    BY <1>1, <1>2 DEF ProcInv
  <1>4. \/ i = 8 /\ pc' = [pc EXCEPT ![p] = "idle"] /\ frame' = [frame EXCEPT ![p] = NoCall]
        \/ i # 8 /\ pc' = pc /\ frame' = [frame EXCEPT ![p] = f]
    BY <1>2, <1>3 DEF FlushReset, Return, Goto, FlushFrames
  <1>5. f \in FlushFrames /\ f.index = i + 1
    BY <1>3 DEF FlushFrames
  <1>6. /\ Others(p)
        /\ \/ i = 8 /\ pc'[p] = "idle"
           \/ i # 8 /\ pc'[p] = "f_reset" /\ frame'[p] = f
    BY <1>1, <1>2, <1>4 DEF Others
  <1> HIDE DEF f
  <1>7. /\ buffer' \in Buffers(Nat) /\ buffer'.entry = buffer.entry
        /\ buffer'.full = (buffer.full /\ i # 5)
        /\ buffer'.in_offs = IF i = 6 THEN 0 ELSE buffer.in_offs
        /\ buffer'.out_offs = IF i = 7 THEN 0 ELSE buffer.out_offs
        /\ buffer'.total_size = IF i = 8 THEN 0 ELSE buffer.total_size
    <2> HIDE DEF i
    <2> QED BY <1>1, <1>2, <1>3, FlushRingFields
  <1> HIDE DEF i
  <1>8. DeviceInv'
    <2>1. partial' \in BOOLEAN
      BY <1>1, Zenon
    <2>2. partial_entry' \in Entries(Nat)
      BY <1>1, <1>2 DEF Entries
    <2> QED BY <1>1, <1>2, <1>7, <2>1, <2>2 DEF DeviceInv
  <1>9. \A q \in Procs : q # p => pc[q] \notin WriteLabels
    BY <1>1, <1>2, <1>3 DEF SerialFlush, ProcInv
  <1>10. ASSUME NEW q \in Procs, q # p
         PROVE  ProcInv(q)' /\ pc'[q] \notin AddLabels
    <2>1. pc'[q] = pc[q] /\ frame'[q] = frame[q] /\ ProcInv(q) /\ pc[q] \notin WriteLabels
      BY <1>2, <1>6, <1>9, <1>10 DEF Others
    <2> QED BY <1>7, <2>1 DEF ProcInv, WriteLabels, WriteSection, AddLabels
  <1>11. ProcInv(p)'
    <2>1. CASE i = 8
      BY <1>6, <2>1 DEF ProcInv, WriteLabels, WriteSection, AddLabels
    <2>2. CASE i # 8
      <3>1. pc'[p] = "f_reset" /\ frame'[p] \in FlushFrames /\ frame'[p].index = i + 1
        BY <1>5, <1>6, <2>2
      <3>2. i + 1 \in 1 .. 8 /\ (i + 1 > 5 => i = 5 \/ i > 5) /\ (i + 1 > 6 => i = 6 \/ i > 6)
            /\ (i + 1 > 7 => i = 7 \/ i > 7)
        BY <1>3, <2>2
      <3>3. /\ i > 5 => ~buffer.full
            /\ i > 6 => buffer.in_offs = 0
            /\ i > 7 => buffer.out_offs = 0
        BY <1>1, <1>2 DEF ProcInv, i
      <3>4. /\ i + 1 > 5 => ~buffer'.full
            /\ i + 1 > 6 => buffer'.in_offs = 0
            /\ i + 1 > 7 => buffer'.out_offs = 0
        BY <1>3, <1>7, <3>2, <3>3
      <3> QED BY <1>3, <3>1, <3>2, <3>4 DEF ProcInv, WriteLabels, WriteSection, AddLabels
    <2> QED BY <2>1, <2>2
  <1>12. /\ \A q \in Procs : pc[q] \notin AddLabels
         /\ \A q \in Procs : pc'[q] \notin AddLabels
    BY <1>1, <1>6, <1>9, <1>10 DEF WriteLabels, WriteSection, AddLabels
  <1>13. SerialStep
    <2>1. (\E q \in Procs : Resets(pc[q], frame[q])) => Settled = ResetOffsets(buffer)
      BY <1>12, SettledResetting, SettledForm
    <2>2. (\E q \in Procs : Resets(pc'[q], frame'[q])) => Settled' = ResetOffsets(buffer')
      BY <1>12, SettledResetting, SettledForm
    <2>3. (\A q \in Procs : ~Resets(pc[q], frame[q])) => Settled = buffer
      BY <1>12, SettledQuiet, SettledForm
    <2>4. (\A q \in Procs : ~Resets(pc'[q], frame'[q])) => Settled' = buffer'
      BY <1>12, SettledQuiet, SettledForm
    <2>5. ResetOffsets(buffer') = ResetOffsets(buffer)
      BY <1>2, <1>7, ResetSame
    <2>6. \A q \in Procs : q # p => (Resets(pc'[q], frame'[q]) <=> Resets(pc[q], frame[q]))
      BY <1>6 DEF Others
    <2>7. CASE \E q \in Procs : q # p /\ Resets(pc[q], frame[q])
      <3>1. UNCHANGED Settled
        BY <2>1, <2>2, <2>5, <2>6, <2>7
      <3> QED BY <1>1, <3>1 DEF SerialStep
    <2>8. CASE \A q \in Procs : q # p => ~Resets(pc[q], frame[q])
      <3>1. CASE i \in 1 .. 4
        <4>1. ~Resets(pc[p], frame[p]) /\ ~Resets(pc'[p], frame'[p])
          BY <1>5, <1>6, <3>1 DEF Resets, i
        <4>2. buffer' = buffer
          BY <1>1, <3>1, OutsideReset
        <4>3. UNCHANGED Settled
          BY <2>3, <2>4, <2>6, <2>8, <4>1, <4>2
        <4> QED BY <1>1, <4>3 DEF SerialStep
      <3>2. CASE i = 5
        <4>1. ~Resets(pc[p], frame[p]) /\ Resets(pc'[p], frame'[p])
          BY <1>5, <1>6, <3>2 DEF Resets, i
        <4>2. Settled = buffer /\ Settled' = ResetOffsets(buffer)
          BY <2>2, <2>3, <2>5, <2>8, <4>1
        <4>3. Serial!Flush
          BY <1>1, <4>2, SameOperators DEF Serial!Flush
        <4> QED BY <4>3 DEF SerialStep
      <3>3. CASE i \in {6, 7}
        <4>1. Resets(pc[p], frame[p]) /\ Resets(pc'[p], frame'[p])
          BY <1>1, <1>5, <1>6, <3>3 DEF Resets, i
        <4>2. UNCHANGED Settled
          BY <2>1, <2>2, <2>5, <4>1
        <4> QED BY <1>1, <4>2 DEF SerialStep
      <3>4. CASE i = 8
        <4>1. Resets(pc[p], frame[p]) /\ ~Resets(pc'[p], frame'[p])
          BY <1>1, <1>6, <3>4 DEF Resets, i
        <4>2. Settled = ResetOffsets(buffer) /\ Settled' = buffer'
          BY <2>1, <2>4, <2>6, <2>8, <4>1
        <4>3. ~buffer.full /\ buffer.in_offs = 0 /\ buffer.out_offs = 0
          BY <1>1, <1>2, <3>4 DEF ProcInv, i
        <4>4. ~buffer'.full /\ buffer'.in_offs = 0 /\ buffer'.out_offs = 0 /\ buffer'.total_size = 0
          BY <1>7, <3>4, <4>3
        <4>5. ResetOffsets(buffer) = buffer'
          BY <1>2, <1>7, <4>4, ResetSame
        <4> QED BY <1>1, <4>2, <4>5 DEF SerialStep
      <3> QED BY <1>3, <3>1, <3>2, <3>3, <3>4
    <2> QED BY <2>7, <2>8
  <1> QED BY <1>6, <1>8, <1>10, <1>11, <1>13 DEF DriverInv, Others

-----------------------------------------------------------------------------
(* Every step keeps the invariant, and is a step of the serial ring or     *)
(* none.                                                                   *)
LEMMA DriverStep ==
  ASSUME DriverInv, SerialFlush, [Next]_vars
  PROVE  DriverInv' /\ SerialStep
  <1>1. LockInv'
    BY LockStep DEF DriverInv
  <1>2. CASE UNCHANGED vars
    BY <1>1, <1>2, SameStep DEF vars, device, history
  <1>3. ASSUME NEW p \in Procs, Write(p) PROVE DriverInv' /\ SerialStep
    BY <1>1, <1>3, WriteCallStep, WriteWaits, WriteMergeStep, WriteKeepStep, WriteCommitStep, AddSteps
       DEF Write
  <1>4. ASSUME NEW p \in Procs, Ioctl(p) PROVE DriverInv' /\ SerialStep
    BY <1>1, <1>4, SeektoStep, FlushCallStep, FlushFreeStep, FlushResetStep DEF Ioctl
  <1> QED BY <1>1, <1>2, <1>3, <1>4, ReadStep, FileStep, LoadStep DEF Next

(* What is true of the device as the module makes it. *)
LEMMA DriverInit == Init => DriverInv
  <1> SUFFICES ASSUME Init PROVE DriverInv
    OBVIOUS
  <1>1. LockInv
    BY DriverAssumption
       DEF Init, LockInv, MutexDiscipline, InUse, Labels, Critical, WriteSection, ReadSection
  <1>2. DeviceInv
    <2>1. partial \in BOOLEAN
      BY Zenon DEF Init
    <2>2. partial_entry \in Entries(Nat) /\ buffer \in Buffers(Nat) /\ committed \in Nat
      BY FreshBuffer DEF Init, NoEntry, Entries
    <2> QED BY <2>1, <2>2 DEF DeviceInv
  <1>3. \A p \in Procs : pc[p] = "idle"
    BY DEF Init
  <1>4. \A p \in Procs : ProcInv(p)
    BY <1>3 DEF ProcInv, WriteLabels, WriteSection, AddLabels
  <1> QED BY <1>1, <1>2, <1>4 DEF DriverInv, Init

(* DriverInv is an invariant of the driver. *)
THEOREM DriverInvariant == ASSUME SerialFlush PROVE Spec => []DriverInv
  <1>1. DriverInv /\ [Next]_vars => DriverInv'
    BY DriverStep
  <1> QED BY <1>1, DriverInit, PTL DEF Spec

(* The serial ring starts as it should. *)
LEMMA InitSerial == Init => Serial!Init
  <1> SUFFICES ASSUME Init PROVE Serial!Init
    OBVIOUS
  <1>1. \A p \in Procs : pc[p] = "idle"
    BY DEF Init
  <1>2. Settled = buffer
    BY <1>1, SettledQuiet, SettledForm DEF AddLabels, Resets
  <1> QED BY <1>2, SameOperators DEF Serial!Init, Init

(* However the calls interleave, each write that ends a command is one Add *)
(* of the serial ring, each flush one Flush, each loading of the module    *)
(* one Load, and nothing else changes it.                                  *)
THEOREM ImplementsSerialRingHolds == ASSUME SerialFlush PROVE Spec => ImplementsSerialRing
  <1>1. Init => Serial!Init
    BY InitSerial
  <1>2. DriverInv /\ [Next]_vars => [Serial!Grow \/ Serial!Flush \/ Serial!Load]_<<Settled, committed>>
    <2> SUFFICES ASSUME DriverInv, SerialStep
                 PROVE  [Serial!Grow \/ Serial!Flush \/ Serial!Load]_<<Settled, committed>>
      BY DriverStep
    <2>1. CASE \E n \in Nat \ {0} : Serial!Add(n)
      <3>1. PICK n \in Nat \ {0} : Serial!Add(n)
        BY <2>1
      <3>2. committed' = committed + n /\ committed \in Nat
        BY <3>1 DEF Serial!Add, DriverInv, DeviceInv
      <3>3. committed' - committed = n
        BY <3>2
      <3> QED BY <3>1, <3>3 DEF Serial!Grow
    <2> QED BY <2>1 DEF SerialStep
  <1>3. DriverInv /\ [Next]_vars => [Serial!Grow \/ Serial!Flush \/ Serial!Load]_Serial!vars
    BY <1>2 DEF Serial!vars
  <1> QED BY <1>1, <1>3, DriverInvariant, PTL DEF Spec, ImplementsSerialRing, Serial!StepSpec

-----------------------------------------------------------------------------
(* What is proved of the ring alone holds of the ring in the driver.       *)

Proved == INSTANCE RingProofs WITH buffer <- Settled, appended <- committed, Sizes <- Nat \ {0}

(* The assumptions of those theorems. *)
LEMMA RingAssumed == Proved!CapacityAssumption /\ Proved!RingAssumption
  BY CapacityAssumption, DriverAssumption
     DEF Proved!CapacityAssumption, Proved!RingAssumption, Proved!Entries, Entries

(* The ring they are about is the serial ring. *)
LEMMA SameRing ==
  /\ Serial!Init <=> Proved!Init
  /\ \A n : Serial!Add(n) <=> Proved!Add(n)
  /\ Serial!Flush <=> Proved!Flush
  /\ Serial!Load <=> Proved!Load
  <1>1. \A junk : Proved!aesd_circular_buffer_init(junk) = Serial!aesd_circular_buffer_init(junk)
    BY DEF Proved!aesd_circular_buffer_init, Serial!aesd_circular_buffer_init
  <1>2. Proved!FreshBuffers = Serial!FreshBuffers
    BY <1>1 DEF Proved!FreshBuffers, Serial!FreshBuffers, Proved!Slots, Serial!Slots
  <1>3. \A b : Proved!ResetOffsets(b) = Serial!ResetOffsets(b)
    BY DEF Proved!ResetOffsets, Serial!ResetOffsets
  <1>4. \A i : Proved!Succ(i) = Serial!Succ(i)
    BY DEF Proved!Succ, Serial!Succ
  <1>5. \A b : /\ Proved!DropOldSize(b) = Serial!DropOldSize(b)
               /\ Proved!AdvanceOut(b) = Serial!AdvanceOut(b)
    BY <1>4 DEF Proved!DropOldSize, Serial!DropOldSize, Proved!AdvanceOut, Serial!AdvanceOut
  <1>6. \A b, e : /\ Proved!AddNewSize(b, e) = Serial!AddNewSize(b, e)
                  /\ Proved!StoreEntry(b, e) = Serial!StoreEntry(b, e)
    BY DEF Proved!AddNewSize, Serial!AddNewSize, Proved!StoreEntry, Serial!StoreEntry
  <1>7. \A b, f : Proved!AdvanceIn(b, f) = Serial!AdvanceIn(b, f)
    BY <1>4 DEF Proved!AdvanceIn, Serial!AdvanceIn
  <1>8. \A b, e : Proved!aesd_circular_buffer_add_entry(b, e) = Serial!aesd_circular_buffer_add_entry(b, e)
    BY <1>5, <1>6, <1>7 DEF Proved!aesd_circular_buffer_add_entry, Serial!aesd_circular_buffer_add_entry
  <1> QED BY <1>2, <1>3, <1>8
          DEF Proved!Init, Serial!Init, Proved!Add, Serial!Add, Proved!Flush, Serial!Flush,
              Proved!Load, Serial!Load

(* Both say the same of total_size. *)
LEMMA SameTotalSize == Proved!TotalSizeExact => Serial!TotalSizeExact
  BY DEF Proved!TotalSizeExact, Serial!TotalSizeExact, Proved!Oldest, Serial!Oldest,
         Proved!Count, Serial!Count, Proved!EntryAt, Serial!EntryAt, Proved!SlotAfter, Serial!SlotAfter

(* The driver implements the ring that is changed by whole operations. *)
THEOREM DriverImplementsRing == ASSUME SerialFlush PROVE Spec => Proved!Spec
  <1>1. Init => Proved!Init
    BY InitSerial, SameRing
  <1>2. DriverInv /\ [Next]_vars => [Proved!Next]_Proved!vars
    <2> SUFFICES ASSUME SerialStep PROVE [Proved!Next]_Proved!vars
      BY DriverStep
    <2>1. CASE UNCHANGED <<Settled, committed>>
      BY <2>1 DEF Proved!vars
    <2>2. CASE \E n \in Nat \ {0} : Serial!Add(n)
      <3>1. \E n \in Nat \ {0} : Proved!Add(n)
        BY <2>2, SameRing
      <3> QED BY <3>1 DEF Proved!Next
    <2>3. CASE Serial!Flush \/ Serial!Load
      BY <2>3, SameRing DEF Proved!Next
    <2> QED BY <2>1, <2>2, <2>3 DEF SerialStep
  <1> QED BY <1>1, <1>2, DriverInvariant, PTL DEF Spec, Proved!Spec

(* ... and so the bounded command log: whatever readers, writers and       *)
(* seekers do, the device holds the last N commands, oldest first.         *)
THEOREM DriverImplementsLog == ASSUME SerialFlush PROVE Spec => Proved!ImplementsLog
  BY DriverImplementsRing, RingAssumed, Proved!RingRefinesLog, PTL

(* The settled ring of the driver holds the most recent commands, and its  *)
(* total_size is exact.                                                    *)
THEOREM DriverRingInvariant == ASSUME SerialFlush PROVE Spec => []Proved!RingInv
  BY DriverImplementsRing, RingAssumed, Proved!RingInvariant, PTL

(* total_size is the number of bytes stored whenever no call is in         *)
(* progress, when nobody writes during a flush.  Without that hypothesis   *)
(* it is not: the run flush_race.                                          *)
THEOREM QuietTotalExactHolds == ASSUME SerialFlush PROVE Spec => []QuietTotalExact
  <1>1. Proved!RingInv => QuietTotalExact
    BY SameTotalSize DEF Proved!RingInv, QuietTotalExact
  <1> QED BY <1>1, DriverRingInvariant, PTL

-----------------------------------------------------------------------------
(* The steps that neither take nor add bytes, outside a flush. *)

Ordinary(p) ==
  \/ Read(p) \/ Llseek(p) \/ aesd_open(p) \/ aesd_release(p)
  \/ SeektoSum(p) \/ SeektoFlag(p) \/ \E s \in Seeks : SeektoCall(p, s)
  \/ WriteCheck(p) \/ WriteLock(p) \/ WriteOops(p) \/ WriteUnlock(p) \/ WriteRecheck(p)
  \/ WriteDrop(p) \/ WriteSize(p) \/ WriteStore(p) \/ WriteIn(p) \/ WriteOut(p)
  \/ \E d \in Payloads : WriteCall(p, d)

Special(p) ==
  \/ WriteMerge(p) \/ WriteKeepPartial(p) \/ WriteCommit(p)
  \/ FlushCall(p) \/ FlushFree(p) \/ FlushReset(p)
  \/ aesd_cleanup_module(p) \/ aesd_init_module(p)

(* Every step is of one of the two kinds. *)
LEMMA NextSplit == Next => \E p \in Procs : Ordinary(p) \/ Special(p)
  BY DEF Next, Write, Ioctl, Ordinary, Special

(* What an ordinary step leaves alone. *)
LEMMA OrdinaryStep ==
  ASSUME DOMAIN frame = Procs, pc \in [Procs -> Labels], NEW p \in Procs, Ordinary(p)
  PROVE  /\ Others(p)
         /\ UNCHANGED <<partial, partial_entry, received, committed, freed, loaded>>
         /\ pc[p] \notin {"w_test", "f_free", "f_reset"}
         /\ pc'[p] \notin {"w_test", "f_free", "f_reset"}
  <1> USE DEF device, history, kernel
  <1>1. /\ UNCHANGED <<partial, partial_entry, received, committed, freed, loaded>>
        /\ pc[p] \notin {"w_test", "f_free", "f_reset"}
        /\ frame' = frame \/ \E f : frame' = [frame EXCEPT ![p] = f]
        /\ \/ pc' = pc
           \/ \E l : l \notin {"w_test", "f_free", "f_reset"} /\ pc' = [pc EXCEPT ![p] = l]
    <2>1. CASE (\E c \in Counts : ReadCall(p, c)) \/ (\E s \in Seeks : SeektoCall(p, s)) \/ (\E d \in Payloads : WriteCall(p, d))
      BY <2>1 DEF ReadCall, SeektoCall, WriteCall, Call, Goto
    <2>2. CASE ReadCheck(p) \/ ReadRecheck(p) \/ WriteCheck(p)
      BY <2>2 DEF ReadCheck, ReadRecheck, WriteCheck, CheckUnlocked, Return, Goto
    <2>3. CASE ReadLock(p) \/ ReadUnlock(p) \/ WriteLock(p) \/ WriteUnlock(p)
      BY <2>3 DEF ReadLock, ReadUnlock, WriteLock, WriteUnlock, Lock, Unlock, Step, Goto
    <2>4. CASE ReadEof(p)
      BY <2>4 DEF ReadEof, EofReturn, Return, Goto
    <2>5. CASE ReadSeek(p)
      BY <2>5 DEF ReadSeek, Step, Goto
    <2>6. CASE ReadClear(p)
      BY <2>6 DEF ReadClear, Step, Goto
    <2>7. CASE ReadCopy(p)
      BY <2>7 DEF ReadCopy, Step, Goto
    <2>8. CASE ReadAdvance(p)
      BY <2>8 DEF ReadAdvance, Return, Goto
    <2>9. CASE Llseek(p)
      BY <2>9 DEF Llseek
    <2>10. CASE aesd_open(p) \/ aesd_release(p)
      BY <2>10 DEF aesd_open, aesd_release
    <2>11. CASE SeektoSum(p)
      BY <2>11 DEF SeektoSum, Goto
    <2>12. CASE SeektoFlag(p)
      BY <2>12 DEF SeektoFlag, Return, Goto
    <2>13. CASE WriteOops(p)
      BY <2>13 DEF WriteOops, Step, Goto
    <2>14. CASE WriteRecheck(p)
      BY <2>14 DEF WriteRecheck, Return, Goto
    <2>15. CASE WriteDrop(p) \/ WriteSize(p) \/ WriteStore(p) \/ WriteIn(p) \/ WriteOut(p)
      BY <2>15 DEF WriteDrop, WriteSize, WriteStore, WriteIn, WriteOut, AddStep, Step, Goto
    <2> QED BY <2>1, <2>2, <2>3, <2>4, <2>5, <2>6, <2>7, <2>8, <2>9, <2>10, <2>11, <2>12,
               <2>13, <2>14, <2>15 DEF Ordinary, Read
  <1> QED BY <1>1 DEF Others

-----------------------------------------------------------------------------
(* Where the bytes are: those received are committed, or pending in        *)
(* partial_entry, or in the hands of the one write that is between copying *)
(* them and deciding where they go.                                        *)

Pending == IF partial THEN partial_entry.size ELSE 0

(* A flush has cut partial_entry to nothing, but partial is still set. *)
Dropping == \E p \in Procs : pc[p] = "f_reset" /\ frame[p].index = 2

BytesInv ==
  /\ (\A p \in Procs : pc[p] # "w_test") /\ ~Dropping => received = committed + Pending
  /\ \A p \in Procs : pc[p] = "w_test" => received = committed + frame[p].write_size

(* Every step preserves it, together with DriverInv. *)
LEMMA BytesStep ==
  ASSUME DriverInv, SerialFlush, BytesInv, [Next]_vars
  PROVE  BytesInv'
  <1>1. CASE UNCHANGED vars
    BY <1>1 DEF vars, device, history, BytesInv, Dropping, Pending
  <1>2. ASSUME Next PROVE BytesInv'
    <2>1. PICK p \in Procs : Ordinary(p) \/ Special(p)
      BY <1>2, NextSplit
    <2>2. /\ DOMAIN frame = Procs /\ pc \in [Procs -> Labels] /\ \A q \in Procs : ProcInv(q)
          /\ committed \in Nat /\ partial_entry.size \in Nat /\ partial_entry \in Entries(Nat)
          /\ Pending \in Nat
      BY DEF DriverInv, LockInv, DeviceInv, Entries, Pending
    <2>3. ASSUME Others(p), UNCHANGED <<partial, partial_entry, received, committed>>,
                 pc[p] # "w_test", pc'[p] # "w_test",
                 pc[p] = "f_reset" => frame[p].index # 2
          PROVE  BytesInv'
      <3>1. \A q \in Procs : q # p => pc'[q] = pc[q] /\ frame'[q] = frame[q]
        BY <2>3 DEF Others
      <3>2. ~Dropping' => ~Dropping
        BY <2>3, <3>1 DEF Dropping
      <3>3. Pending' = Pending
        BY <2>3 DEF Pending
      <3> QED BY <2>3, <3>1, <3>2, <3>3 DEF BytesInv
    <2>4. ASSUME pc[p] \in WriteSection
          PROVE  /\ \A q \in Procs : q # p => pc[q] # "w_test" /\ pc[q] # "f_reset"
                 /\ ~Dropping
      <3>1. \A q \in Procs : q # p => pc[q] \notin WriteSection /\ pc[q] # "f_reset"
        BY <2>4, Alone DEF WriteLabels
      <3> QED BY <2>4, <3>1 DEF WriteSection, Dropping
    <2>5. CASE Ordinary(p)
      BY <2>2, <2>3, <2>5, OrdinaryStep
    <2>6. CASE WriteMerge(p)
      <3> DEFINE n == frame[p].write_size + Pending
                 f == [frame[p] EXCEPT !.write_size = n]
      <3>1. /\ pc[p] = "w_merge" /\ pc' = [pc EXCEPT ![p] = "w_test"]
            /\ received' = received + frame[p].count /\ UNCHANGED committed
        BY <2>6 DEF WriteMerge, Step, Goto
      <3>2. frame[p] \in WriteFrames /\ frame[p].write_size = frame[p].count
        BY <2>2, <3>1 DEF ProcInv, WriteLabels, WriteSection
      <3>3. frame' = [frame EXCEPT ![p] = f]
        BY <2>2, <2>6, <3>2 DEF WriteMerge, WriteFrames, Pending
      <3>4. frame'[p] = f /\ f.write_size = n
        BY <2>2, <3>2, <3>3 DEF WriteFrames
      <3>5. received = committed + Pending
        BY <2>4, <3>1 DEF BytesInv, WriteSection
      <3>6. frame[p].count \in Nat
        BY <3>2 DEF WriteFrames
      <3> HIDE DEF f
      <3>7. received' = committed' + frame'[p].write_size
        BY <2>2, <3>1, <3>2, <3>4, <3>5, <3>6
      <3>8. \A q \in Procs : pc'[q] = "w_test" <=> q = p
        BY <2>2, <2>4, <3>1 DEF WriteSection
      <3> QED BY <3>7, <3>8 DEF BytesInv
    <2>7. CASE WriteKeepPartial(p) \/ WriteCommit(p)
      <3>1. pc[p] = "w_test" /\ UNCHANGED received
        BY <2>7 DEF WriteKeepPartial, WriteCommit, Step, history
      <3>2. frame[p].write_size \in Nat
        BY <2>2, <3>1 DEF ProcInv, WriteLabels, WriteSection, WriteFrames
      <3>3. received = committed + frame[p].write_size
        BY <3>1 DEF BytesInv
      <3>4. \A q \in Procs : pc'[q] # "w_test"
        <4>1. \E l : l # "w_test" /\ pc' = [pc EXCEPT ![p] = l]
          BY <2>7 DEF WriteKeepPartial, WriteCommit, Step, Goto
        <4> QED BY <2>2, <2>4, <3>1, <4>1 DEF WriteSection
      <3>5. committed' + Pending' = committed + frame[p].write_size
        <4>1. CASE WriteKeepPartial(p)
          <5>1. UNCHANGED committed /\ Pending' = frame[p].write_size
            BY <4>1 DEF WriteKeepPartial, KeptEntry, history, Pending
          <5> QED BY <5>1
        <4>2. CASE WriteCommit(p)
          <5>1. committed' = committed + frame[p].write_size /\ Pending' = 0
            BY <4>2 DEF WriteCommit, Pending
          <5> QED BY <2>2, <3>2, <5>1
        <4> QED BY <2>7, <4>1, <4>2
      <3> QED BY <3>1, <3>3, <3>4, <3>5 DEF BytesInv
    <2>8. CASE FlushCall(p) \/ FlushFree(p)
      <3>1. /\ UNCHANGED <<partial, partial_entry, received, committed>>
            /\ pc[p] \in {"idle", "f_free"}
            /\ \E f : frame' = [frame EXCEPT ![p] = f]
            /\ \E l \in {"f_free", "f_reset"} : pc' = [pc EXCEPT ![p] = l]
        BY <2>8 DEF FlushCall, FlushFree, Call, Goto, device, history
      <3>2. Others(p) /\ pc'[p] \in {"f_free", "f_reset"}
        BY <2>2, <3>1 DEF Others
      <3> QED BY <2>3, <3>1, <3>2
    <2>9. CASE FlushReset(p)
      <3>1. /\ pc[p] = "f_reset"
            /\ \E f : frame' = [frame EXCEPT ![p] = f]
            /\ pc' = pc \/ pc' = [pc EXCEPT ![p] = "idle"]
        BY <2>9 DEF FlushReset, Return, Goto
      <3>2. frame[p].index \in 1 .. 8 /\ frame[p] \in FlushFrames /\ "flush" \in Ops[p]
        BY <2>2, <3>1 DEF ProcInv
      <3>3. Others(p) /\ pc'[p] # "w_test"
        BY <2>2, <3>1 DEF Others
      <3>4. \A q \in Procs : pc[q] \notin WriteLabels
        BY <2>2, <3>1, <3>2 DEF SerialFlush, ProcInv, WriteLabels, WriteSection
      <3>5. \A q \in Procs : pc'[q] # "w_test"
        BY <3>3, <3>4 DEF Others, WriteLabels, WriteSection
      <3>6. CASE frame[p].index = 1
        <4>1. frame' = [frame EXCEPT ![p].index = 2] /\ pc' = pc
          BY <2>9, <3>6 DEF FlushReset
        <4>2. pc'[p] = "f_reset" /\ frame'[p].index = 2
          BY <2>2, <3>1, <3>2, <4>1 DEF FlushFrames
        <4>3. Dropping'
          BY <4>2 DEF Dropping
        <4> QED BY <3>5, <4>3 DEF BytesInv
      <3>7. CASE frame[p].index = 2
        <4>1. received' = committed /\ ~partial' /\ UNCHANGED committed
          BY <2>9, <3>7 DEF FlushReset
        <4>2. Pending' = 0
          BY <4>1 DEF Pending
        <4>3. received' = committed' + Pending'
          BY <2>2, <4>1, <4>2
        <4> QED BY <3>5, <4>3 DEF BytesInv
      <3>8. CASE frame[p].index > 2
        <4>1. UNCHANGED <<partial_entry, received, committed>> /\ partial' = (partial /\ TRUE)
          BY <2>9, <3>2, <3>8 DEF FlushReset
        <4>2. Pending' = Pending
          BY <4>1 DEF Pending
        <4>3. ~Dropping' => ~Dropping
          BY <3>3, <3>8, <3>2 DEF Others, Dropping
        <4>4. \A q \in Procs : pc[q] # "w_test"
          BY <3>4 DEF WriteLabels, WriteSection
        <4> QED BY <3>5, <4>1, <4>2, <4>3, <4>4 DEF BytesInv
      <3> QED BY <3>2, <3>6, <3>7, <3>8
    <2>10. CASE aesd_cleanup_module(p)
      BY <2>10 DEF aesd_cleanup_module, device, history, BytesInv, Dropping, Pending
    <2>11. CASE aesd_init_module(p)
      <3>1. received' = committed /\ partial' = FALSE /\ UNCHANGED <<committed, pc, frame>>
        BY <2>11 DEF aesd_init_module
      <3>2. \A q \in Procs : pc[q] \in {"idle", "dead"}
        BY <2>11 DEF aesd_init_module, DriverInv, LockInv, InUse
      <3>3. Pending' = 0
        BY <3>1 DEF Pending
      <3>4. received' = committed' + Pending'
        BY <2>2, <3>1, <3>3
      <3> QED BY <3>1, <3>2, <3>4 DEF BytesInv
    <2> QED BY <2>1, <2>5, <2>6, <2>7, <2>8, <2>9, <2>10, <2>11 DEF Special
  <1> QED BY <1>1, <1>2

(* No byte is lost and none counted twice, however commands are cut into   *)
(* writes and whoever makes them.                                          *)
THEOREM ByteConservationHolds == ASSUME SerialFlush PROVE Spec => []ByteConservation
  <1>1. Init => BytesInv
    BY DEF Init, BytesInv, Pending
  <1>2. DriverInv /\ BytesInv /\ [Next]_vars => BytesInv'
    BY BytesStep
  <1>3. DriverInv /\ BytesInv => ByteConservation
    <2> SUFFICES ASSUME DriverInv, BytesInv, mutex = Free, ~Flushing
                 PROVE  received = committed + Pending
      BY DEF ByteConservation, Pending
    <2>1. \A p \in Procs : pc[p] # "w_test"
      BY DriverAssumption DEF DriverInv, LockInv, MutexDiscipline, Critical, WriteSection
    <2>2. ~Dropping
      BY DEF Flushing, Dropping
    <2> QED BY <2>1, <2>2 DEF BytesInv
  <1> QED BY <1>1, <1>2, <1>3, DriverInvariant, PTL DEF Spec

-----------------------------------------------------------------------------
(* Whose memory a flush and rmmod give back. *)

(* Released, of a given set. *)
GivenBack(F, block) == <<block, "flush">> \in F \/ <<block, "rmmod">> \in F

Occupied(b, i) == b.full \/ i < b.in_offs
Empty(b) == ~b.full /\ b.in_offs = 0

NobodyWrites == \A p \in Procs : "write" \notin Ops[p]

(* Every occupied slot points to a block of its own, one already written. *)
HeldInv ==
  /\ Settled \in Buffers(Nat)
  /\ Settled.full \/ Settled.out_offs = 0
  /\ \A i \in Slots : Occupied(Settled, i) => Settled.entry[i].buffptr < committed
  /\ \A i, j \in Slots :
       Occupied(Settled, i) /\ Occupied(Settled, j) /\ i # j =>
         Settled.entry[i].buffptr # Settled.entry[j].buffptr

(* Several processes can flush at the same time only if nobody writes, and *)
(* then there is nothing to free.                                          *)
IdleRing == NobodyWrites => Empty(buffer)

(* Nothing that was given back is held, but for the slots a flush in       *)
(* progress is through with; those it has still to visit are not given     *)
(* back.  A block that is not yet written was never given back.            *)
FreedInv ==
  /\ \A b : GivenBack(freed, b) => b \in Nat /\ b < committed
  /\ loaded /\ ~Flushing =>
       \A i \in Slots : Occupied(Settled, i) => ~GivenBack(freed, Settled.entry[i].buffptr)
  /\ \A p \in Procs : pc[p] = "f_free" =>
       \A i \in Slots :
         Occupied(Settled, i) /\ i >= frame[p].index => ~GivenBack(freed, Settled.entry[i].buffptr)

MemoryInv == DriverInv /\ HeldInv /\ IdleRing /\ FreedInv

(* No slot of an empty ring is occupied. *)
LEMMA EmptyHoldsNothing ==
  ASSUME NEW b, Empty(b), NEW i \in Slots
  PROVE  ~Occupied(b, i)
  BY CapacityAssumption DEF Empty, Occupied, Slots

(* add_entry occupies one more slot, the one it stores to. *)
LEMMA AddOccupies ==
  ASSUME NEW b \in Buffers(Nat), NEW e \in Entries(Nat),
         NEW c, c = aesd_circular_buffer_add_entry(b, e)
  PROVE  /\ c \in Buffers(Nat) /\ b.in_offs \in Slots
         /\ c.entry[b.in_offs] = e
         /\ \A i \in Slots : i # b.in_offs => c.entry[i] = b.entry[i]
         /\ \A i \in Slots : Occupied(c, i) /\ i # b.in_offs => Occupied(b, i)
         /\ b.full \/ b.out_offs = 0 => c.full \/ c.out_offs = 0
  <1>1. b.full \in BOOLEAN /\ b.in_offs \in Slots /\ b.entry \in [Slots -> Entries(Nat)]
    BY DEF Buffers
  <1>2. CASE b.full
    <2>1. c \in Buffers(Nat) /\ c.entry = [b.entry EXCEPT ![b.in_offs] = e] /\ c.full
      BY <1>2, AddToFull
    <2> QED BY <1>1, <1>2, <2>1 DEF Occupied
  <1>3. CASE ~b.full
    <2>1. /\ c \in Buffers(Nat) /\ c.entry = [b.entry EXCEPT ![b.in_offs] = e]
          /\ c.in_offs = Succ(b.in_offs) /\ c.out_offs = b.out_offs
          /\ c.full <=> b.in_offs + 1 = N
      BY <1>3, AddToNotFull
    <2>2. ASSUME NEW i \in Slots, Occupied(c, i), i # b.in_offs PROVE i < b.in_offs
      BY <1>1, <2>1, <2>2, CapacityAssumption DEF Occupied, Slots, Succ
    <2> QED BY <1>1, <1>3, <2>1, <2>2 DEF Occupied
  <1> QED BY <1>1, <1>2, <1>3

(* A step of the serial ring adds an entry, or else it keeps the ring or   *)
(* empties it.                                                             *)
LEMMA KeptOrEmptied ==
  ASSUME DriverInv, Settled \in Buffers(Nat), SerialStep, committed' = committed
  PROVE  \/ Settled' = Settled
         \/ Settled' \in Buffers(Nat) /\ Empty(Settled') /\ Settled'.out_offs = 0
  <1>1. CASE \E n \in Nat \ {0} : Serial!Add(n)
    <2>1. PICK n \in Nat \ {0} : Serial!Add(n)
      BY <1>1
    <2>2. committed' = committed + n /\ committed \in Nat
      BY <2>1 DEF Serial!Add, DriverInv, DeviceInv
    <2> QED BY <2>2
  <1>2. CASE Serial!Flush
    BY <1>2, SameOperators, ResetOffsetsFields DEF Serial!Flush, Empty
  <1>3. CASE Serial!Load
    BY <1>3, SameOperators, FreshBuffer DEF Serial!Load, Empty
  <1> QED BY <1>1, <1>2, <1>3 DEF SerialStep

(* A command that is committed is an Add. *)
LEMMA CommitAdds ==
  ASSUME DriverInv, SerialStep, NEW p \in Procs, WriteCommit(p)
  PROVE  \E n \in Nat \ {0} : Serial!Add(n)
  <1>1. pc[p] = "w_test" /\ committed' = committed + frame[p].write_size
    BY DEF WriteCommit, Step
  <1>2. committed \in Nat /\ frame[p].write_size \in Nat /\ frame[p].write_size > 0
    BY <1>1 DEF DriverInv, DeviceInv, ProcInv, WriteLabels, WriteSection, WriteFrames
  <1>3. committed' # committed
    BY <1>1, <1>2
  <1> QED BY <1>3 DEF SerialStep, Serial!Flush, Serial!Load

(* What an Add is to the settled ring. *)
LEMMA AddedEntry ==
  ASSUME DriverInv, Settled \in Buffers(Nat), NEW n \in Nat \ {0}, Serial!Add(n),
         NEW e, e = [buffptr |-> committed, size |-> n]
  PROVE  /\ e \in Entries(Nat) /\ e.buffptr = committed
         /\ Settled' = aesd_circular_buffer_add_entry(Settled, e)
         /\ committed \in Nat /\ committed' \in Nat /\ committed < committed'
  <1>1. committed \in Nat /\ committed' = committed + n
    BY DEF Serial!Add, DriverInv, DeviceInv
  <1> QED BY <1>1, SameOperators DEF Serial!Add, Entries

(* Every step of the serial ring preserves HeldInv. *)
LEMMA HeldStep ==
  ASSUME DriverInv, HeldInv, SerialStep
  PROVE  HeldInv'
  <1>1. Settled \in Buffers(Nat)
    BY DEF HeldInv
  <1>2. CASE \E n \in Nat \ {0} : Serial!Add(n)
    <2>1. PICK n \in Nat \ {0} : Serial!Add(n)
      BY <1>2
    <2> DEFINE e == [buffptr |-> committed, size |-> n]
               k == Settled.in_offs
    <2>2. /\ e \in Entries(Nat) /\ e.buffptr = committed
          /\ Settled' = aesd_circular_buffer_add_entry(Settled, e)
          /\ committed \in Nat /\ committed' \in Nat /\ committed < committed'
      BY <1>1, <2>1, AddedEntry
    <2> HIDE DEF e
    <2>3. /\ Settled' \in Buffers(Nat) /\ k \in Slots /\ Settled'.entry[k] = e
          /\ \A i \in Slots : i # k => Settled'.entry[i] = Settled.entry[i]
          /\ \A i \in Slots : Occupied(Settled', i) /\ i # k => Occupied(Settled, i)
          /\ Settled.full \/ Settled.out_offs = 0 => Settled'.full \/ Settled'.out_offs = 0
      BY <1>1, <2>2, AddOccupies
    <2> HIDE DEF k
    <2>4. \A i \in Slots : Settled.entry[i].buffptr \in Nat
      BY <1>1 DEF Buffers, Entries
    <2>5. ASSUME NEW i \in Slots, Occupied(Settled', i)
          PROVE  /\ i = k => Settled'.entry[i].buffptr = committed
                 /\ i # k => /\ Settled'.entry[i].buffptr = Settled.entry[i].buffptr
                             /\ Settled.entry[i].buffptr < committed
                             /\ Occupied(Settled, i)
      BY <2>2, <2>3, <2>5 DEF HeldInv
    <2>6. ASSUME NEW i \in Slots, Occupied(Settled', i)
          PROVE  Settled'.entry[i].buffptr < committed'
      BY <2>2, <2>4, <2>5, <2>6
    <2>7. ASSUME NEW i \in Slots, NEW j \in Slots, Occupied(Settled', i), Occupied(Settled', j), i # j
          PROVE  Settled'.entry[i].buffptr # Settled'.entry[j].buffptr
      <3>1. CASE i # k /\ j # k
        BY <2>5, <2>7, <3>1 DEF HeldInv
      <3>2. CASE i = k \/ j = k
        BY <2>2, <2>4, <2>5, <2>7, <3>2
      <3> QED BY <3>1, <3>2
    <2> QED BY <2>3, <2>6, <2>7 DEF HeldInv
  <1>3. CASE ~\E n \in Nat \ {0} : Serial!Add(n)
    <2>1. committed' = committed
      BY <1>3 DEF SerialStep, Serial!Flush, Serial!Load
    <2>2. CASE Settled' = Settled
      BY <2>1, <2>2 DEF HeldInv
    <2>3. CASE Settled' \in Buffers(Nat) /\ Empty(Settled') /\ Settled'.out_offs = 0
      <3>1. \A i \in Slots : ~Occupied(Settled', i)
        BY <2>3, EmptyHoldsNothing
      <3> QED BY <2>3, <3>1 DEF HeldInv
    <2> QED BY <1>1, <2>1, <2>2, <2>3, KeptOrEmptied
  <1> QED BY <1>2, <1>3

(* Without a writer nothing fills the ring. *)
LEMMA IdleStep ==
  ASSUME DriverInv, IdleRing, [Next]_vars
  PROVE  IdleRing'
  <1> SUFFICES ASSUME NobodyWrites PROVE Empty(buffer')
    BY DEF IdleRing, NobodyWrites
  <1>1. Empty(buffer) /\ buffer \in Buffers(Nat) /\ \A p \in Procs : ProcInv(p) /\ pc[p] \notin WriteLabels
    BY DEF IdleRing, NobodyWrites, DriverInv, DeviceInv, ProcInv
  <1>2. CASE UNCHANGED buffer
    BY <1>1, <1>2
  <1>3. ASSUME NEW p \in Procs, FlushReset(p) PROVE Empty(buffer')
    <2>1. pc[p] = "f_reset" /\ buffer' = FlushRing(buffer, frame[p].index)
      BY <1>3 DEF FlushReset
    <2>2. frame[p].index \in 1 .. 8
      BY <1>1, <2>1 DEF ProcInv
    <2>3. /\ buffer'.full = (buffer.full /\ frame[p].index # 5)
          /\ buffer'.in_offs = IF frame[p].index = 6 THEN 0 ELSE buffer.in_offs
      BY <1>1, <2>1, <2>2, FlushRingFields
    <2> QED BY <1>1, <2>3 DEF Empty
  <1>4. ASSUME NEW p \in Procs, aesd_init_module(p) PROVE Empty(buffer')
    BY <1>4, FreshBuffer DEF aesd_init_module, Empty
  <1>5. ASSUME NEW p \in Procs, Special(p) PROVE Empty(buffer')
    <2>1. CASE WriteMerge(p) \/ WriteKeepPartial(p) \/ WriteCommit(p)
      BY <1>2, <2>1 DEF WriteMerge, WriteKeepPartial, WriteCommit, device
    <2>2. CASE FlushCall(p) \/ FlushFree(p) \/ aesd_cleanup_module(p)
      BY <1>2, <2>2 DEF FlushCall, FlushFree, aesd_cleanup_module, device
    <2> QED BY <1>3, <1>4, <1>5, <2>1, <2>2 DEF Special
  <1>6. ASSUME NEW p \in Procs, Ordinary(p) PROVE Empty(buffer')
    <2>1. ~(WriteDrop(p) \/ WriteSize(p) \/ WriteStore(p) \/ WriteIn(p) \/ WriteOut(p))
      BY <1>1 DEF WriteDrop, WriteSize, WriteStore, WriteIn, WriteOut, AddStep, Step, WriteLabels, WriteSection
    <2>2. Read(p) => UNCHANGED buffer
      BY DEF Read, ReadCall, ReadCheck, ReadLock, ReadEof, ReadSeek, ReadClear, ReadCopy, ReadUnlock,
             ReadRecheck, ReadAdvance, CheckUnlocked, Lock, Unlock, device
    <2>3. (\E s \in Seeks : SeektoCall(p, s)) \/ (\E d \in Payloads : WriteCall(p, d)) => UNCHANGED buffer
      BY DEF SeektoCall, WriteCall, device
    <2>4. Llseek(p) \/ aesd_open(p) \/ aesd_release(p) \/ SeektoSum(p) \/ SeektoFlag(p) => UNCHANGED buffer
      BY DEF Llseek, aesd_open, aesd_release, SeektoSum, SeektoFlag, device
    <2>5. WriteCheck(p) \/ WriteLock(p) \/ WriteOops(p) \/ WriteUnlock(p) \/ WriteRecheck(p) => UNCHANGED buffer
      BY DEF WriteCheck, WriteLock, WriteOops, WriteUnlock, WriteRecheck, CheckUnlocked, Lock, Unlock, device
    <2> QED BY <1>2, <1>6, <2>1, <2>2, <2>3, <2>4, <2>5 DEF Ordinary
  <1> QED BY <1>2, <1>5, <1>6, NextSplit DEF vars, device

(* If nobody writes, the ring is and stays empty. *)
LEMMA NobodyWritesEmpty ==
  ASSUME DriverInv, IdleRing, NobodyWrites
  PROVE  Empty(Settled)
  <1>1. Empty(buffer) /\ buffer \in Buffers(Nat)
    BY DEF IdleRing, DriverInv, DeviceInv
  <1>2. \A p \in Procs : pc[p] \notin AddLabels
    BY DEF DriverInv, ProcInv, NobodyWrites, WriteLabels, WriteSection, AddLabels
  <1>3. CASE \E p \in Procs : Resets(pc[p], frame[p])
    BY <1>1, <1>2, <1>3, SettledResetting, SettledForm, ResetOffsetsFields DEF Empty
  <1>4. CASE \A p \in Procs : ~Resets(pc[p], frame[p])
    BY <1>1, <1>2, <1>4, SettledQuiet, SettledForm
  <1> QED BY <1>3, <1>4

(* What a flush sees while it frees: the settled ring, and no other flush; *)
(* or an empty ring.                                                       *)
LEMMA SettledWhileFreeing ==
  ASSUME DriverInv, SerialFlush, IdleRing, NEW p \in Procs, pc[p] = "f_free"
  PROVE  \/ Settled = buffer /\ \A q \in Procs : q # p => pc[q] \notin {"f_free", "f_reset"}
         \/ Empty(Settled) /\ Empty(buffer)
  <1>1. CASE NobodyWrites
    BY <1>1, NobodyWritesEmpty DEF IdleRing
  <1>2. CASE ~NobodyWrites
    <2>1. "flush" \in Ops[p] /\ \A q \in Procs : ProcInv(q)
      BY DEF DriverInv, ProcInv
    <2>2. "write" \in Ops[p]
      BY <1>2, <2>1 DEF NobodyWrites, SerialFlush
    <2>3. \A q \in Procs : q # p => pc[q] \notin {"f_free", "f_reset"} /\ pc[q] \notin AddLabels
      BY <2>1, <2>2 DEF SerialFlush, ProcInv, WriteLabels, WriteSection, AddLabels
    <2>4. \A q \in Procs : pc[q] \notin AddLabels /\ ~Resets(pc[q], frame[q])
      BY <2>3 DEF AddLabels, Resets
    <2>5. Settled = buffer
      BY <2>4, SettledQuiet, SettledForm
    <2> QED BY <2>3, <2>5
  <1> QED BY <1>1, <1>2

(* The block a merge frees is not one that a flush or rmmod gives back. *)
LEMMA MergeGivesNothingBack ==
  ASSUME NEW F, NEW x, NEW b
  PROVE  /\ GivenBack(F \cup {<<x, "merge">>}, b) <=> GivenBack(F, b)
         /\ GivenBack(F \ {<<x, "merge">>}, b) <=> GivenBack(F, b)
  BY DEF GivenBack

(* Every step preserves FreedInv, given the rest of MemoryInv. *)
LEMMA FreedStep ==
  ASSUME MemoryInv, SerialFlush, [Next]_vars
  PROVE  FreedInv'
  <1>1. DriverInv /\ HeldInv /\ IdleRing /\ FreedInv /\ DriverInv' /\ HeldInv' /\ SerialStep
    BY DriverStep, HeldStep DEF MemoryInv
  <1>2. /\ DOMAIN frame = Procs /\ pc \in [Procs -> Labels] /\ committed \in Nat
        /\ Settled \in Buffers(Nat) /\ buffer \in Buffers(Nat) /\ InUse
        /\ \A q \in Procs : ProcInv(q)
    BY <1>1 DEF DriverInv, LockInv, DeviceInv, HeldInv
  (* No memory given back, and the ring kept or emptied. *)
  <1>3. ASSUME committed' = committed, \A b : GivenBack(freed', b) <=> GivenBack(freed, b),
               loaded' /\ ~Flushing' => (loaded /\ ~Flushing) \/ Empty(Settled'),
               \A q \in Procs : pc'[q] = "f_free" =>
                 \/ pc[q] = "f_free" /\ frame'[q] = frame[q]
                 \/ loaded /\ ~Flushing
                 \/ Empty(Settled')
        PROVE  FreedInv'
    <2>1. CASE Empty(Settled')
      <3>1. \A i \in Slots : ~Occupied(Settled', i)
        BY <2>1, EmptyHoldsNothing
      <3> QED BY <1>1, <1>3, <3>1 DEF FreedInv
    <2>2. CASE Settled' = Settled /\ ~Empty(Settled')
      <3>1. \A b : GivenBack(freed', b) => b \in Nat /\ b < committed'
        BY <1>1, <1>3 DEF FreedInv
      <3>2. ASSUME loaded' /\ ~Flushing', NEW i \in Slots, Occupied(Settled', i)
            PROVE  ~GivenBack(freed', Settled'.entry[i].buffptr)
        BY <1>1, <1>3, <2>2, <3>2 DEF FreedInv
      <3>3. ASSUME NEW q \in Procs, pc'[q] = "f_free", NEW i \in Slots, Occupied(Settled', i),
                   i >= frame'[q].index
            PROVE  ~GivenBack(freed', Settled'.entry[i].buffptr)
        BY <1>1, <1>3, <2>2, <3>3 DEF FreedInv
      <3> QED BY <3>1, <3>2, <3>3 DEF FreedInv
    <2> QED BY <1>1, <1>2, <1>3, <2>1, <2>2, KeptOrEmptied
  <1>4. CASE UNCHANGED vars
    BY <1>3, <1>4 DEF vars, kernel, history, GivenBack, Flushing
  <1>5. ASSUME NEW p \in Procs, Ordinary(p) PROVE FreedInv'
    <2>1. /\ Others(p) /\ UNCHANGED <<committed, freed, loaded>>
          /\ pc[p] \notin {"f_free", "f_reset"} /\ pc'[p] \notin {"f_free", "f_reset"}
      BY <1>2, <1>5, OrdinaryStep
    <2>2. Flushing => Flushing'
      BY <2>1 DEF Others, Flushing
    <2>3. \A b : GivenBack(freed', b) <=> GivenBack(freed, b)
      BY <2>1 DEF GivenBack
    <2> QED BY <1>3, <2>1, <2>2, <2>3 DEF Others
  <1>6. ASSUME NEW p \in Procs, WriteMerge(p) \/ WriteKeepPartial(p) PROVE FreedInv'
    <2>1. /\ UNCHANGED <<committed, loaded>> /\ pc[p] \in {"w_merge", "w_test"}
          /\ frame' = frame \/ \E f : frame' = [frame EXCEPT ![p] = f]
          /\ \E l \in {"w_test", "w_unlock"} : pc' = [pc EXCEPT ![p] = l]
      BY <1>6 DEF WriteMerge, WriteKeepPartial, Step, Goto, kernel, history
    <2>2. Others(p) /\ pc'[p] \in {"w_test", "w_unlock"}
      BY <1>2, <2>1 DEF Others
    <2>3. \A b : GivenBack(freed', b) <=> GivenBack(freed, b)
      BY <1>6, MergeGivesNothingBack DEF WriteMerge, WriteKeepPartial, MergeFrees, kernel
    <2>4. Flushing => Flushing'
      BY <2>1, <2>2 DEF Others, Flushing
    <2> QED BY <1>3, <2>1, <2>2, <2>3, <2>4 DEF Others
  <1>7. ASSUME NEW p \in Procs, WriteCommit(p) PROVE FreedInv'
    <2>1. PICK n \in Nat \ {0} : Serial!Add(n)
      BY <1>1, <1>7, CommitAdds
    <2> DEFINE e == [buffptr |-> committed, size |-> n]
               k == Settled.in_offs
    <2>2. /\ e \in Entries(Nat) /\ e.buffptr = committed
          /\ Settled' = aesd_circular_buffer_add_entry(Settled, e)
          /\ committed \in Nat /\ committed' \in Nat /\ committed < committed'
      BY <1>1, <1>2, <2>1, AddedEntry
    <2> HIDE DEF e
    <2>3. /\ k \in Slots /\ Settled'.entry[k] = e
          /\ \A i \in Slots : i # k => Settled'.entry[i] = Settled.entry[i]
          /\ \A i \in Slots : Occupied(Settled', i) /\ i # k => Occupied(Settled, i)
      BY <1>2, <2>2, AddOccupies
    <2> HIDE DEF k
    <2>4. pc[p] = "w_test" /\ UNCHANGED <<loaded, freed>>
          /\ \E l \in {"w_drop", "w_size"} : pc' = [pc EXCEPT ![p] = l]
      BY <1>7 DEF WriteCommit, Step, Goto, kernel
    <2>5. loaded
      BY <1>2, <2>4 DEF InUse
    <2>6. \A q \in Procs : pc[q] \notin {"f_free", "f_reset"}
      BY <1>1, <2>4, Alone DEF WriteLabels, WriteSection
    <2>7. ~Flushing /\ \A q \in Procs : pc'[q] # "f_free"
      BY <1>2, <2>4, <2>6 DEF Flushing
    <2>8. \A b : GivenBack(freed', b) <=> GivenBack(freed, b)
      BY <2>4 DEF GivenBack
    <2>9. ASSUME NEW b, GivenBack(freed, b) PROVE b \in Nat /\ b < committed /\ b < committed'
      <3>1. b \in Nat /\ b < committed
        BY <1>1, <2>9 DEF FreedInv
      <3> QED BY <2>2, <3>1
    <2>10. ~GivenBack(freed, committed)
      BY <2>2, <2>9
    <2>11. ASSUME NEW i \in Slots, Occupied(Settled', i)
           PROVE  ~GivenBack(freed, Settled'.entry[i].buffptr)
      <3>1. CASE i = k
        BY <2>2, <2>3, <2>10, <3>1
      <3>2. CASE i # k
        BY <1>1, <2>3, <2>5, <2>7, <2>11, <3>2 DEF FreedInv
      <3> QED BY <3>1, <3>2
    <2> QED BY <2>7, <2>8, <2>9, <2>11 DEF FreedInv
  <1>8. ASSUME NEW p \in Procs, FlushCall(p) PROVE FreedInv'
    <2>1. /\ pc[p] = "idle" /\ open[p] /\ "flush" \in Ops[p]
          /\ pc' = [pc EXCEPT ![p] = "f_free"]
          /\ \E f : frame' = [frame EXCEPT ![p] = f]
          /\ UNCHANGED <<loaded, freed, committed>>
      BY <1>8 DEF FlushCall, Call, Goto, kernel, history
    <2>2. loaded /\ Others(p) /\ pc'[p] = "f_free"
      BY <1>2, <2>1 DEF InUse, Others
    <2>3. Flushing'
      BY <2>2 DEF Flushing
    <2>4. \A b : GivenBack(freed', b) <=> GivenBack(freed, b)
      BY <2>1 DEF GivenBack
    <2>5. CASE ~Flushing
      BY <1>3, <2>1, <2>2, <2>3, <2>4, <2>5
    <2>6. CASE Flushing
      <3>1. PICK q \in Procs : pc[q] \in {"f_free", "f_reset"}
        BY <2>6 DEF Flushing
      <3>2. NobodyWrites
        BY <1>2, <2>1, <3>1 DEF ProcInv, SerialFlush, NobodyWrites
      <3>3. Empty(Settled)
        BY <1>1, <3>2, NobodyWritesEmpty
      <3>4. Empty(Settled')
        BY <1>1, <1>2, <2>1, <3>3, KeptOrEmptied
      <3> QED BY <1>3, <2>1, <2>4, <3>4
    <2> QED BY <2>5, <2>6
  <1>9. ASSUME NEW p \in Procs, FlushFree(p) PROVE FreedInv'
    <2> DEFINE i == frame[p].index
               b == buffer.entry[i].buffptr
    <2>1. /\ pc[p] = "f_free" /\ UNCHANGED <<committed, loaded, buffer>>
          /\ freed' = IF i < buffer.in_offs THEN freed \cup {<<b, "flush">>} ELSE freed
          /\ frame' = [frame EXCEPT ![p].index = IF i + 1 = N THEN 1 ELSE i + 1]
          /\ pc' = [pc EXCEPT ![p] = IF i + 1 = N THEN "f_reset" ELSE "f_free"]
      BY <1>9 DEF FlushFree, Goto, device, history
    <2>2. frame[p] \in FlushFrames /\ i \in Nat
      BY <1>2, <2>1 DEF ProcInv, FlushFrames
    <2>3. /\ Others(p) /\ pc'[p] \in {"f_free", "f_reset"}
          /\ pc'[p] = "f_free" => frame'[p].index = i + 1
      BY <1>2, <2>1, <2>2 DEF Others, FlushFrames
    <2>4. Flushing'
      BY <2>3 DEF Flushing
    <2>5. CASE Empty(Settled) /\ Empty(buffer)
      <3>1. Empty(Settled')
        BY <1>1, <1>2, <2>1, <2>5, KeptOrEmptied
      <3>2. UNCHANGED freed
        BY <2>1, <2>2, <2>5 DEF Empty
      <3>3. \A c : GivenBack(freed', c) <=> GivenBack(freed, c)
        BY <3>2 DEF GivenBack
      <3> QED BY <1>3, <2>1, <3>1, <3>3
    <2>6. CASE Settled = buffer /\ \A q \in Procs : q # p => pc[q] \notin {"f_free", "f_reset"}
      <3>1. \A q \in Procs : q # p => pc'[q] # "f_free"
        BY <2>3, <2>6 DEF Others
      <3>2. CASE i >= buffer.in_offs
        <4>1. UNCHANGED freed
          BY <1>2, <2>1, <2>2, <3>2 DEF Buffers, Slots
        <4>2. \A c : GivenBack(freed', c) <=> GivenBack(freed, c)
          BY <4>1 DEF GivenBack
        <4>3. CASE Settled' = Settled
          <5>1. ASSUME pc'[p] = "f_free", NEW j \in Slots, Occupied(Settled', j), j >= frame'[p].index
                PROVE  ~GivenBack(freed', Settled'.entry[j].buffptr)
            <6>1. j >= i
              BY <2>2, <2>3, <5>1 DEF Slots
            <6> QED BY <1>1, <2>1, <4>2, <4>3, <5>1, <6>1 DEF FreedInv
          <5>2. \A c : GivenBack(freed', c) => c \in Nat /\ c < committed'
            BY <1>1, <2>1, <4>2 DEF FreedInv
          <5> QED BY <2>4, <3>1, <5>1, <5>2 DEF FreedInv
        <4>4. CASE Empty(Settled')
          BY <1>3, <2>1, <4>2, <4>4
        <4> QED BY <1>1, <1>2, <2>1, <4>3, <4>4, KeptOrEmptied
      <3>3. CASE i < buffer.in_offs
        <4>1. i \in Slots /\ Occupied(Settled, i) /\ b = Settled.entry[i].buffptr
          BY <1>2, <2>2, <2>6, <3>3, CapacityAssumption DEF Buffers, Slots, Occupied
        <4>2. b \in Nat /\ b < committed
          BY <1>1, <1>2, <4>1 DEF HeldInv, Buffers, Entries
        <4>3. freed' = freed \cup {<<b, "flush">>}
          BY <2>1, <3>3
        <4> HIDE DEF b
        <4>4. \A c : GivenBack(freed', c) <=> GivenBack(freed, c) \/ c = b
          BY <4>3 DEF GivenBack
        <4>5. \A c : GivenBack(freed', c) => c \in Nat /\ c < committed'
          BY <1>1, <2>1, <4>2, <4>4 DEF FreedInv
        <4>6. CASE Settled' = Settled
          <5>1. ASSUME pc'[p] = "f_free", NEW j \in Slots, Occupied(Settled', j), j >= frame'[p].index
                PROVE  ~GivenBack(freed', Settled'.entry[j].buffptr)
            <6>1. j >= i /\ j # i
              BY <2>2, <2>3, <5>1 DEF Slots
            <6>2. Settled.entry[j].buffptr # b
              BY <1>1, <4>1, <4>6, <5>1, <6>1 DEF HeldInv
            <6>3. ~GivenBack(freed, Settled.entry[j].buffptr)
              BY <1>1, <2>1, <4>6, <5>1, <6>1 DEF FreedInv
            <6> QED BY <4>4, <4>6, <6>2, <6>3
          <5> QED BY <2>4, <3>1, <4>5, <5>1 DEF FreedInv
        <4>7. CASE Empty(Settled')
          <5>1. \A j \in Slots : ~Occupied(Settled', j)
            BY <4>7, EmptyHoldsNothing
          <5> QED BY <4>5, <5>1 DEF FreedInv
        <4> QED BY <1>1, <1>2, <2>1, <4>6, <4>7, KeptOrEmptied
      <3> QED BY <1>2, <2>2, <3>2, <3>3 DEF Buffers, Slots
    <2> QED BY <1>1, <2>1, <2>5, <2>6, SettledWhileFreeing
  <1>10. ASSUME NEW p \in Procs, FlushReset(p) PROVE FreedInv'
    <2>1. /\ pc[p] = "f_reset" /\ UNCHANGED <<committed, loaded, freed>>
          /\ \E f : frame' = [frame EXCEPT ![p] = f]
          /\ \/ frame[p].index = 8 /\ pc' = [pc EXCEPT ![p] = "idle"]
             \/ frame[p].index # 8 /\ pc' = pc
      BY <1>10 DEF FlushReset, Return, Goto, kernel
    <2>2. Others(p) /\ pc'[p] # "f_free"
      BY <1>2, <2>1 DEF Others
    <2>3. \A c : GivenBack(freed', c) <=> GivenBack(freed, c)
      BY <2>1 DEF GivenBack
    <2>4. ASSUME ~Flushing' PROVE Empty(Settled')
      <3>1. frame[p].index = 8
        BY <1>2, <2>1, <2>4 DEF Flushing
      <3>2. Resets(pc[p], frame[p])
        BY <2>1, <3>1 DEF Resets
      <3>3. "flush" \in Ops[p]
        BY <1>2, <2>1 DEF ProcInv
      <3>4. \A q \in Procs : pc[q] \notin AddLabels
        BY <1>2, <2>1, <3>3 DEF SerialFlush, ProcInv, WriteLabels, WriteSection, AddLabels
      <3>5. Settled = ResetOffsets(buffer)
        BY <3>2, <3>4, SettledResetting, SettledForm
      <3>6. Empty(Settled)
        BY <1>2, <3>5, ResetOffsetsFields DEF Empty
      <3> QED BY <1>1, <1>2, <2>1, <3>6, KeptOrEmptied
    <2> QED BY <1>3, <2>1, <2>2, <2>3, <2>4 DEF Others
  <1>11. ASSUME NEW p \in Procs, aesd_cleanup_module(p) PROVE FreedInv'
    <2>1. /\ UNCHANGED <<committed, pc, frame>> /\ loaded' = FALSE
          /\ freed' = freed \cup {<<buffer.entry[i].buffptr, "rmmod">> : i \in 0 .. buffer.in_offs - 1}
          /\ \A q \in Procs : ~open[q]
      BY <1>11 DEF aesd_cleanup_module, Unused, history
    <2>2. \A q \in Procs : pc[q] \in {"idle", "dead"}
      BY <1>2, <2>1 DEF InUse
    <2>3. Settled = buffer
      BY <2>2, SettledQuiet, SettledForm DEF AddLabels, Resets
    <2>4. ASSUME NEW i \in 0 .. buffer.in_offs - 1
          PROVE  buffer.entry[i].buffptr \in Nat /\ buffer.entry[i].buffptr < committed
      <3>1. i \in Slots /\ i < buffer.in_offs
        BY <1>2, <2>4, CapacityAssumption DEF Buffers, Slots
      <3>2. Occupied(Settled, i)
        BY <2>3, <3>1 DEF Occupied
      <3> QED BY <1>1, <1>2, <2>3, <3>1, <3>2 DEF HeldInv, Buffers, Entries
    <2>5. ASSUME NEW c, GivenBack(freed', c) PROVE c \in Nat /\ c < committed'
      <3>1. GivenBack(freed, c) \/ \E i \in 0 .. buffer.in_offs - 1 : c = buffer.entry[i].buffptr
        BY <2>1, <2>5 DEF GivenBack
      <3> QED BY <1>1, <2>1, <2>4, <3>1 DEF FreedInv
    <2> QED BY <2>1, <2>2, <2>5 DEF FreedInv
  <1>12. ASSUME NEW p \in Procs, aesd_init_module(p) PROVE FreedInv'
    <2>1. UNCHANGED <<committed, pc, frame, freed>> /\ buffer' \in FreshBuffers
      BY <1>12 DEF aesd_init_module
    <2>2. \A q \in Procs : pc[q] \in {"idle", "dead"}
      BY <1>2, <1>12 DEF aesd_init_module, InUse
    <2>3. Settled' = buffer'
      BY <2>1, <2>2, SettledQuiet, SettledForm DEF AddLabels, Resets
    <2>4. Empty(Settled')
      BY <2>1, <2>3, FreshBuffer DEF Empty
    <2>5. \A c : GivenBack(freed', c) <=> GivenBack(freed, c)
      BY <2>1 DEF GivenBack
    <2> QED BY <1>3, <2>1, <2>4, <2>5
  <1>13. ASSUME NEW p \in Procs, Special(p) PROVE FreedInv'
    BY <1>6, <1>7, <1>8, <1>9, <1>10, <1>11, <1>12, <1>13 DEF Special
  <1> QED BY <1>4, <1>5, <1>13, NextSplit

(* MemoryInv is an invariant of the driver. *)
THEOREM MemoryInvariant == ASSUME SerialFlush PROVE Spec => []MemoryInv
  <1>1. Init => MemoryInv
    <2> SUFFICES ASSUME Init PROVE MemoryInv
      OBVIOUS
    <2>1. \A p \in Procs : pc[p] = "idle"
      BY DEF Init
    <2>2. Settled = buffer
      BY <2>1, SettledQuiet, SettledForm DEF AddLabels, Resets
    <2>3. buffer \in Buffers(Nat) /\ Empty(buffer) /\ buffer.out_offs = 0
      BY FreshBuffer DEF Init, Empty
    <2>4. \A i \in Slots : ~Occupied(Settled, i)
      BY <2>2, <2>3, EmptyHoldsNothing
    <2>5. \A b : ~GivenBack(freed, b)
      BY DEF Init, GivenBack
    <2>6. HeldInv
      BY <2>2, <2>3, <2>4 DEF HeldInv
    <2>7. FreedInv
      BY <2>4, <2>5 DEF FreedInv
    <2> QED BY <2>3, <2>6, <2>7, DriverInit DEF MemoryInv, IdleRing
  <1>2. MemoryInv /\ [Next]_vars => MemoryInv'
    BY DriverStep, HeldStep, IdleStep, FreedStep DEF MemoryInv
  <1> QED BY <1>1, <1>2, PTL DEF Spec

(* No entry the ring holds, outside a flush, points to memory that was     *)
(* given back.                                                             *)
THEOREM EntriesLiveHolds == ASSUME SerialFlush PROVE Spec => []EntriesLive
  <1>1. MemoryInv => EntriesLive
    <2> SUFFICES ASSUME MemoryInv, loaded, ~Flushing, NEW k \in 1 .. Serial!Count
                 PROVE  ~GivenBack(freed, Serial!Stored[k].buffptr)
      BY DEF EntriesLive, Released, GivenBack
    <2>1. /\ Settled.in_offs \in Slots /\ Settled.out_offs \in Slots
          /\ Settled.full \in BOOLEAN /\ (Settled.full \/ Settled.out_offs = 0)
      BY DEF MemoryInv, HeldInv, Buffers
    <2> DEFINE i == Serial!SlotAfter(Settled.out_offs, k - 1)
    <2>2. Serial!Stored[k] = Settled.entry[i]
      BY DEF Serial!Stored, Serial!EntryAt
    <2>3. Serial!Count = IF Settled.full THEN N ELSE Settled.in_offs
      BY DEF Serial!Count
    <2>4. k \in Nat /\ k - 1 \in Slots /\ (~Settled.full => k - 1 < Settled.in_offs)
      BY <2>1, <2>3, CapacityAssumption DEF Slots
    <2>5. i \in Slots /\ (~Settled.full => i < Settled.in_offs)
      BY <2>1, <2>4, CapacityAssumption DEF Slots, Serial!SlotAfter
    <2>6. Occupied(Settled, i)
      BY <2>5 DEF Occupied
    <2> HIDE DEF i
    <2> QED BY <2>2, <2>5, <2>6 DEF MemoryInv, FreedInv
  <1> QED BY <1>1, MemoryInvariant, PTL
=============================================================================
