-------------------------- MODULE AesdCharProofs --------------------------
(***************************************************************************)
(* For any number of processes, any capacity and any mix of calls: the     *)
(* driver's locking discipline.  LockInv is inductive; MutexDiscipline and *)
(* InUse need each other only in one place, the re-initialisation of the   *)
(* mutex when the module is loaded again, which is harmless because no     *)
(* call can be in progress then.                                           *)
(***************************************************************************)
EXTENDS AesdChar, TLAPS

(* The effect of one step of process p on its label and the mutex, in the  *)
(* four ways that keep the discipline.                                     *)
Moves(p, l) ==
  /\ p \in Procs /\ l \in Labels \ {"dead"} /\ open[p] /\ pc[p] # "dead"
  /\ pc' = [pc EXCEPT ![p] = l]
  /\ UNCHANGED <<loaded, open>>

StepOutside(p, l) ==
  Moves(p, l) /\ pc[p] \notin Critical /\ l \notin Critical /\ mutex' = mutex
StepInside(p, l) ==
  Moves(p, l) /\ pc[p] \in Critical /\ l \in Critical /\ mutex' = mutex
Enter(p, l) ==
  Moves(p, l) /\ pc[p] \notin Critical /\ l \in Critical /\ mutex = Free /\ mutex' = p
Leave(p, l) ==
  Moves(p, l) /\ pc[p] \in Critical /\ l \notin Critical /\ mutex' = Free

(* Moving a process on inside an open file does not disturb InUse. *)
LEMMA MovesKeepInUse ==
  ASSUME LockInv, NEW p, NEW l, Moves(p, l)
  PROVE  InUse' /\ pc' \in [Procs -> Labels] /\ open' \in [Procs -> BOOLEAN] /\ loaded' \in BOOLEAN
  BY DEF LockInv, Moves, InUse

(* A step outside the critical section that leaves the mutex alone. *)
LEMMA StepOutsideInv ==
  ASSUME LockInv, NEW p, NEW l, StepOutside(p, l)
  PROVE  LockInv'
  <1>1. InUse' /\ pc' \in [Procs -> Labels] /\ open' \in [Procs -> BOOLEAN] /\ loaded' \in BOOLEAN
    BY MovesKeepInUse DEF StepOutside
  <1>2. MutexDiscipline'
    BY DEF LockInv, StepOutside, Moves, MutexDiscipline
  <1> QED BY <1>1, <1>2 DEF LockInv, StepOutside

(* A step inside the critical section that leaves the mutex alone. *)
LEMMA StepInsideInv ==
  ASSUME LockInv, NEW p, NEW l, StepInside(p, l)
  PROVE  LockInv'
  <1>1. InUse' /\ pc' \in [Procs -> Labels] /\ open' \in [Procs -> BOOLEAN] /\ loaded' \in BOOLEAN
    BY MovesKeepInUse DEF StepInside
  <1>2. MutexDiscipline'
    BY DEF LockInv, StepInside, Moves, MutexDiscipline
  <1> QED BY <1>1, <1>2 DEF LockInv, StepInside

(* mutex_lock: the mutex was free, so nobody else was inside. *)
LEMMA EnterInv ==
  ASSUME LockInv, NEW p, NEW l, Enter(p, l)
  PROVE  LockInv'
  <1>1. InUse' /\ pc' \in [Procs -> Labels] /\ open' \in [Procs -> BOOLEAN] /\ loaded' \in BOOLEAN
    BY MovesKeepInUse DEF Enter
  <1>2. p \in Procs /\ mutex' = p
    BY DEF Enter, Moves
  <1>3. MutexDiscipline'
    BY DriverAssumption DEF LockInv, Enter, Moves, MutexDiscipline
  <1> QED BY <1>1, <1>2, <1>3 DEF LockInv

(* mutex_unlock by the process that is inside. *)
LEMMA LeaveInv ==
  ASSUME LockInv, NEW p, NEW l, Leave(p, l)
  PROVE  LockInv'
  <1>1. InUse' /\ pc' \in [Procs -> Labels] /\ open' \in [Procs -> BOOLEAN] /\ loaded' \in BOOLEAN
    BY MovesKeepInUse DEF Leave
  <1>2. MutexDiscipline'
    BY DriverAssumption DEF LockInv, Leave, Moves, MutexDiscipline
  <1> QED BY <1>1, <1>2 DEF LockInv, Leave

(* Every step that is not a call starts inside a call. *)
LEMMA BusyIsOpen ==
  ASSUME LockInv, NEW p \in Procs, pc[p] \notin {"idle", "dead"}
  PROVE  open[p]
  BY DEF LockInv, InUse

(* One step of one process preserves the invariant. *)
LEMMA ProcessStep ==
  ASSUME LockInv, NEW p \in Procs,
         \/ Write(p) \/ Read(p) \/ Llseek(p) \/ Ioctl(p)
         \/ aesd_open(p) \/ aesd_release(p) \/ aesd_cleanup_module(p) \/ aesd_init_module(p)
  PROVE  LockInv'
  <1>1. CASE \E d \in Payloads : WriteCall(p, d)
    <2>1. StepOutside(p, "w_check")
      BY <1>1 DEF WriteCall, Call, Goto, kernel, StepOutside, Moves, Labels, Critical, WriteSection, ReadSection
    <2> QED BY <2>1, StepOutsideInv
  <1>2. CASE WriteCheck(p)
    <2>1. open[p]
      BY <1>2, BusyIsOpen DEF WriteCheck, CheckUnlocked
    <2>2. StepOutside(p, "idle") \/ StepOutside(p, "w_lock")
      BY <1>2, <2>1 DEF LockInv, WriteCheck, CheckUnlocked, Return, Goto, kernel, StepOutside, Moves, Labels, Critical, WriteSection, ReadSection
    <2> QED BY <2>2, StepOutsideInv
  <1>3. CASE WriteLock(p)
    <2>1. open[p]
      BY <1>3, BusyIsOpen DEF WriteLock, Lock, Step
    <2>2. Enter(p, "w_merge")
      BY <1>3, <2>1 DEF WriteLock, Lock, Lockable, Step, Goto, kernel, Enter, Moves, Labels, Critical, WriteSection, ReadSection
    <2> QED BY <2>2, EnterInv
  <1>4. CASE WriteMerge(p)
    <2>1. open[p]
      BY <1>4, BusyIsOpen DEF WriteMerge, Step
    <2>2. StepInside(p, "w_test")
      BY <1>4, <2>1 DEF WriteMerge, Step, Goto, StepInside, Moves, Labels, Critical, WriteSection, ReadSection
    <2> QED BY <2>2, StepInsideInv
  <1>5. CASE WriteKeepPartial(p)
    <2>1. open[p]
      BY <1>5, BusyIsOpen DEF WriteKeepPartial, Step
    <2>2. StepInside(p, "w_unlock")
      BY <1>5, <2>1 DEF WriteKeepPartial, kernel, Step, Goto, StepInside, Moves, Labels, Critical, WriteSection, ReadSection
    <2> QED BY <2>2, StepInsideInv
  <1>6. CASE WriteCommit(p)
    <2>1. open[p]
      BY <1>6, BusyIsOpen DEF WriteCommit, Step
    <2>2. StepInside(p, "w_drop") \/ StepInside(p, "w_size")
      BY <1>6, <2>1 DEF WriteCommit, kernel, Step, Goto, StepInside, Moves, Labels, Critical, WriteSection, ReadSection
    <2> QED BY <2>2, StepInsideInv
  <1>7. CASE WriteDrop(p)
    <2>1. open[p]
      BY <1>7, BusyIsOpen DEF WriteDrop, AddStep, Step
    <2>2. StepInside(p, "w_size")
      BY <1>7, <2>1 DEF WriteDrop, AddStep, kernel, Step, Goto, StepInside, Moves, Labels, Critical, WriteSection, ReadSection
    <2> QED BY <2>2, StepInsideInv
  <1>8. CASE WriteSize(p)
    <2>1. open[p]
      BY <1>8, BusyIsOpen DEF WriteSize, AddStep, Step
    <2>2. StepInside(p, "w_store")
      BY <1>8, <2>1 DEF WriteSize, AddStep, kernel, Step, Goto, StepInside, Moves, Labels, Critical, WriteSection, ReadSection
    <2> QED BY <2>2, StepInsideInv
  <1>9. CASE WriteStore(p)
    <2>1. open[p]
      BY <1>9, BusyIsOpen DEF WriteStore, AddStep, Step
    <2>2. StepInside(p, "w_in")
      BY <1>9, <2>1 DEF WriteStore, AddStep, kernel, Step, Goto, StepInside, Moves, Labels, Critical, WriteSection, ReadSection
    <2> QED BY <2>2, StepInsideInv
  <1>10. CASE WriteIn(p)
    <2>1. open[p]
      BY <1>10, BusyIsOpen DEF WriteIn, AddStep, Step
    <2>2. StepInside(p, "w_out") \/ StepInside(p, "w_unlock")
      BY <1>10, <2>1 DEF WriteIn, AddStep, kernel, Step, Goto, StepInside, Moves, Labels, Critical, WriteSection, ReadSection
    <2> QED BY <2>2, StepInsideInv
  <1>11. CASE WriteOut(p)
    <2>1. open[p]
      BY <1>11, BusyIsOpen DEF WriteOut, AddStep, Step
    <2>2. StepInside(p, "w_unlock")
      BY <1>11, <2>1 DEF WriteOut, AddStep, kernel, Step, Goto, StepInside, Moves, Labels, Critical, WriteSection, ReadSection
    <2> QED BY <2>2, StepInsideInv
  <1>12. CASE WriteUnlock(p)
    <2>1. open[p]
      BY <1>12, BusyIsOpen DEF WriteUnlock, Unlock, Step
    <2>2. Leave(p, "w_recheck")
      BY <1>12, <2>1 DEF WriteUnlock, Unlock, Unlocked, Step, Goto, kernel, Leave, Moves, Labels, Critical, WriteSection, ReadSection
    <2> QED BY <2>2, LeaveInv
  <1>13. CASE WriteRecheck(p)
    <2>1. open[p]
      BY <1>13, BusyIsOpen DEF WriteRecheck
    <2>2. StepOutside(p, "idle")
      BY <1>13, <2>1 DEF LockInv, WriteRecheck, Return, Goto, kernel, StepOutside, Moves, Labels, Critical, WriteSection, ReadSection
    <2> QED BY <2>2, StepOutsideInv
  <1>14. CASE \E c \in Counts : ReadCall(p, c)
    <2>1. StepOutside(p, "r_check")
      BY <1>14 DEF ReadCall, Call, Goto, kernel, StepOutside, Moves, Labels, Critical, WriteSection, ReadSection
    <2> QED BY <2>1, StepOutsideInv
  <1>15. CASE ReadCheck(p)
    <2>1. open[p]
      BY <1>15, BusyIsOpen DEF ReadCheck, CheckUnlocked
    <2>2. StepOutside(p, "idle") \/ StepOutside(p, "r_lock")
      BY <1>15, <2>1 DEF LockInv, ReadCheck, CheckUnlocked, Return, Goto, kernel, StepOutside, Moves, Labels, Critical, WriteSection, ReadSection
    <2> QED BY <2>2, StepOutsideInv
  <1>16. CASE ReadLock(p)
    <2>1. open[p]
      BY <1>16, BusyIsOpen DEF ReadLock, Lock, Step
    <2>2. Enter(p, "r_eof")
      BY <1>16, <2>1 DEF ReadLock, Lock, Lockable, Step, Goto, kernel, Enter, Moves, Labels, Critical, WriteSection, ReadSection
    <2> QED BY <2>2, EnterInv
  <1>17. CASE ReadEof(p)
    <2>1. open[p]
      BY <1>17, BusyIsOpen DEF ReadEof
    <2>2. Leave(p, "idle") \/ StepInside(p, "r_seek")
      BY <1>17, <2>1 DEF ReadEof, EofReturn, Return, Goto, kernel, Leave, StepInside, Moves, Labels, Critical, WriteSection, ReadSection
    <2> QED BY <2>2, LeaveInv, StepInsideInv
  <1>18. CASE ReadSeek(p)
    <2>1. open[p]
      BY <1>18, BusyIsOpen DEF ReadSeek, Step
    <2>2. StepInside(p, "r_clear") \/ StepInside(p, "r_copy")
      BY <1>18, <2>1 DEF ReadSeek, kernel, Step, Goto, StepInside, Moves, Labels, Critical, WriteSection, ReadSection
    <2> QED BY <2>2, StepInsideInv
  <1>19. CASE ReadClear(p)
    <2>1. open[p]
      BY <1>19, BusyIsOpen DEF ReadClear, Step
    <2>2. StepInside(p, "r_copy")
      BY <1>19, <2>1 DEF ReadClear, kernel, Step, Goto, StepInside, Moves, Labels, Critical, WriteSection, ReadSection
    <2> QED BY <2>2, StepInsideInv
  <1>20. CASE ReadCopy(p)
    <2>1. open[p]
      BY <1>20, BusyIsOpen DEF ReadCopy, Step
    <2>2. StepInside(p, "r_unlock")
      BY <1>20, <2>1 DEF ReadCopy, kernel, Step, Goto, StepInside, Moves, Labels, Critical, WriteSection, ReadSection
    <2> QED BY <2>2, StepInsideInv
  <1>21. CASE ReadUnlock(p)
    <2>1. open[p]
      BY <1>21, BusyIsOpen DEF ReadUnlock, Unlock, Step
    <2>2. Leave(p, "r_recheck")
      BY <1>21, <2>1 DEF ReadUnlock, Unlock, Unlocked, Step, Goto, kernel, Leave, Moves, Labels, Critical, WriteSection, ReadSection
    <2> QED BY <2>2, LeaveInv
  <1>22. CASE ReadRecheck(p)
    <2>1. open[p]
      BY <1>22, BusyIsOpen DEF ReadRecheck, CheckUnlocked
    <2>2. StepOutside(p, "idle") \/ StepOutside(p, "r_advance")
      BY <1>22, <2>1 DEF LockInv, ReadRecheck, CheckUnlocked, Return, Goto, kernel, StepOutside, Moves, Labels, Critical, WriteSection, ReadSection
    <2> QED BY <2>2, StepOutsideInv
  <1>23. CASE ReadAdvance(p)
    <2>1. open[p]
      BY <1>23, BusyIsOpen DEF ReadAdvance
    <2>2. StepOutside(p, "idle")
      BY <1>23, <2>1 DEF LockInv, ReadAdvance, Return, Goto, StepOutside, Moves, Labels, Critical, WriteSection, ReadSection
    <2> QED BY <2>2, StepOutsideInv
  <1>24. CASE \E s \in Seeks : SeektoCall(p, s)
    <2>1. StepOutside(p, "s_sum")
      BY <1>24 DEF SeektoCall, Call, Goto, kernel, StepOutside, Moves, Labels, Critical, WriteSection, ReadSection
    <2> QED BY <2>1, StepOutsideInv
  <1>25. CASE SeektoSum(p)
    <2>1. open[p]
      BY <1>25, BusyIsOpen DEF SeektoSum
    <2>2. StepOutside(p, "s_sum") \/ StepOutside(p, "s_flag")
      BY <1>25, <2>1 DEF LockInv, SeektoSum, Goto, kernel, StepOutside, Moves, Labels, Critical, WriteSection, ReadSection
    <2> QED BY <2>2, StepOutsideInv
  <1>26. CASE SeektoFlag(p)
    <2>1. open[p]
      BY <1>26, BusyIsOpen DEF SeektoFlag
    <2>2. StepOutside(p, "idle")
      BY <1>26, <2>1 DEF LockInv, SeektoFlag, Return, Goto, kernel, StepOutside, Moves, Labels, Critical, WriteSection, ReadSection
    <2> QED BY <2>2, StepOutsideInv
  <1>27. CASE FlushCall(p)
    <2>1. StepOutside(p, "f_free")
      BY <1>27 DEF FlushCall, Call, Goto, kernel, StepOutside, Moves, Labels, Critical, WriteSection, ReadSection
    <2> QED BY <2>1, StepOutsideInv
  <1>28. CASE FlushFree(p)
    <2>1. open[p]
      BY <1>28, BusyIsOpen DEF FlushFree
    <2>2. StepOutside(p, "f_free") \/ StepOutside(p, "f_reset")
      BY <1>28, <2>1 DEF LockInv, FlushFree, Goto, StepOutside, Moves, Labels, Critical, WriteSection, ReadSection
    <2> QED BY <2>2, StepOutsideInv
  <1>29. CASE FlushReset(p)
    <2>1. open[p]
      BY <1>29, BusyIsOpen DEF FlushReset
    <2>2. StepOutside(p, "f_reset") \/ StepOutside(p, "idle")
      BY <1>29, <2>1 DEF LockInv, FlushReset, Return, Goto, kernel, StepOutside, Moves, Labels, Critical, WriteSection, ReadSection
    <2> QED BY <2>2, StepOutsideInv
  <1>30. CASE Llseek(p)
    BY <1>30 DEF Llseek, LockInv, MutexDiscipline, InUse
  <1>31. CASE aesd_open(p)
    BY <1>31 DEF aesd_open, LockInv, MutexDiscipline, InUse
  <1>32. CASE aesd_release(p)
    BY <1>32 DEF aesd_release, LockInv, MutexDiscipline, InUse
  <1>33. CASE aesd_cleanup_module(p)
    BY <1>33 DEF aesd_cleanup_module, Unused, LockInv, MutexDiscipline, InUse
  <1>34. CASE aesd_init_module(p)
    <2>1. \A q \in Procs : pc[q] \in {"idle", "dead"}
      BY <1>34 DEF aesd_init_module, LockInv, InUse
    <2>2. MutexDiscipline'
      BY <1>34, <2>1, DriverAssumption
         DEF aesd_init_module, LockInv, MutexDiscipline, Labels, Critical, WriteSection, ReadSection
    <2>3. InUse'
      BY <1>34, <2>1 DEF aesd_init_module, LockInv, InUse
    <2> QED BY <1>34, <2>2, <2>3 DEF aesd_init_module, LockInv
  <1>35. CASE WriteOops(p)
    <2>1. /\ pc[p] = "w_merge" /\ pc' = [pc EXCEPT ![p] = "dead"]
          /\ open' = [open EXCEPT ![p] = FALSE] /\ UNCHANGED <<mutex, loaded>>
      BY <1>35 DEF WriteOops, Step, Goto
    <2>2. mutex = p
      BY <2>1 DEF LockInv, MutexDiscipline, Critical, WriteSection
    <2>3. MutexDiscipline'
      BY <2>1, <2>2 DEF LockInv, MutexDiscipline, Critical, WriteSection, ReadSection
    <2>4. InUse'
      BY <2>1 DEF LockInv, InUse
    <2> QED BY <2>1, <2>3, <2>4 DEF LockInv, Labels
  <1> QED
    BY <1>1, <1>2, <1>3, <1>4, <1>5, <1>6, <1>7, <1>8, <1>9, <1>10, <1>11,
       <1>12, <1>13, <1>14, <1>15, <1>16, <1>17, <1>18, <1>19, <1>20, <1>21,
       <1>22, <1>23, <1>24, <1>25, <1>26, <1>27, <1>28, <1>29, <1>30, <1>31,
       <1>32, <1>33, <1>34, <1>35
       DEF Write, Read, Ioctl

(* Every step preserves it. *)
LEMMA LockStep ==
  ASSUME LockInv, [Next]_vars
  PROVE  LockInv'
  <1>1. CASE Next
    BY <1>1, ProcessStep DEF Next
  <1>2. CASE UNCHANGED vars
    BY <1>2 DEF vars, kernel, LockInv, MutexDiscipline, InUse
  <1> QED BY <1>1, <1>2

(* LockInv is an invariant of the driver. *)
THEOREM LockInvariant == Spec => []LockInv
  <1>1. Init => LockInv
    BY DriverAssumption
       DEF Init, LockInv, MutexDiscipline, InUse, Labels, Critical, WriteSection, ReadSection
  <1>2. LockInv /\ [Next]_vars => LockInv'
    BY LockStep
  <1> QED BY <1>1, <1>2, PTL DEF Spec

(* Whoever executes between mutex_lock and mutex_unlock in aesd_read or    *)
(* aesd_write holds the mutex, and the mutex is held by nobody else: for   *)
(* any number of processes and on every path, error returns included.      *)
THEOREM MutexDisciplineHolds == Spec => []MutexDiscipline
  <1>1. LockInv => MutexDiscipline
    BY DEF LockInv
  <1> QED BY <1>1, LockInvariant, PTL

(* Two processes are never inside the critical section together. *)
THEOREM MutualExclusion ==
  Spec => [](\A p, q \in Procs : pc[p] \in Critical /\ pc[q] \in Critical => p = q)
  <1>1. LockInv => (\A p, q \in Procs : pc[p] \in Critical /\ pc[q] \in Critical => p = q)
    BY DEF LockInv, MutexDiscipline
  <1> QED BY <1>1, LockInvariant, PTL

(* A process killed between mutex_lock and mutex_unlock keeps every other  *)
(* one out of the critical section, so that only a flush, which takes no   *)
(* lock, still changes the ring, until the module is loaded again.         *)
THEOREM DeathFreezesLogHolds == Spec => DeathFreezesLog
  <1>1. ASSUME LockInv, [Next]_vars, NEW p \in Procs, pc[p] = "dead", mutex = p, loaded, loaded'
        PROVE  mutex' = p /\ (buffer' = buffer \/ Flushing)
    <2>1. mutex # Free /\ \A q \in Procs : pc[q] \notin Critical
      BY <1>1, DriverAssumption DEF LockInv, MutexDiscipline, Critical, WriteSection, ReadSection
    <2> USE DEF Critical, WriteSection, ReadSection, device
    <2>2. ASSUME NEW q \in Procs, Write(q) PROVE UNCHANGED <<mutex, buffer>>
      <3>1. CASE WriteCheck(q) \/ WriteRecheck(q) \/ \E d \in Payloads : WriteCall(q, d)
        BY <3>1 DEF WriteCheck, CheckUnlocked, WriteRecheck, WriteCall
      <3>2. ~WriteLock(q)
        BY <2>1 DEF WriteLock, Lock, Lockable
      <3>3. pc[q] \notin WriteSection
        BY <2>1
      <3>4. ~(WriteMerge(q) \/ WriteOops(q) \/ WriteKeepPartial(q) \/ WriteCommit(q) \/ WriteUnlock(q))
        BY <3>3 DEF WriteMerge, WriteOops, WriteKeepPartial, WriteCommit, WriteUnlock, Unlock, Step
      <3>5. ~(WriteDrop(q) \/ WriteSize(q) \/ WriteStore(q) \/ WriteIn(q) \/ WriteOut(q))
        BY <3>3 DEF WriteDrop, WriteSize, WriteStore, WriteIn, WriteOut, AddStep, Step
      <3> QED BY <2>2, <3>1, <3>2, <3>4, <3>5 DEF Write
    <2>3. ASSUME NEW q \in Procs, Read(q) PROVE UNCHANGED <<mutex, buffer>>
      <3>1. CASE ReadCheck(q) \/ ReadRecheck(q) \/ ReadAdvance(q) \/ \E c \in Counts : ReadCall(q, c)
        BY <3>1 DEF ReadCheck, CheckUnlocked, ReadRecheck, ReadAdvance, ReadCall
      <3>2. ~ReadLock(q)
        BY <2>1 DEF ReadLock, Lock, Lockable
      <3>3. pc[q] \notin ReadSection
        BY <2>1
      <3>4. ~(ReadEof(q) \/ ReadSeek(q) \/ ReadClear(q) \/ ReadCopy(q) \/ ReadUnlock(q))
        BY <3>3 DEF ReadEof, ReadSeek, ReadClear, ReadCopy, ReadUnlock, Unlock, Step
      <3> QED BY <2>3, <3>1, <3>2, <3>4 DEF Read
    <2>4. ASSUME NEW q \in Procs, Ioctl(q) PROVE mutex' = mutex /\ (buffer' = buffer \/ Flushing)
      <3>1. CASE SeektoSum(q) \/ SeektoFlag(q) \/ FlushCall(q) \/ FlushFree(q)
        BY <3>1 DEF SeektoSum, SeektoFlag, FlushCall, FlushFree
      <3>2. CASE \E s \in Seeks : SeektoCall(q, s)
        BY <3>2 DEF SeektoCall
      <3>3. CASE FlushReset(q)
        BY <3>3 DEF FlushReset, Flushing
      <3> QED BY <2>4, <3>1, <3>2, <3>3 DEF Ioctl
    <2>5. ASSUME NEW q \in Procs,
                 Llseek(q) \/ aesd_open(q) \/ aesd_release(q) \/ aesd_cleanup_module(q)
          PROVE UNCHANGED <<mutex, buffer>>
      BY <2>5 DEF Llseek, aesd_open, aesd_release, aesd_cleanup_module
    <2>6. \A q \in Procs : ~aesd_init_module(q)
      BY <1>1 DEF aesd_init_module
    <2>7. CASE UNCHANGED vars
      BY <1>1, <2>7 DEF vars
    <2> QED BY <1>1, <2>2, <2>3, <2>4, <2>5, <2>6, <2>7 DEF Next
  <1>2. LockInv /\ [Next]_vars =>
          [\A p \in Procs : pc[p] = "dead" /\ mutex = p /\ loaded /\ loaded' =>
             mutex' = p /\ (buffer' = buffer \/ Flushing)]_vars
    BY <1>1
  <1> QED BY <1>2, LockInvariant, PTL DEF Spec, DeathFreezesLog
=============================================================================
