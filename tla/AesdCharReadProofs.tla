------------------------ MODULE AesdCharReadProofs ------------------------
(***************************************************************************)
(* The driver's types and the size of tmp, for any processes and calls,    *)
(* and what its readers get: the bytes that a read returns are those of    *)
(* the stream at its file position, and no file gets a byte twice.         *)
(***************************************************************************)
EXTENDS AesdCharRingProofs

-----------------------------------------------------------------------------
(* Types.  The locals of a call are those of the place it is at. *)

ReadLabels == ReadSection \cup {"r_check", "r_lock", "r_recheck", "r_advance"}

Fits(l, f) ==
  /\ l \in WriteLabels => f \in WriteFrames
  /\ l \in ReadLabels => f \in ReadFrames
  /\ l \in {"s_sum", "s_flag"} => f \in SeektoFrames
  /\ l \in {"f_free", "f_reset"} => f \in FlushFrames

CallsOK ==
  /\ pc \in [Procs -> Labels] /\ frame \in [Procs -> Frames]
  /\ \A p \in Procs : Fits(pc[p], frame[p])
DeviceOK ==
  /\ mutex \in Procs \cup {Free} /\ buffer \in Buffers(Nat)
  /\ partial \in BOOLEAN /\ partial_entry \in Entries(Nat)
  /\ seek \in BOOLEAN /\ seekto_position \in Nat
KernelOK ==
  /\ loaded \in BOOLEAN /\ open \in [Procs -> BOOLEAN]
  /\ f_pos \in [Procs -> Nat] /\ freed \subseteq Nat \X Freers
HistoryOK ==
  received \in Nat /\ committed \in Nat /\ delivered \in [Procs -> Nat]

(* Inductive. *)
TypeInv == CallsOK /\ DeviceOK /\ KernelOK /\ HistoryOK

(* A step of one process. *)
LEMMA CallStep ==
  ASSUME CallsOK, NEW p \in Procs, NEW l \in Labels, NEW f \in Frames, Fits(l, f),
         pc' = [pc EXCEPT ![p] = l], frame' = [frame EXCEPT ![p] = f]
  PROVE  CallsOK'
  <1>1. pc' \in [Procs -> Labels] /\ frame' \in [Procs -> Frames]
    BY DEF CallsOK
  <1>2. \A q \in Procs : /\ pc'[q] = IF q = p THEN l ELSE pc[q]
                         /\ frame'[q] = IF q = p THEN f ELSE frame[q]
    BY DEF CallsOK
  <1>3. \A q \in Procs : Fits(pc'[q], frame'[q])
    BY <1>2, Zenon DEF CallsOK
  <1> QED BY <1>1, <1>3 DEF CallsOK

(* ... that keeps its locals. *)
LEMMA CallMoves ==
  ASSUME CallsOK, NEW p \in Procs, NEW l \in Labels, Fits(l, frame[p]),
         pc' = [pc EXCEPT ![p] = l], frame' = frame
  PROVE  CallsOK'
  <1>1. frame[p] \in Frames /\ frame' = [frame EXCEPT ![p] = frame[p]]
    BY DEF CallsOK
  <1> QED BY <1>1, CallStep

(* ... that returns, or dies. *)
LEMMA CallEnds ==
  ASSUME CallsOK, NEW p \in Procs, NEW l \in {"idle", "dead"},
         pc' = [pc EXCEPT ![p] = l], frame' = [frame EXCEPT ![p] = NoCall]
  PROVE  CallsOK'
  <1>1. l \in Labels /\ NoCall \in Frames
    BY DEF Labels, Frames
  <1>2. Fits(l, NoCall)
    BY DEF Fits, WriteLabels, WriteSection, ReadLabels, ReadSection
  <1> QED BY <1>1, <1>2, CallStep

(* Parts that a step leaves alone. *)
LEMMA Unchanged ==
  /\ CallsOK /\ UNCHANGED <<pc, frame>> => CallsOK'
  /\ DeviceOK /\ UNCHANGED <<mutex, device>> => DeviceOK'
  /\ KernelOK /\ UNCHANGED kernel => KernelOK'
  /\ HistoryOK /\ UNCHANGED history => HistoryOK'
  BY DEF CallsOK, DeviceOK, KernelOK, HistoryOK, device, kernel, history

(* The settled ring is a ring, whoever is in add_entry or flushes. *)
LEMMA SettledType == ASSUME CallsOK, DeviceOK PROVE Settled \in Buffers(Nat)
  <1>1. buffer \in Buffers(Nat)
    BY DEF DeviceOK
  <1>2. ASSUME NEW p \in Procs, pc[p] \in AddLabels PROVE Finish(pc[p], frame[p], buffer) \in Buffers(Nat)
    <2> DEFINE f == frame[p]
    <2>1. f \in WriteFrames
      BY <1>2 DEF CallsOK, Fits, AddLabels, WriteLabels, WriteSection
    <2>2. f.entry \in Entries(Nat) /\ f.was_full \in BOOLEAN
      BY <2>1 DEF WriteFrames
    <2> HIDE DEF f
    <2>3. ASSUME NEW b \in Buffers(Nat) PROVE Out(f, b) \in Buffers(Nat)
      BY <2>2, AdvanceOutFields DEF Out
    <2>4. ASSUME NEW b \in Buffers(Nat) PROVE AdvanceIn(b, f.was_full) \in Buffers(Nat)
      <3>1. Succ(b.in_offs) \in Slots
        BY SuccIsSlot DEF Buffers
      <3>2. (b.full \/ (~f.was_full /\ b.in_offs + 1 = N)) \in BOOLEAN
        BY Zenon
      <3> QED BY <3>1, <3>2 DEF AdvanceIn, Buffers
    <2>5. ASSUME NEW b \in Buffers(Nat) PROVE In(f, b) \in Buffers(Nat)
      BY <2>3, <2>4 DEF In
    <2>6. ASSUME NEW b \in Buffers(Nat) PROVE Store(f, b) \in Buffers(Nat)
      BY <2>2, <2>5, StoreEntryFields DEF Store
    <2>7. ASSUME NEW b \in Buffers(Nat) PROVE Size(f, b) \in Buffers(Nat)
      BY <2>2, <2>6, AddNewSizeFields DEF Size
    <2>8. DropOldSize(buffer) \in Buffers(Nat)
      BY <1>1, DropOldSizeFields
    <2>9. /\ pc[p] = "w_drop" => Finish(pc[p], f, buffer) = Size(f, DropOldSize(buffer))
          /\ pc[p] = "w_size" => Finish(pc[p], f, buffer) = Size(f, buffer)
          /\ pc[p] = "w_store" => Finish(pc[p], f, buffer) = Store(f, buffer)
          /\ pc[p] = "w_in" => Finish(pc[p], f, buffer) = In(f, buffer)
          /\ pc[p] = "w_out" => Finish(pc[p], f, buffer) = Out(f, buffer)
      BY DEF Finish
    <2>10. Finish(pc[p], f, buffer) \in Buffers(Nat)
      BY <1>1, <1>2, <2>3, <2>5, <2>6, <2>7, <2>8, <2>9 DEF AddLabels
    <2> QED BY <2>10 DEF f
  <1>3. CASE \E p \in Procs : pc[p] \in AddLabels
    <2> DEFINE A == {p \in Procs : pc[p] \in AddLabels}
               a == CHOOSE p \in A : TRUE
    <2>1. A # {} /\ a \in A
      BY <1>3
    <2>2. SettledOf(buffer, pc, frame) = Finish(pc[a], frame[a], buffer)
      <3> HIDE DEF a
      <3>1. A # {}
        BY <2>1
      <3> HIDE DEF A
      <3> QED BY <3>1 DEF SettledOf, A, a
    <2>3. a \in Procs /\ pc[a] \in AddLabels
      BY <2>1
    <2> HIDE DEF A, a
    <2> QED BY <1>2, <2>2, <2>3, SettledForm
  <1>4. CASE \A p \in Procs : pc[p] \notin AddLabels
    <2>1. CASE \E q \in Procs : Resets(pc[q], frame[q])
      BY <1>1, <1>4, <2>1, SettledResetting, SettledForm, ResetOffsetsFields
    <2>2. CASE \A q \in Procs : ~Resets(pc[q], frame[q])
      BY <1>1, <1>4, <2>2, SettledQuiet, SettledForm
    <2> QED BY <2>1, <2>2
  <1> QED BY <1>3, <1>4

(* The stream position of its oldest byte. *)
LEMMA OldestType == ASSUME CallsOK, DeviceOK, HistoryOK PROVE Serial!Oldest \in Nat
  <1>1. Settled \in Buffers(Nat) /\ committed \in Nat /\ N \in Nat /\ N > 0
    BY SettledType, CapacityAssumption DEF HistoryOK
  <1>2. Settled.out_offs \in Slots /\ Slots = 0 .. N - 1
    BY <1>1 DEF Buffers, Slots
  <1>3. Serial!SlotAfter(Settled.out_offs, 0) \in Slots
    BY <1>1, <1>2 DEF Serial!SlotAfter
  <1>4. Serial!EntryAt(0).buffptr \in Nat
    BY <1>1, <1>3 DEF Serial!EntryAt, Buffers, Entries
  <1> QED BY <1>1, <1>4 DEF Serial!Oldest

(* ... in this state and in the next. *)
OldestOK == Serial!Oldest \in Nat

(* The types give it in the next state too. *)
LEMMA OldestTypeNext == TypeInv' => OldestOK'
  <1>1. TypeInv => OldestOK
    BY OldestType DEF TypeInv, OldestOK
  <1> QED BY <1>1, PTL

(* The steps of a write.  Those of add_entry assign to the ring. *)
LEMMA WriteTypes == ASSUME TypeInv, NEW p \in Procs, Write(p) PROVE TypeInv'
  <1> DEFINE f == frame[p]
  <1>0. CallsOK /\ DeviceOK /\ KernelOK /\ HistoryOK
    BY DEF TypeInv
  <1>1. pc[p] \in WriteLabels => f \in WriteFrames
    BY <1>0 DEF CallsOK, Fits
  <1>2. \A l \in {"w_check", "w_lock"} \cup WriteSection :
          /\ l \in Labels
          /\ \A g \in WriteFrames : g \in Frames /\ Fits(l, g)
    BY DEF Labels, Critical, Frames, Fits, WriteLabels, WriteSection, ReadLabels, ReadSection
  <1>3. ASSUME NEW d \in Payloads, WriteCall(p, d) PROVE TypeInv'
    <2> DEFINE g == [op |-> "write", count |-> d.count, nl |-> d.nl,
                     tmp_size |-> TmpSize(d.count), write_size |-> d.count,
                     was_full |-> FALSE, entry |-> NoEntry]
    <2>1. /\ pc' = [pc EXCEPT ![p] = "w_check"] /\ frame' = [frame EXCEPT ![p] = g]
          /\ UNCHANGED <<mutex, device, kernel, history>>
      BY <1>3 DEF WriteCall, Call, Goto
    <2>2. g \in WriteFrames
      <3>1. d.count \in Nat /\ d.nl \in BOOLEAN /\ TmpSize(d.count) \in Nat
        BY <1>0, DriverAssumption DEF TmpSize, DeviceOK, Entries
      <3>2. NoEntry \in Entries(Nat)
        BY DEF NoEntry, Entries
      <3> QED BY <3>1, <3>2 DEF WriteFrames
    <2> HIDE DEF g
    <2>3. CallsOK'
      BY <1>0, <1>2, <2>1, <2>2, CallStep
    <2> QED BY <1>0, <2>1, <2>3, Unchanged DEF TypeInv
  <1>4. CASE WriteCheck(p)
    <2>1. /\ pc[p] = "w_check" /\ UNCHANGED <<mutex, device, kernel, history>>
          /\ \/ pc' = [pc EXCEPT ![p] = "idle"] /\ frame' = [frame EXCEPT ![p] = NoCall]
             \/ pc' = [pc EXCEPT ![p] = "w_lock"] /\ frame' = frame
      BY <1>4 DEF WriteCheck, CheckUnlocked, Return, Goto
    <2>2. f \in WriteFrames
      BY <1>1, <2>1 DEF WriteLabels
    <2>3. CallsOK'
      BY <1>0, <1>2, <2>1, <2>2, CallMoves, CallEnds
    <2> QED BY <1>0, <2>1, <2>3, Unchanged DEF TypeInv
  <1>5. CASE WriteLock(p) \/ WriteUnlock(p)
    <2>1. /\ pc[p] \in WriteLabels /\ UNCHANGED <<frame, device, kernel, history>>
          /\ \/ pc' = [pc EXCEPT ![p] = "w_merge"] /\ mutex' = p
             \/ pc' = [pc EXCEPT ![p] = "w_recheck"] /\ mutex' = Free
      BY <1>5 DEF WriteLock, WriteUnlock, Lock, Unlock, Unlocked, Step, Goto, WriteLabels, WriteSection
    <2>2. f \in WriteFrames
      BY <1>1, <2>1
    <2>3. "w_recheck" \in Labels /\ Fits("w_recheck", f)
      BY DEF Labels, Fits, WriteLabels, WriteSection, ReadLabels, ReadSection
    <2>4. "w_merge" \in Labels /\ Fits("w_merge", f)
      BY <1>2, <2>2 DEF WriteSection
    <2>5. CallsOK'
      BY <1>0, <2>1, <2>3, <2>4, CallMoves
    <2>6. DeviceOK'
      BY <1>0, <2>1 DEF DeviceOK, device
    <2> QED BY <1>0, <2>1, <2>5, <2>6, Unchanged DEF TypeInv
  <1>6. CASE WriteMerge(p)
    <2> DEFINE n == f.write_size + (IF partial THEN partial_entry.size ELSE 0)
               g == [f EXCEPT !.write_size = n]
    <2>1. /\ pc[p] = "w_merge" /\ pc' = [pc EXCEPT ![p] = "w_test"] /\ frame' = [frame EXCEPT ![p] = g]
          /\ freed' = MergeFrees /\ received' = received + f.count
          /\ UNCHANGED <<mutex, device, loaded, open, f_pos, committed, delivered>>
      BY <1>6 DEF WriteMerge, Step, Goto
    <2>2. f \in WriteFrames /\ f.count \in Nat /\ f.write_size \in Nat /\ partial_entry.size \in Nat
      BY <1>0, <1>1, <2>1 DEF WriteLabels, WriteSection, WriteFrames, DeviceOK, Entries
    <2>3. n \in Nat
      BY <2>2
    <2> HIDE DEF n
    <2>4. g \in WriteFrames
      BY <2>2, <2>3 DEF WriteFrames
    <2> HIDE DEF g
    <2>5. CallsOK'
      BY <1>0, <1>2, <2>1, <2>4, CallStep DEF WriteSection
    <2>6. KernelOK'
      <3>1. <<committed, "merge">> \in Nat \X Freers
        BY <1>0 DEF HistoryOK, Freers
      <3>2. MergeFrees \subseteq Nat \X Freers
        BY <1>0, <3>1 DEF MergeFrees, KernelOK
      <3> QED BY <1>0, <2>1, <3>2 DEF KernelOK
    <2>7. HistoryOK'
      BY <1>0, <2>1, <2>2 DEF HistoryOK
    <2> QED BY <1>0, <2>1, <2>5, <2>6, <2>7, Unchanged DEF TypeInv
  <1>7. CASE WriteOops(p)
    <2>1. /\ pc' = [pc EXCEPT ![p] = "dead"] /\ frame' = [frame EXCEPT ![p] = NoCall]
          /\ open' = [open EXCEPT ![p] = FALSE]
          /\ UNCHANGED <<mutex, device, loaded, f_pos, freed, history>>
      BY <1>7 DEF WriteOops, Step, Goto
    <2>2. CallsOK'
      BY <1>0, <2>1, CallEnds
    <2>3. KernelOK'
      BY <1>0, <2>1 DEF KernelOK
    <2> QED BY <1>0, <2>1, <2>2, <2>3, Unchanged DEF TypeInv
  <1>8. CASE WriteKeepPartial(p)
    <2>1. /\ pc[p] = "w_test" /\ pc' = [pc EXCEPT ![p] = "w_unlock"] /\ frame' = frame
          /\ partial' = TRUE /\ partial_entry' = [buffptr |-> committed, size |-> f.write_size]
          /\ UNCHANGED <<mutex, buffer, seek, seekto_position, kernel, history>>
      BY <1>8 DEF WriteKeepPartial, Step, Goto, KeptEntry
    <2>2. f \in WriteFrames /\ f.write_size \in Nat
      BY <1>1, <2>1 DEF WriteLabels, WriteSection, WriteFrames
    <2>3. CallsOK'
      BY <1>0, <1>2, <2>1, <2>2, CallMoves DEF WriteSection
    <2>4. DeviceOK'
      <3>1. partial_entry' \in Entries(Nat)
        BY <1>0, <2>1, <2>2 DEF HistoryOK, Entries
      <3>2. partial' \in BOOLEAN
        BY <2>1, Zenon
      <3> QED BY <1>0, <2>1, <3>1, <3>2 DEF DeviceOK
    <2> QED BY <1>0, <2>1, <2>3, <2>4, Unchanged DEF TypeInv
  <1>9. CASE WriteCommit(p)
    <2> DEFINE e == [buffptr |-> committed, size |-> f.write_size]
               g == [f EXCEPT !.was_full = buffer.full, !.entry = e]
               l == IF buffer.full THEN "w_drop" ELSE "w_size"
    <2>1. /\ pc[p] = "w_test" /\ pc' = [pc EXCEPT ![p] = l] /\ frame' = [frame EXCEPT ![p] = g]
          /\ partial' = FALSE /\ committed' = committed + f.write_size
          /\ UNCHANGED <<mutex, buffer, partial_entry, seek, seekto_position, kernel, received, delivered>>
      BY <1>9 DEF WriteCommit, Step, Goto
    <2>2. f \in WriteFrames /\ f.write_size \in Nat /\ buffer.full \in BOOLEAN /\ committed \in Nat
      BY <1>0, <1>1, <2>1 DEF WriteLabels, WriteSection, WriteFrames, DeviceOK, Buffers, HistoryOK
    <2>3. e \in Entries(Nat) /\ l \in WriteSection
      BY <2>2 DEF Entries, WriteSection
    <2> HIDE DEF e, l
    <2>4. g \in WriteFrames
      BY <2>2, <2>3 DEF WriteFrames
    <2> HIDE DEF g
    <2>5. CallsOK'
      BY <1>0, <1>2, <2>1, <2>3, <2>4, CallStep
    <2>6. DeviceOK'
      <3>1. partial' \in BOOLEAN
        BY <2>1, Zenon
      <3> QED BY <1>0, <2>1, <3>1 DEF DeviceOK
    <2>7. HistoryOK'
      BY <1>0, <2>1, <2>2 DEF HistoryOK
    <2> QED BY <1>0, <2>1, <2>5, <2>6, <2>7, Unchanged DEF TypeInv
  <1>10. CASE WriteDrop(p) \/ WriteSize(p) \/ WriteStore(p) \/ WriteIn(p) \/ WriteOut(p)
    <2>1. /\ pc[p] \in AddLabels /\ \E l \in WriteSection : pc' = [pc EXCEPT ![p] = l]
          /\ UNCHANGED <<mutex, partial, partial_entry, seek, seekto_position, kernel, frame, history>>
          /\ \/ buffer' = DropOldSize(buffer)
             \/ buffer' = AddNewSize(buffer, f.entry)
             \/ buffer' = StoreEntry(buffer, f.entry)
             \/ buffer' = AdvanceIn(buffer, f.was_full)
             \/ buffer' = AdvanceOut(buffer)
      BY <1>10 DEF WriteDrop, WriteSize, WriteStore, WriteIn, WriteOut, AddStep, Step, Goto, AddLabels, WriteSection
    <2>2. f \in WriteFrames /\ f.entry \in Entries(Nat) /\ f.was_full \in BOOLEAN /\ buffer \in Buffers(Nat)
      BY <1>0, <1>1, <2>1 DEF WriteLabels, WriteSection, AddLabels, WriteFrames, DeviceOK
    <2>3. CallsOK'
      BY <1>0, <1>2, <2>1, <2>2, CallMoves
    <2>4. AdvanceIn(buffer, f.was_full) \in Buffers(Nat)
      <3>1. Succ(buffer.in_offs) \in Slots
        BY <2>2, SuccIsSlot DEF Buffers
      <3>2. (buffer.full \/ (~f.was_full /\ buffer.in_offs + 1 = N)) \in BOOLEAN
        BY Zenon
      <3> QED BY <2>2, <3>1, <3>2 DEF AdvanceIn, Buffers
    <2>5. buffer' \in Buffers(Nat)
      <3>1. DropOldSize(buffer) \in Buffers(Nat) /\ AdvanceOut(buffer) \in Buffers(Nat)
        BY <2>2, DropOldSizeFields, AdvanceOutFields
      <3>2. AddNewSize(buffer, f.entry) \in Buffers(Nat) /\ StoreEntry(buffer, f.entry) \in Buffers(Nat)
        BY <2>2, AddNewSizeFields, StoreEntryFields
      <3> QED BY <2>1, <2>4, <3>1, <3>2
    <2>6. DeviceOK'
      BY <1>0, <2>1, <2>5 DEF DeviceOK
    <2> QED BY <1>0, <2>1, <2>3, <2>6, Unchanged DEF TypeInv
  <1>11. CASE WriteRecheck(p)
    <2>1. /\ pc' = [pc EXCEPT ![p] = "idle"] /\ frame' = [frame EXCEPT ![p] = NoCall]
          /\ UNCHANGED <<mutex, device, kernel, history>>
      BY <1>11 DEF WriteRecheck, Return, Goto
    <2>2. CallsOK'
      BY <1>0, <2>1, CallEnds
    <2> QED BY <1>0, <2>1, <2>2, Unchanged DEF TypeInv
  <1> QED BY <1>3, <1>4, <1>5, <1>6, <1>7, <1>8, <1>9, <1>10, <1>11 DEF Write

(* The steps of a read. *)
LEMMA ReadTypes == ASSUME TypeInv, NEW p \in Procs, Read(p) PROVE TypeInv'
  <1> DEFINE f == frame[p]
  <1>0. CallsOK /\ DeviceOK /\ KernelOK /\ HistoryOK
    BY DEF TypeInv
  <1>1. pc[p] \in ReadLabels => f \in ReadFrames
    BY <1>0 DEF CallsOK, Fits
  <1>2. \A l \in ReadLabels : l \in Labels /\ \A g \in ReadFrames : g \in Frames /\ Fits(l, g)
    BY DEF Labels, Critical, Frames, Fits, WriteLabels, WriteSection, ReadLabels, ReadSection
  <1>3. ASSUME NEW c \in Counts, ReadCall(p, c) PROVE TypeInv'
    <2> DEFINE g == [op |-> "read", count |-> c, pos |-> f_pos[p], data |-> << >>, from |-> 0,
                     inside |-> FALSE, exact |-> FALSE]
    <2>1. /\ pc' = [pc EXCEPT ![p] = "r_check"] /\ frame' = [frame EXCEPT ![p] = g]
          /\ UNCHANGED <<mutex, device, kernel, history>>
      BY <1>3 DEF ReadCall, Call, Goto
    <2>2. g \in ReadFrames
      <3>1. c \in Nat /\ f_pos[p] \in Nat
        BY <1>0, DriverAssumption DEF KernelOK
      <3>2. << >> \in Seq(Nat \X Nat) /\ 0 \in Nat
        OBVIOUS
      <3>3. FALSE \in BOOLEAN
        BY Zenon
      <3> QED BY <3>1, <3>2, <3>3 DEF ReadFrames
    <2> HIDE DEF g
    <2>3. CallsOK'
      BY <1>0, <1>2, <2>1, <2>2, CallStep DEF ReadLabels
    <2> QED BY <1>0, <2>1, <2>3, Unchanged DEF TypeInv
  <1>4. CASE ReadCheck(p) \/ ReadRecheck(p)
    <2>1. /\ pc[p] \in ReadLabels /\ UNCHANGED <<mutex, device, kernel, history>>
          /\ \/ pc' = [pc EXCEPT ![p] = "idle"] /\ frame' = [frame EXCEPT ![p] = NoCall]
             \/ \E l \in ReadLabels : pc' = [pc EXCEPT ![p] = l] /\ frame' = frame
      BY <1>4 DEF ReadCheck, ReadRecheck, CheckUnlocked, Return, Goto, ReadLabels
    <2>2. f \in ReadFrames
      BY <1>1, <2>1
    <2>3. CallsOK'
      BY <1>0, <1>2, <2>1, <2>2, CallMoves, CallEnds
    <2> QED BY <1>0, <2>1, <2>3, Unchanged DEF TypeInv
  <1>5. CASE ReadLock(p) \/ ReadUnlock(p)
    <2>1. /\ pc[p] \in ReadLabels /\ UNCHANGED <<frame, device, kernel, history>>
          /\ \E l \in ReadLabels : pc' = [pc EXCEPT ![p] = l]
          /\ mutex' = p \/ mutex' = Free
      BY <1>5 DEF ReadLock, ReadUnlock, Lock, Unlock, Unlocked, Step, Goto, ReadLabels, ReadSection
    <2>2. f \in ReadFrames
      BY <1>1, <2>1
    <2>3. CallsOK'
      BY <1>0, <1>2, <2>1, <2>2, CallMoves
    <2>4. DeviceOK'
      BY <1>0, <2>1 DEF DeviceOK, device
    <2> QED BY <1>0, <2>1, <2>3, <2>4, Unchanged DEF TypeInv
  <1>6. CASE ReadEof(p)
    <2>1. /\ pc[p] \in ReadLabels /\ UNCHANGED <<device, kernel, history>>
          /\ \/ pc' = [pc EXCEPT ![p] = "idle"] /\ frame' = [frame EXCEPT ![p] = NoCall]
             \/ \E l \in ReadLabels : pc' = [pc EXCEPT ![p] = l] /\ frame' = frame
          /\ mutex' = mutex \/ mutex' = Free
      BY <1>6 DEF ReadEof, EofReturn, Return, Goto, ReadLabels, ReadSection
    <2>2. f \in ReadFrames
      BY <1>1, <2>1
    <2>3. CallsOK'
      BY <1>0, <1>2, <2>1, <2>2, CallMoves, CallEnds
    <2>4. DeviceOK'
      BY <1>0, <2>1 DEF DeviceOK, device
    <2> QED BY <1>0, <2>1, <2>3, <2>4, Unchanged DEF TypeInv
  <1>7. CASE ReadSeek(p)
    <2> DEFINE n == IF seek THEN seekto_position ELSE f.pos
               g == [f EXCEPT !.pos = n]
    <2>1. /\ pc[p] = "r_seek" /\ UNCHANGED <<mutex, device, kernel, history>>
          /\ \E l \in ReadLabels : pc' = [pc EXCEPT ![p] = l]
          /\ frame' = [frame EXCEPT ![p] = g]
      BY <1>7 DEF ReadSeek, Step, Goto, ReadLabels, ReadSection
    <2>2. f \in ReadFrames /\ n \in Nat
      BY <1>0, <1>1, <2>1 DEF ReadLabels, ReadSection, ReadFrames, DeviceOK
    <2> HIDE DEF n
    <2>3. g \in ReadFrames
      BY <2>2 DEF ReadFrames
    <2> HIDE DEF g
    <2>4. CallsOK'
      BY <1>0, <1>2, <2>1, <2>3, CallStep
    <2> QED BY <1>0, <2>1, <2>4, Unchanged DEF TypeInv
  <1>8. CASE ReadClear(p)
    <2>1. /\ pc[p] \in ReadLabels /\ \E l \in ReadLabels : pc' = [pc EXCEPT ![p] = l]
          /\ seek' = FALSE
          /\ UNCHANGED <<mutex, buffer, partial, partial_entry, seekto_position, kernel, frame, history>>
      BY <1>8 DEF ReadClear, Step, Goto, ReadLabels, ReadSection
    <2>2. f \in ReadFrames
      BY <1>1, <2>1
    <2>3. CallsOK'
      BY <1>0, <1>2, <2>1, <2>2, CallMoves
    <2>4. DeviceOK'
      <3>1. seek' \in BOOLEAN
        BY <2>1, Zenon
      <3> QED BY <1>0, <2>1, <3>1 DEF DeviceOK
    <2> QED BY <1>0, <2>1, <2>3, <2>4, Unchanged DEF TypeInv
  <1>9. CASE ReadCopy(p)
    <2> DEFINE d == read_entries(buffer, f.pos, f.count)
               o == Serial!Oldest + f.pos
               i == f.pos < buffer.total_size
               x == Serial!ExactCopy(f.pos, f.count)
               g == [f EXCEPT !.data = d, !.from = o, !.inside = i, !.exact = x]
    <2>1. /\ pc[p] = "r_copy" /\ UNCHANGED <<mutex, device, kernel, history>>
          /\ pc' = [pc EXCEPT ![p] = "r_unlock"]
          /\ frame' = [frame EXCEPT ![p] = g]
      BY <1>9 DEF ReadCopy, Step, Goto
    <2>2. f \in ReadFrames /\ f.pos \in Nat /\ f.count \in Nat /\ buffer \in Buffers(Nat)
      BY <1>0, <1>1, <2>1 DEF ReadLabels, ReadSection, ReadFrames, DeviceOK
    <2>3. d \in Seq(Nat \X Nat)
      BY <2>2, ReadEntriesType
    <2>4. o \in Nat
      BY <1>0, <2>2, OldestType
    <2>5. x \in BOOLEAN
      BY Zenon DEF Serial!ExactCopy
    <2>6. i \in BOOLEAN
      OBVIOUS
    <2> HIDE DEF d, o, x, i
    <2>7. g \in ReadFrames
      BY <2>2, <2>3, <2>4, <2>5, <2>6 DEF ReadFrames
    <2> HIDE DEF g
    <2>8. CallsOK'
      BY <1>0, <1>2, <2>1, <2>7, CallStep DEF ReadLabels, ReadSection
    <2> QED BY <1>0, <2>1, <2>8, Unchanged DEF TypeInv
  <1>10. CASE ReadAdvance(p)
    <2> DEFINE n == IF f.pos < buffer.total_size THEN Len(f.data) ELSE 0
               w == f.data[n][1] + f.data[n][2] + 1
               v == CASE n > 0 -> w
                      [] n = 0 /\ f.pos # f_pos[p] -> 0
                      [] OTHER -> delivered[p]
    <2>1. /\ pc[p] = "r_advance" /\ UNCHANGED <<mutex, device, loaded, open, freed, received, committed>>
          /\ pc' = [pc EXCEPT ![p] = "idle"] /\ frame' = [frame EXCEPT ![p] = NoCall]
          /\ f_pos' = [f_pos EXCEPT ![p] = f.pos + n]
          /\ delivered' = [delivered EXCEPT ![p] = v]
      BY <1>10 DEF ReadAdvance, Return, Goto, NewPos
    <2>2. f.pos \in Nat /\ f.data \in Seq(Nat \X Nat)
      BY <1>0, <1>1, <2>1 DEF ReadLabels, ReadSection, ReadFrames
    <2>3. n \in Nat /\ n <= Len(f.data)
      BY <2>2
    <2>4. v \in Nat
      <3>1. CASE n > 0
        <4>1. f.data[n] \in Nat \X Nat
          <5>1. n \in 1 .. Len(f.data)
            BY <2>2, <2>3, <3>1
          <5> QED BY <5>1, <2>2
        <4>2. w \in Nat
          <5> DEFINE byte == f.data[n]
          <5>1. byte \in Nat \X Nat
            BY <4>1
          <5> HIDE DEF byte
          <5>2. byte[1] + byte[2] + 1 \in Nat
            BY <5>1
          <5> HIDE DEF f, n
          <5> QED BY <5>2 DEF byte
        <4> HIDE DEF n, w
        <4>3. n # 0
          BY <2>3, <3>1
        <4> QED BY <3>1, <4>2, <4>3
      <3>2. CASE ~(n > 0)
        <4>1. delivered[p] \in Nat
          BY <1>0 DEF HistoryOK
        <4> HIDE DEF n
        <4>2. n = 0
          BY <2>3, <3>2
        <4>3. v = 0 \/ v = delivered[p]
          BY <4>2
        <4> QED BY <4>1, <4>3
      <3> QED BY <3>1, <3>2
    <2> HIDE DEF n, w, v
    <2>5. CallsOK'
      BY <1>0, <2>1, CallEnds
    <2>6. KernelOK' /\ HistoryOK'
      BY <1>0, <2>1, <2>2, <2>3, <2>4 DEF KernelOK, HistoryOK
    <2> QED BY <1>0, <2>1, <2>5, <2>6, Unchanged DEF TypeInv
  <1> QED BY <1>3, <1>4, <1>5, <1>6, <1>7, <1>8, <1>9, <1>10 DEF Read

(* The steps of the ioctls. *)
LEMMA IoctlTypes == ASSUME TypeInv, NEW p \in Procs, Ioctl(p) PROVE TypeInv'
  <1> DEFINE f == frame[p]
  <1>0. CallsOK /\ DeviceOK /\ KernelOK /\ HistoryOK
    BY DEF TypeInv
  <1>1. /\ pc[p] \in {"s_sum", "s_flag"} => f \in SeektoFrames
        /\ pc[p] \in {"f_free", "f_reset"} => f \in FlushFrames
    BY <1>0 DEF CallsOK, Fits
  <1>2. /\ \A l \in {"s_sum", "s_flag"} : l \in Labels /\ \A g \in SeektoFrames : g \in Frames /\ Fits(l, g)
        /\ \A l \in {"f_free", "f_reset"} : l \in Labels /\ \A g \in FlushFrames : g \in Frames /\ Fits(l, g)
    BY DEF Labels, Frames, Fits, WriteLabels, WriteSection, ReadLabels, ReadSection
  <1>3. ASSUME NEW s \in Seeks, SeektoCall(p, s) PROVE TypeInv'
    <2> DEFINE g == [op |-> "seekto", cmd |-> s.cmd, off |-> s.off, index |-> 0, new_pos |-> 0]
    <2>1. /\ pc' = [pc EXCEPT ![p] = "s_sum"] /\ frame' = [frame EXCEPT ![p] = g]
          /\ UNCHANGED <<mutex, device, kernel, history>>
      BY <1>3 DEF SeektoCall, Call, Goto
    <2>2. g \in SeektoFrames
      BY DriverAssumption DEF aesd_seekto, SeektoFrames
    <2> HIDE DEF g
    <2>3. CallsOK'
      BY <1>0, <1>2, <2>1, <2>2, CallStep
    <2> QED BY <1>0, <2>1, <2>3, Unchanged DEF TypeInv
  <1>4. CASE SeektoSum(p)
    <2>1. f \in SeektoFrames /\ f.index \in Nat /\ f.new_pos \in Nat /\ f.off \in Nat
      BY <1>1, <1>4 DEF SeektoSum, SeektoFrames
    <2>2. UNCHANGED <<mutex, buffer, partial, partial_entry, seek, kernel, history>>
      BY <1>4 DEF SeektoSum
    <2>3. CASE /\ \E size \in IF f.index \in Slots THEN {buffer.entry[f.index].size} ELSE Garbage :
                    frame' = [frame EXCEPT ![p].new_pos = @ + size, ![p].index = @ + 1]
               /\ UNCHANGED <<pc, seekto_position>>
      <3>1. PICK size \in (IF f.index \in Slots THEN {buffer.entry[f.index].size} ELSE Garbage) :
              frame' = [frame EXCEPT ![p].new_pos = @ + size, ![p].index = @ + 1]
        BY <2>3
      <3> DEFINE np == f.new_pos + size
                 ni == f.index + 1
                 g  == [f EXCEPT !.new_pos = np, !.index = ni]
      <3>2. frame' = [frame EXCEPT ![p] = g]
        BY <3>1
      <3>3. size \in Nat
        <4>1. CASE f.index \in Slots
          <5>1. buffer.entry[f.index] \in Entries(Nat)
            BY <1>0, <4>1 DEF DeviceOK, Buffers
          <5> QED BY <3>1, <4>1, <5>1 DEF Entries
        <4>2. CASE f.index \notin Slots
          BY <3>1, <4>2, DriverAssumption
        <4> QED BY <4>1, <4>2
      <3>4. g \in SeektoFrames
        <4>1. np \in Nat /\ ni \in Nat
          BY <2>1, <3>3
        <4> HIDE DEF np, ni
        <4> QED BY <2>1, <4>1 DEF SeektoFrames
      <3> HIDE DEF g
      <3>5. pc[p] = "s_sum" /\ pc' = [pc EXCEPT ![p] = "s_sum"]
        BY <1>0, <1>4, <2>3 DEF SeektoSum, CallsOK
      <3>6. CallsOK'
        BY <1>0, <1>2, <3>2, <3>4, <3>5, CallStep
      <3> QED BY <1>0, <2>2, <2>3, <3>6, Unchanged DEF TypeInv, device
    <2>4. CASE seekto_position' = f.new_pos + f.off /\ Goto(p, "s_flag") /\ UNCHANGED frame
      <3>1. CallsOK'
        BY <1>0, <1>2, <2>1, <2>4, CallMoves DEF Goto
      <3>2. DeviceOK'
        BY <1>0, <2>1, <2>2, <2>4 DEF DeviceOK
      <3> QED BY <1>0, <2>2, <3>1, <3>2, Unchanged DEF TypeInv
    <2> QED BY <1>4, <2>3, <2>4 DEF SeektoSum
  <1>5. CASE SeektoFlag(p)
    <2>1. /\ pc' = [pc EXCEPT ![p] = "idle"] /\ frame' = [frame EXCEPT ![p] = NoCall]
          /\ seek' = TRUE
          /\ UNCHANGED <<mutex, buffer, partial, partial_entry, seekto_position, kernel, history>>
      BY <1>5 DEF SeektoFlag, Return, Goto
    <2>2. CallsOK'
      BY <1>0, <2>1, CallEnds
    <2>3. DeviceOK'
      <3>1. seek' \in BOOLEAN
        BY <2>1, Zenon
      <3> QED BY <1>0, <2>1, <3>1 DEF DeviceOK
    <2> QED BY <1>0, <2>1, <2>2, <2>3, Unchanged DEF TypeInv
  <1>6. CASE FlushCall(p)
    <2> DEFINE g == [op |-> "flush", index |-> 0]
    <2>1. /\ pc' = [pc EXCEPT ![p] = "f_free"] /\ frame' = [frame EXCEPT ![p] = g]
          /\ UNCHANGED <<mutex, device, kernel, history>>
      BY <1>6 DEF FlushCall, Call, Goto
    <2>2. g \in FlushFrames
      BY DEF FlushFrames
    <2> HIDE DEF g
    <2>3. CallsOK'
      BY <1>0, <1>2, <2>1, <2>2, CallStep
    <2> QED BY <1>0, <2>1, <2>3, Unchanged DEF TypeInv
  <1>7. CASE FlushFree(p)
    <2> DEFINE i == f.index
               j == IF i + 1 = N THEN 1 ELSE i + 1
               l == IF i + 1 = N THEN "f_reset" ELSE "f_free"
               g == [f EXCEPT !.index = j]
    <2>1. /\ pc[p] = "f_free" /\ pc' = [pc EXCEPT ![p] = l] /\ frame' = [frame EXCEPT ![p] = g]
          /\ freed' = IF i < buffer.in_offs THEN freed \cup {<<buffer.entry[i].buffptr, "flush">>} ELSE freed
          /\ UNCHANGED <<mutex, device, loaded, open, f_pos, history>>
      BY <1>7 DEF FlushFree, Goto
    <2>2. f \in FlushFrames /\ i \in Nat
      BY <1>1, <2>1 DEF FlushFrames
    <2>3. j \in Nat /\ l \in {"f_free", "f_reset"}
      BY <2>2
    <2> HIDE DEF j, l
    <2>4. g \in FlushFrames
      BY <2>2, <2>3 DEF FlushFrames
    <2> HIDE DEF g
    <2>5. CallsOK'
      BY <1>0, <1>2, <2>1, <2>3, <2>4, CallStep
    <2>6. KernelOK'
      <3>1. CASE i < buffer.in_offs
        <4>1. i \in Slots
          <5>1. buffer.in_offs \in 0 .. N - 1 /\ N \in Nat
            BY <1>0, CapacityAssumption DEF DeviceOK, Buffers, Slots
          <5> HIDE DEF i
          <5> QED BY <2>2, <3>1, <5>1 DEF Slots
        <4>2. buffer.entry[i].buffptr \in Nat
          BY <1>0, <4>1 DEF DeviceOK, Buffers, Entries
        <4>3. <<buffer.entry[i].buffptr, "flush">> \in Nat \X Freers
          BY <4>2 DEF Freers
        <4> QED BY <1>0, <2>1, <3>1, <4>3 DEF KernelOK
      <3>2. CASE ~(i < buffer.in_offs)
        BY <1>0, <2>1, <3>2 DEF KernelOK
      <3> QED BY <3>1, <3>2
    <2> QED BY <1>0, <2>1, <2>5, <2>6, Unchanged DEF TypeInv
  <1>8. CASE FlushReset(p)
    <2> DEFINE i == f.index
               g == [f EXCEPT !.index = i + 1]
    <2>1. /\ pc[p] = "f_reset"
          /\ partial_entry' = IF i = 1 THEN [partial_entry EXCEPT !.size = 0] ELSE partial_entry
          /\ partial' = (partial /\ i # 2)
          /\ received' = IF i = 2 THEN committed ELSE received
          /\ seekto_position' = IF i = 3 THEN 0 ELSE seekto_position
          /\ seek' = (seek /\ i # 4)
          /\ buffer' = FlushRing(buffer, i)
          /\ \/ pc' = [pc EXCEPT ![p] = "idle"] /\ frame' = [frame EXCEPT ![p] = NoCall]
             \/ pc' = pc /\ frame' = [frame EXCEPT ![p] = g]
          /\ UNCHANGED <<mutex, kernel, committed, delivered>>
      BY <1>8 DEF FlushReset, Return, Goto
    <2>2. f \in FlushFrames /\ i \in Nat
      BY <1>1, <2>1 DEF FlushFrames
    <2>3. g \in FlushFrames
      BY <2>2 DEF FlushFrames
    <2> HIDE DEF g
    <2>4. CallsOK'
      <3>1. CASE pc' = [pc EXCEPT ![p] = "idle"] /\ frame' = [frame EXCEPT ![p] = NoCall]
        BY <1>0, <3>1, CallEnds
      <3>2. CASE pc' = pc /\ frame' = [frame EXCEPT ![p] = g]
        <4>1. pc' = [pc EXCEPT ![p] = "f_reset"]
          BY <1>0, <2>1, <3>2 DEF CallsOK
        <4> QED BY <1>0, <1>2, <2>3, <3>2, <4>1, CallStep
      <3> QED BY <2>1, <3>1, <3>2
    <2>5. buffer' \in Buffers(Nat)
      <3>1. CASE i \in 1 .. 8
        BY <1>0, <2>1, <3>1, FlushRingFields DEF DeviceOK
      <3>2. CASE i \notin 1 .. 8
        <4>1. i \notin 5 .. 8
          BY <3>2
        <4> QED BY <1>0, <2>1, <4>1 DEF FlushRing, DeviceOK
      <3> QED BY <3>1, <3>2
    <2>6. partial' \in BOOLEAN /\ seek' \in BOOLEAN
      BY <2>1, Zenon
    <2>7. partial_entry' \in Entries(Nat) /\ seekto_position' \in Nat
      BY <1>0, <2>1 DEF DeviceOK, Entries
    <2>8. DeviceOK' /\ HistoryOK'
      BY <1>0, <2>1, <2>5, <2>6, <2>7 DEF DeviceOK, HistoryOK
    <2> QED BY <1>0, <2>1, <2>4, <2>8, Unchanged DEF TypeInv
  <1> QED BY <1>3, <1>4, <1>5, <1>6, <1>7, <1>8 DEF Ioctl

(* Files and the module. *)
LEMMA FileTypes ==
  ASSUME TypeInv, NEW p \in Procs,
         Llseek(p) \/ aesd_open(p) \/ aesd_release(p) \/ aesd_cleanup_module(p) \/ aesd_init_module(p)
  PROVE  TypeInv'
  <1>0. CallsOK /\ DeviceOK /\ KernelOK /\ HistoryOK
    BY DEF TypeInv
  <1>1. CASE Llseek(p)
    <2>1. PICK offset \in Offsets, base \in {0, f_pos[p], buffer.total_size} :
            generic_file_llseek_size(p, base + offset)
      BY <1>1 DEF Llseek
    <2> DEFINE pos == base + offset
    <2>2. pos \in Nat
      BY <2>1, DriverAssumption DEF generic_file_llseek_size
    <2>3. /\ f_pos' = [f_pos EXCEPT ![p] = pos]
          /\ delivered' = [delivered EXCEPT ![p] = IF pos = f_pos[p] THEN @ ELSE 0]
          /\ UNCHANGED <<mutex, device, loaded, open, freed, pc, frame, received, committed>>
      BY <1>1, <2>1 DEF Llseek, generic_file_llseek_size
    <2> HIDE DEF pos
    <2>4. KernelOK' /\ HistoryOK'
      BY <1>0, <2>2, <2>3 DEF KernelOK, HistoryOK
    <2> QED BY <1>0, <2>3, <2>4, Unchanged DEF TypeInv
  <1>2. CASE aesd_open(p)
    <2>1. /\ open' = [open EXCEPT ![p] = TRUE]
          /\ f_pos' = [f_pos EXCEPT ![p] = 0] /\ delivered' = [delivered EXCEPT ![p] = 0]
          /\ UNCHANGED <<mutex, device, loaded, freed, pc, frame, received, committed>>
      BY <1>2 DEF aesd_open
    <2>2. KernelOK' /\ HistoryOK'
      BY <1>0, <2>1 DEF KernelOK, HistoryOK
    <2> QED BY <1>0, <2>1, <2>2, Unchanged DEF TypeInv
  <1>3. CASE aesd_release(p)
    <2>1. /\ open' = [open EXCEPT ![p] = FALSE]
          /\ UNCHANGED <<mutex, device, loaded, f_pos, freed, pc, frame, history>>
      BY <1>3 DEF aesd_release
    <2>2. KernelOK'
      BY <1>0, <2>1 DEF KernelOK
    <2> QED BY <1>0, <2>1, <2>2, Unchanged DEF TypeInv
  <1>4. CASE aesd_cleanup_module(p)
    <2> DEFINE F == {<<buffer.entry[i].buffptr, "rmmod">> : i \in 0 .. buffer.in_offs - 1}
    <2>1. /\ loaded' = FALSE /\ freed' = freed \cup F
          /\ UNCHANGED <<mutex, device, open, f_pos, pc, frame, history>>
      BY <1>4 DEF aesd_cleanup_module
    <2>2. F \subseteq Nat \X Freers
      <3>1. buffer.in_offs \in 0 .. N - 1 /\ N \in Nat
        BY <1>0, CapacityAssumption DEF DeviceOK, Buffers, Slots
      <3>2. \A i \in 0 .. buffer.in_offs - 1 : i \in Slots
        BY <3>1 DEF Slots
      <3>3. \A i \in Slots : buffer.entry[i].buffptr \in Nat
        BY <1>0 DEF DeviceOK, Buffers, Entries
      <3> QED BY <3>2, <3>3 DEF Freers
    <2> HIDE DEF F
    <2>3. loaded' \in BOOLEAN
      BY <2>1, Zenon
    <2>4. KernelOK'
      BY <1>0, <2>1, <2>2, <2>3 DEF KernelOK
    <2> QED BY <1>0, <2>1, <2>4, Unchanged DEF TypeInv
  <1>5. CASE aesd_init_module(p)
    <2>1. /\ loaded' \in BOOLEAN /\ buffer' \in FreshBuffers /\ mutex' = Free
          /\ partial' = FALSE /\ partial_entry' = NoEntry
          /\ seek' = FALSE /\ seekto_position' = 0 /\ received' = committed
          /\ UNCHANGED <<open, f_pos, freed, pc, frame, committed, delivered>>
      BY <1>5 DEF aesd_init_module
    <2>2. partial' \in BOOLEAN /\ seek' \in BOOLEAN
      BY <2>1, Zenon
    <2>3. buffer' \in Buffers(Nat)
      BY <2>1, FreshBuffer
    <2>4. DeviceOK'
      BY <2>1, <2>2, <2>3 DEF DeviceOK, NoEntry, Entries
    <2>5. KernelOK' /\ HistoryOK'
      BY <1>0, <2>1 DEF KernelOK, HistoryOK
    <2> QED BY <1>0, <2>1, <2>4, <2>5, Unchanged DEF TypeInv
  <1> QED BY <1>1, <1>2, <1>3, <1>4, <1>5

(* The module as it is loaded. *)
LEMMA InitTypes == Init => TypeInv
  <1> SUFFICES ASSUME Init PROVE TypeInv
    OBVIOUS
  <1>1. CallsOK
    BY DEF Init, CallsOK, Labels, Frames, Fits, WriteLabels, WriteSection, ReadLabels, ReadSection
  <1>2. DeviceOK
    <2>1. partial \in BOOLEAN /\ seek \in BOOLEAN
      BY Zenon DEF Init
    <2>2. buffer \in Buffers(Nat)
      BY FreshBuffer DEF Init
    <2> QED BY <2>1, <2>2 DEF Init, DeviceOK, NoEntry, Entries
  <1>3. KernelOK
    <2>1. loaded \in BOOLEAN
      BY Zenon DEF Init
    <2> QED BY <2>1 DEF Init, KernelOK
  <1>4. HistoryOK
    BY DEF Init, HistoryOK
  <1> QED BY <1>1, <1>2, <1>3, <1>4 DEF TypeInv

(* TypeInv is an invariant: no call, and no interleaving of calls, even    *)
(* one in which a flush and writes race for the ring, leaves a field out   *)
(* of its range or a call with the locals of another.                      *)
THEOREM TypeInvariant == Spec => []TypeInv
  <1>1. TypeInv /\ [Next]_vars => TypeInv'
    <2>1. CASE UNCHANGED vars
      BY <2>1, Unchanged DEF vars, TypeInv
    <2>2. ASSUME NEW p \in Procs, TypeInv,
                 \/ Write(p) \/ Read(p) \/ Llseek(p) \/ Ioctl(p)
                 \/ aesd_open(p) \/ aesd_release(p) \/ aesd_cleanup_module(p) \/ aesd_init_module(p)
          PROVE  TypeInv'
      BY <2>2, WriteTypes, ReadTypes, IoctlTypes, FileTypes
    <2> QED BY <2>1, <2>2 DEF Next
  <1> QED BY <1>1, InitTypes, PTL DEF Spec

(* The types of the driver's state: the offsets stay inside the array, and *)
(* no position, size or address leaves the natural numbers, not even when  *)
(* a flush races the assignments of add_entry.                             *)
THEOREM TypeOKHolds == Spec => []TypeOK
  <1>1. TypeInv => TypeOK
    BY DEF TypeInv, TypeOK, CallsOK, DeviceOK, KernelOK, HistoryOK
  <1> QED BY <1>1, TypeInvariant, PTL

-----------------------------------------------------------------------------
(* The size of tmp. *)

Sized == {"w_check", "w_lock", "w_merge"}

(* A step that brings a write to the code before its merge is its call or  *)
(* a step past the mutex.                                                  *)
LEMMA BeforeMerge ==
  ASSUME TypeInv, NEW p \in Procs, Ordinary(p), pc'[p] \in Sized
  PROVE  WriteCheck(p) \/ WriteLock(p) \/ \E d \in Payloads : WriteCall(p, d)
  <1>0. pc \in [Procs -> Labels]
    BY DEF TypeInv, CallsOK
  <1> USE DEF Sized
  <1>1. ~Read(p)
    <2>1. CASE \E c \in Counts : ReadCall(p, c)
      BY <1>0, <2>1 DEF ReadCall, Call, Goto
    <2>2. CASE ReadCheck(p) \/ ReadRecheck(p)
      BY <1>0, <2>2 DEF ReadCheck, ReadRecheck, CheckUnlocked, Return, Goto
    <2>3. CASE ReadLock(p) \/ ReadUnlock(p)
      BY <1>0, <2>3 DEF ReadLock, ReadUnlock, Lock, Unlock, Step, Goto
    <2>4. CASE ReadEof(p) \/ ReadAdvance(p)
      BY <1>0, <2>4 DEF ReadEof, ReadAdvance, EofReturn, Return, Goto
    <2>5. CASE ReadSeek(p) \/ ReadClear(p) \/ ReadCopy(p)
      BY <1>0, <2>5 DEF ReadSeek, ReadClear, ReadCopy, Step, Goto
    <2> QED BY <2>1, <2>2, <2>3, <2>4, <2>5 DEF Read
  <1>2. ~(Llseek(p) \/ aesd_open(p) \/ aesd_release(p) \/ SeektoSum(p) \/ SeektoFlag(p))
    BY <1>0 DEF Llseek, aesd_open, aesd_release, SeektoSum, SeektoFlag, Return, Goto
  <1>3. ~(\E s \in Seeks : SeektoCall(p, s))
    BY <1>0 DEF SeektoCall, Call, Goto
  <1>4. ~(WriteOops(p) \/ WriteUnlock(p) \/ WriteRecheck(p))
    BY <1>0 DEF WriteOops, WriteUnlock, WriteRecheck, Unlock, Return, Step, Goto
  <1>5. ~(WriteDrop(p) \/ WriteSize(p) \/ WriteStore(p) \/ WriteIn(p) \/ WriteOut(p))
    BY <1>0 DEF WriteDrop, WriteSize, WriteStore, WriteIn, WriteOut, AddStep, Step, Goto
  <1> QED BY <1>1, <1>2, <1>3, <1>4, <1>5 DEF Ordinary

(* A step after which what is pending is not longer than before, and p is  *)
(* where it was, leaves room in tmp.                                       *)
LEMMA KeepsRoom ==
  ASSUME TypeInv, TypeInv', NEW p \in Procs, Room(p),
         pc'[p] \in Sized => pc[p] \in Sized /\ frame'[p] = frame[p],
         partial' => partial, partial_entry'.size <= partial_entry.size
  PROVE  Room(p)'
  <1> SUFFICES ASSUME pc'[p] \in Sized, partial'
               PROVE  frame'[p].tmp_size >= partial_entry'.size + frame'[p].count
    BY DEF Room, Sized
  <1>1. frame[p].tmp_size >= partial_entry.size + frame[p].count /\ frame'[p] = frame[p]
    BY DEF Room, Sized
  <1>2. frame[p] \in WriteFrames
    BY DEF TypeInv, CallsOK, Fits, Sized, WriteLabels, WriteSection
  <1>3. frame[p].tmp_size \in Nat /\ frame[p].count \in Nat
    BY <1>2 DEF WriteFrames
  <1>4. partial_entry.size \in Nat /\ partial_entry'.size \in Nat
    BY DEF TypeInv, DeviceOK, Entries
  <1> QED BY <1>1, <1>3, <1>4

(* Only a writer that keeps a partial entry takes another one's room. *)
LEMMA RoomStep ==
  ASSUME TypeInv, TypeInv', [Next]_vars, NEW p \in Procs, Room(p), ~Room(p)'
  PROVE  \E q \in Procs \ {p} : pc[q] = "w_test" /\ pc'[q] = "w_unlock"
  <1>0. /\ pc \in [Procs -> Labels] /\ DOMAIN frame = Procs /\ partial_entry.size \in Nat
        /\ partial_entry \in Entries(Nat)
    BY DEF TypeInv, CallsOK, DeviceOK, Entries
  <1>1. CASE UNCHANGED vars
    <2>1. UNCHANGED <<pc, frame, partial, partial_entry>>
      BY <1>1 DEF vars, device
    <2> QED BY <2>1, <1>0, KeepsRoom
  <1>2. ASSUME Next PROVE \E q \in Procs \ {p} : pc[q] = "w_test" /\ pc'[q] = "w_unlock"
    <2>1. PICK q \in Procs : Ordinary(q) \/ Special(q)
      BY <1>2, NextSplit
    <2>2. CASE Ordinary(q)
      <3>1. Others(q) /\ UNCHANGED <<partial, partial_entry>>
        BY <1>0, <2>2, OrdinaryStep
      <3>2. CASE q # p
        BY <1>0, <3>1, <3>2, KeepsRoom DEF Others
      <3>3. CASE q = p /\ pc'[p] \in Sized
        <4>1. CASE WriteCheck(p) \/ WriteLock(p)
          <5>1. pc[p] \in Sized
            BY <4>1 DEF WriteCheck, CheckUnlocked, WriteLock, Lock, Step, Sized
          <5>2. frame' = frame \/ pc'[p] = "idle"
            BY <1>0, <4>1 DEF WriteCheck, CheckUnlocked, WriteLock, Lock, Return, Goto
          <5>3. frame'[p] = frame[p]
            BY <3>3, <5>2 DEF Sized
          <5> QED BY <1>0, <3>1, <5>1, <5>3, KeepsRoom
        <4>2. ASSUME NEW d \in Payloads, WriteCall(p, d) PROVE FALSE
          <5> DEFINE f == [op |-> "write", count |-> d.count, nl |-> d.nl,
                           tmp_size |-> TmpSize(d.count), write_size |-> d.count,
                           was_full |-> FALSE, entry |-> NoEntry]
          <5>1. frame' = [frame EXCEPT ![p] = f]
            BY <4>2 DEF WriteCall, Call
          <5>2. frame'[p].tmp_size = TmpSize(d.count) /\ frame'[p].count = d.count
            BY <1>0, <5>1
          <5>3. d.count \in Nat
            BY DriverAssumption
          <5>4. TmpSize(d.count) >= partial_entry'.size + d.count
            BY <1>0, <3>1, <5>3 DEF TmpSize
          <5> QED BY <5>2, <5>4 DEF Room
        <4> QED BY <2>2, <3>3, <4>1, <4>2, BeforeMerge
      <3>4. CASE pc'[p] \notin Sized
        BY <3>4 DEF Room, Sized
      <3> QED BY <3>2, <3>3, <3>4
    <2>3. CASE WriteKeepPartial(q)
      <3>1. pc[q] = "w_test" /\ pc' = [pc EXCEPT ![q] = "w_unlock"]
        BY <2>3 DEF WriteKeepPartial, Step, Goto
      <3>2. pc'[q] = "w_unlock"
        BY <1>0, <3>1
      <3>3. q # p
        BY <3>2 DEF Room
      <3> QED BY <3>1, <3>2, <3>3
    <2>4. CASE WriteMerge(q) \/ WriteCommit(q)
      <3>1. /\ UNCHANGED partial_entry /\ (partial' => partial)
            /\ \E l, f : /\ l \notin Sized /\ pc' = [pc EXCEPT ![q] = l]
                         /\ frame' = [frame EXCEPT ![q] = f]
        <4>1. CASE WriteMerge(q)
          <5>1. pc' = [pc EXCEPT ![q] = "w_test"] /\ \E f : frame' = [frame EXCEPT ![q] = f]
            BY <4>1 DEF WriteMerge, Step, Goto
          <5> QED BY <4>1, <5>1 DEF WriteMerge, device, Sized
        <4>2. CASE WriteCommit(q)
          <5>1. \E l : l \notin Sized /\ pc' = [pc EXCEPT ![q] = l]
            BY <4>2 DEF WriteCommit, Step, Goto, Sized
          <5>2. \E f : frame' = [frame EXCEPT ![q] = f]
            BY <4>2 DEF WriteCommit
          <5> QED BY <4>2, <5>1, <5>2 DEF WriteCommit
        <4> QED BY <2>4, <4>1, <4>2
      <3> QED BY <1>0, <3>1, KeepsRoom
    <2>5. CASE FlushCall(q) \/ FlushFree(q) \/ FlushReset(q)
      <3>1. /\ pc[q] \notin Sized
            /\ \E f : frame' = [frame EXCEPT ![q] = f]
            /\ pc' = pc \/ \E l : l \notin Sized /\ pc' = [pc EXCEPT ![q] = l]
            /\ partial_entry' = partial_entry \/ partial_entry' = [partial_entry EXCEPT !.size = 0]
            /\ partial' => partial
        <4>1. CASE FlushCall(q)
          BY <4>1 DEF FlushCall, Call, Goto, device, Sized
        <4>2. CASE FlushFree(q)
          BY <4>2 DEF FlushFree, Goto, device, Sized
        <4>3. CASE FlushReset(q)
          <5>1. (partial' => partial) /\ pc[q] \notin Sized
            BY <4>3, Zenon DEF FlushReset, Sized
          <5>2. \E f : frame' = [frame EXCEPT ![q] = f]
            BY <4>3 DEF FlushReset, Return, Goto
          <5>3. pc' = pc \/ \E l : l \notin Sized /\ pc' = [pc EXCEPT ![q] = l]
            BY <4>3 DEF FlushReset, Return, Goto, Sized
          <5>4. partial_entry' = partial_entry \/ partial_entry' = [partial_entry EXCEPT !.size = 0]
            BY <4>3 DEF FlushReset
          <5> QED BY <5>1, <5>2, <5>3, <5>4
        <4> QED BY <2>5, <4>1, <4>2, <4>3
      <3>2. partial_entry'.size <= partial_entry.size
        BY <1>0, <3>1 DEF Entries
      <3> QED BY <1>0, <3>1, <3>2, KeepsRoom
    <2>6. CASE aesd_cleanup_module(q)
      <3>1. UNCHANGED <<pc, frame, partial, partial_entry>>
        BY <2>6 DEF aesd_cleanup_module, device
      <3> QED BY <1>0, <3>1, KeepsRoom
    <2>7. CASE aesd_init_module(q)
      BY <2>7 DEF aesd_init_module, Room
    <2> QED BY <2>1, <2>2, <2>3, <2>4, <2>5, <2>6, <2>7 DEF Special
  <1> QED BY <1>1, <1>2

(* The block a write allocates before it has the mutex is large enough     *)
(* then, and only a partial entry kept by another process can make it too  *)
(* small, whatever calls, flushes and reloads come in between.             *)
THEOREM RoomLostToOthersHolds == Spec => RoomLostToOthers
  <1>1. TypeInv /\ TypeInv' /\ [Next]_vars =>
          [\A p \in Procs : Room(p) /\ ~Room(p)' =>
             \E q \in Procs \ {p} : pc[q] = "w_test" /\ pc'[q] = "w_unlock"]_vars
    BY RoomStep
  <1> QED BY <1>1, TypeInvariant, PTL DEF Spec, RoomLostToOthers

-----------------------------------------------------------------------------
(* What readers get, when a process that flushes is the only one that      *)
(* reads and writes, or nobody does.  aesd_flush takes no lock: it empties *)
(* the ring under a read that has already compared its position with the   *)
(* end, and that read then copies from a ring that is being emptied.       *)

SoleFlusher ==
  \A p, q \in Procs : "flush" \in Ops[p] /\ ("read" \in Ops[q] \/ "write" \in Ops[q]) => p = q

(* It is more than the ring needs. *)
LEMMA SoleIsSerial == SoleFlusher => SerialFlush
  BY DEF SoleFlusher, SerialFlush

Number(byte) == byte[1] + byte[2]

(* What a read that has copied its data holds: f are its locals, x and d   *)
(* its file's position and the end of what the file has got, and o is the  *)
(* stream position of the oldest byte.                                     *)
Inexact(f) == ~f.inside \/ ~f.exact \/ f.count = 0

Has(f, x, d, o) ==
  /\ f.from <= o + f.pos
  /\ Len(f.data) > 0 => Number(f.data[Len(f.data)]) < f.from + Len(f.data)
  /\ Len(f.data) > 0 /\ f.pos = x => Number(f.data[1]) >= d
  /\ Inexact(f) \/ (Len(f.data) \in 1 .. f.count /\ Numbered(f.data, f.from))

(* What holds of a process at label l; t is total_size.  What the file has *)
(* got ends before its position: positions count from the oldest byte,     *)
(* which moves towards the end.                                            *)
Reader(l, f, x, d, o, t) ==
  /\ d <= o + x
  /\ l \in {"r_check", "r_lock", "r_eof", "r_seek"} => f.pos = x
  /\ l \in {"r_seek", "r_clear", "r_copy"} => x < t
  /\ l \in {"r_unlock", "r_recheck", "r_advance"} => Has(f, x, d, o)

(* Inductive, together with TypeInv and DriverInv. *)
ReadInv ==
  \A p \in Procs :
    /\ pc[p] \in ReadLabels => "read" \in Ops[p]
    /\ Reader(pc[p], frame[p], f_pos[p], delivered[p], Serial!Oldest, buffer.total_size)

(* The oldest byte moves on, and the ring changes outside the section in   *)
(* which the position has been compared with its size.                     *)
LEMMA ReaderKeeps ==
  ASSUME NEW l, NEW f, NEW x \in Nat, NEW d \in Nat, NEW o \in Nat, NEW t,
         NEW o1 \in Nat, o1 >= o, NEW t1,
         l \in ReadLabels => f \in ReadFrames, l \in ReadSection => t1 = t,
         Reader(l, f, x, d, o, t)
  PROVE  Reader(l, f, x, d, o1, t1)
  <1>1. d <= o1 + x
    BY DEF Reader
  <1>2. l \in {"r_unlock", "r_recheck", "r_advance"} => Has(f, x, d, o1)
    <2> SUFFICES ASSUME l \in {"r_unlock", "r_recheck", "r_advance"} PROVE Has(f, x, d, o1)
      OBVIOUS
    <2>1. f \in ReadFrames /\ Has(f, x, d, o)
      BY DEF Reader, ReadLabels, ReadSection
    <2>2. f.pos \in Nat /\ f.from \in Nat /\ f.from <= o + f.pos
      BY <2>1 DEF ReadFrames, Has
    <2>3. f.from <= o1 + f.pos
      BY <2>2
    <2> QED BY <2>1, <2>3 DEF Has
  <1> QED BY <1>1, <1>2 DEF Reader, ReadSection

(* What the rest of the step leaves to a process that does not take it. *)
Apart(p) ==
  \A q \in Procs : q # p =>
    /\ pc'[q] = pc[q] /\ frame'[q] = frame[q]
    /\ f_pos'[q] = f_pos[q] /\ delivered'[q] = delivered[q]

(* Writes and ioctls have no say in files and their positions. *)
NoReader(p) ==
  /\ Apart(p) /\ UNCHANGED <<f_pos, delivered>>
  /\ pc[p] \notin ReadLabels /\ pc'[p] \notin ReadLabels
  /\ buffer' = buffer \/ pc[p] \in AddLabels \cup {"f_reset"}

(* A step of aesd_write is such a step. *)
LEMMA WriteNoReader == ASSUME TypeInv, NEW p \in Procs, Write(p) PROVE NoReader(p)
  <1> USE DEF ReadLabels, ReadSection, AddLabels, device, kernel, history
  <1>0. pc \in [Procs -> Labels] /\ frame \in [Procs -> Frames]
    BY DEF TypeInv, CallsOK
  <1>1. /\ UNCHANGED <<f_pos, delivered>>
        /\ frame' = frame \/ \E f : frame' = [frame EXCEPT ![p] = f]
        /\ \E l : l \notin ReadLabels /\ pc' = [pc EXCEPT ![p] = l]
        /\ pc[p] \notin ReadLabels
        /\ buffer' = buffer \/ pc[p] \in AddLabels
    <2>1. CASE \E d \in Payloads : WriteCall(p, d)
      BY <2>1 DEF WriteCall, Call, Goto
    <2>2. CASE WriteCheck(p) \/ WriteRecheck(p)
      BY <2>2 DEF WriteCheck, WriteRecheck, CheckUnlocked, Return, Goto
    <2>3. CASE WriteLock(p) \/ WriteUnlock(p)
      BY <2>3 DEF WriteLock, WriteUnlock, Lock, Unlock, Step, Goto
    <2>4. CASE WriteMerge(p) \/ WriteOops(p)
      BY <2>4 DEF WriteMerge, WriteOops, Step, Goto
    <2>5. CASE WriteKeepPartial(p) \/ WriteCommit(p)
      BY <2>5 DEF WriteKeepPartial, WriteCommit, Step, Goto
    <2>6. CASE WriteDrop(p) \/ WriteSize(p) \/ WriteStore(p) \/ WriteIn(p) \/ WriteOut(p)
      BY <2>6 DEF WriteDrop, WriteSize, WriteStore, WriteIn, WriteOut, AddStep, Step, Goto
    <2> QED BY <2>1, <2>2, <2>3, <2>4, <2>5, <2>6 DEF Write
  <1> QED BY <1>0, <1>1 DEF NoReader, Apart

(* The ioctls. *)
LEMMA IoctlNoReader == ASSUME TypeInv, NEW p \in Procs, Ioctl(p) PROVE NoReader(p)
  <1> USE DEF ReadLabels, ReadSection, device, kernel, history
  <1>0. pc \in [Procs -> Labels] /\ frame \in [Procs -> Frames]
    BY DEF TypeInv, CallsOK
  <1>1. /\ UNCHANGED <<f_pos, delivered>>
        /\ frame' = frame \/ \E f : frame' = [frame EXCEPT ![p] = f]
        /\ pc' = pc \/ \E l : l \notin ReadLabels /\ pc' = [pc EXCEPT ![p] = l]
        /\ pc[p] \notin ReadLabels
        /\ buffer' = buffer \/ pc[p] = "f_reset"
    <2>1. CASE (\E s \in Seeks : SeektoCall(p, s)) \/ FlushCall(p)
      BY <2>1 DEF SeektoCall, FlushCall, Call, Goto
    <2>2. CASE SeektoSum(p)
      BY <2>2 DEF SeektoSum, Goto
    <2>3. CASE SeektoFlag(p)
      BY <2>3 DEF SeektoFlag, Return, Goto
    <2>4. CASE FlushFree(p)
      BY <2>4 DEF FlushFree, Goto
    <2>5. CASE FlushReset(p)
      BY <2>5 DEF FlushReset, Return, Goto
    <2> QED BY <2>1, <2>2, <2>3, <2>4, <2>5 DEF Ioctl
  <1> QED BY <1>0, <1>1 DEF NoReader, Apart

(* Reads leave the ring and the others alone. *)
LEMMA ReadApart == ASSUME TypeInv, NEW p \in Procs, Read(p) PROVE Apart(p) /\ buffer' = buffer
  <1> USE DEF device, kernel, history
  <1>0. /\ pc \in [Procs -> Labels] /\ frame \in [Procs -> Frames]
        /\ f_pos \in [Procs -> Nat] /\ delivered \in [Procs -> Nat]
    BY DEF TypeInv, CallsOK, KernelOK, HistoryOK
  <1>1. /\ buffer' = buffer
        /\ frame' = frame \/ \E f : frame' = [frame EXCEPT ![p] = f]
        /\ \E l : pc' = [pc EXCEPT ![p] = l]
        /\ f_pos' = f_pos \/ \E x : f_pos' = [f_pos EXCEPT ![p] = x]
        /\ delivered' = delivered \/ \E x : delivered' = [delivered EXCEPT ![p] = x]
    <2>1. CASE \E c \in Counts : ReadCall(p, c)
      BY <2>1 DEF ReadCall, Call, Goto
    <2>2. CASE ReadCheck(p) \/ ReadRecheck(p)
      BY <2>2 DEF ReadCheck, ReadRecheck, CheckUnlocked, Return, Goto
    <2>3. CASE ReadLock(p) \/ ReadUnlock(p)
      BY <2>3 DEF ReadLock, ReadUnlock, Lock, Unlock, Step, Goto
    <2>4. CASE ReadEof(p)
      BY <2>4 DEF ReadEof, EofReturn, Return, Goto
    <2>5. CASE ReadSeek(p) \/ ReadClear(p)
      BY <2>5 DEF ReadSeek, ReadClear, Step, Goto
    <2>6. CASE ReadCopy(p)
      BY <2>6 DEF ReadCopy, Step, Goto
    <2>7. CASE ReadAdvance(p)
      BY <2>7 DEF ReadAdvance, Return, Goto
    <2> QED BY <2>1, <2>2, <2>3, <2>4, <2>5, <2>6, <2>7 DEF Read
  <1> QED BY <1>0, <1>1 DEF Apart

(* What is proved of the ring, said with the driver's operators: the ring  *)
(* holds the last part of the stream.                                      *)
Stream == HoldsStream(Settled, committed) /\ StartOf(Settled, committed, 0) = Serial!Oldest

(* HoldsMostRecent, proved of the ring, gives it. *)
LEMMA SameStream == Proved!HoldsMostRecent => Stream
  <1>1. /\ \A b : Proved!Held(b) = Held(b)
        /\ \A b, k : Proved!Nth(b, k) = Nth(b, k)
        /\ Proved!Buffers(Nat) = Buffers(Nat)
    BY DEF Proved!Held, Held, Proved!Nth, Nth, Proved!SlotAfter, SlotAfter,
           Proved!Buffers, Buffers, Proved!Slots, Slots, Proved!Entries, Entries
  <1>2. \A b, e, k : Proved!StartOf(b, e, k) = StartOf(b, e, k)
    BY <1>1 DEF Proved!StartOf, StartOf
  <1>3. \A b, e : Proved!HoldsStream(b, e) => HoldsStream(b, e)
    BY <1>1, <1>2 DEF Proved!HoldsStream, HoldsStream
  <1>4. Proved!Oldest = Serial!Oldest
    BY DEF Proved!Oldest, Serial!Oldest, Proved!Count, Serial!Count, Proved!EntryAt, Serial!EntryAt,
           Proved!SlotAfter, Serial!SlotAfter
  <1> QED BY <1>2, <1>3, <1>4 DEF Proved!HoldsMostRecent, Stream

(* The oldest byte, in both. *)
LEMMA SameOldest == Proved!Oldest' >= Proved!Oldest => Serial!Oldest' >= Serial!Oldest
  BY DEF Proved!Oldest, Serial!Oldest, Proved!Count, Serial!Count, Proved!EntryAt, Serial!EntryAt,
         Proved!SlotAfter, Serial!SlotAfter

(* The serial ring is searched by the same loops. *)
LEMMA SameSearch ==
  \A b, x : Serial!start_entry(b, x) = start_entry(b, x) /\ Serial!section_end(b, x) = section_end(b, x)
  <1>1. \A b, x : Serial!find_entry_offset_for_fpos(b, x, 0) = find_entry_offset_for_fpos(b, x, 0)
    BY Zenon DEF Serial!SizesBefore, SizesBefore, Serial!Remaining, Remaining, Serial!SlotAfter, SlotAfter,
                 Serial!LiesInside, LiesInside, Serial!Slots, Slots,
                 Serial!find_entry_offset_for_fpos, find_entry_offset_for_fpos
  <1>2. \A b, x : Serial!start_entry(b, x) = start_entry(b, x)
    BY <1>1 DEF Serial!start_entry, start_entry
  <1>3. \A b, x : Serial!section_end(b, x) = section_end(b, x)
    BY DEF Serial!section_end, section_end
  <1> QED BY <1>2, <1>3

(* When a copy is exact, in the terms of the lemmas about read_helper. *)
ExactAt(b, end, x, c) ==
  Exact(b.entry[start_entry(b, x).index].size, start_entry(b, x).byte, c,
        StopOf(b, end, x) - (StartOf(b, end, 0) + x))

(* The driver's ExactCopy implies it. *)
LEMMA ExactAs ==
  ASSUME Stream, NEW x, NEW c, Serial!ExactCopy(x, c)
  PROVE  ExactAt(Settled, committed, x, c)
  <1>1. Serial!start_entry(Settled, x) = start_entry(Settled, x)
    BY SameSearch
  <1>2. Serial!SectionEnd(x) = StopOf(Settled, committed, x)
    BY SameSearch DEF Serial!SectionEnd, StopOf
  <1> HIDE DEF Settled
  <1> QED BY <1>1, <1>2 DEF Serial!ExactCopy, Exact, ExactAt, Stream

(* One copy d of c bytes from position x, where the oldest byte is byte o  *)
(* of the stream.                                                          *)
StreamCopy(d, x, c, o, inside, exact) ==
  /\ d \in Seq(Nat \X Nat) /\ o \in Nat
  /\ Len(d) > 0 => Number(d[Len(d)]) < (o + x) + Len(d)
  /\ Len(d) > 0 /\ inside => Number(d[1]) = o + x
  /\ ~inside \/ ~exact \/ c = 0 \/ (Len(d) \in 1 .. c /\ Numbered(d, o + x))

(* ... from a ring that holds the stream up to end. *)
LEMMA CopyFromStream ==
  ASSUME NEW b, NEW end, HoldsStream(b, end), NEW x \in Nat, NEW c \in Nat, NEW d, d = read_entries(b, x, c),
         NEW o, o = StartOf(b, end, 0), NEW exact, exact => ExactAt(b, end, x, c)
  PROVE  StreamCopy(d, x, c, o, x < b.total_size, exact)
  <1>0. /\ N \in Nat /\ 0 \in 0 .. N /\ o \in Nat /\ end \in Nat /\ b \in Buffers(Nat)
        /\ b.total_size = end - o /\ b.total_size \in Int
    BY HeldTypes DEF HoldsStream, Buffers
  <1>1. d \in Seq(Nat \X Nat) /\ Len(d) \in Nat
    <2>1. read_entries(b, x, c) \in Seq(Nat \X Nat)
      BY <1>0, ReadEntriesType
    <2> QED BY <2>1
  <1>2. CASE x < b.total_size
    <2>1. PICK k, m \in 0 .. N :
             /\ ReadsEntries(b, end, x, k, m)
             /\ \A count \in Nat \ {0} :
                  Exact(Nth(b, k).size, start_entry(b, x).byte, count,
                        StopOf(b, end, x) - (StartOf(b, end, 0) + x))
                    => ReadsStream(b, end, x, count)
             /\ \A count \in Nat : ReadsOn(b, end, x, count)
      BY <1>2, ReadInStream
    <2>2. Numbered(d, o + x) /\ (c > 0 => Len(d) > 0)
      BY <2>1 DEF ReadsOn
    <2>3. Len(d) > 0 => Number(d[Len(d)]) < (o + x) + Len(d) /\ Number(d[1]) = o + x
      <3> SUFFICES ASSUME Len(d) > 0 PROVE Number(d[Len(d)]) < (o + x) + Len(d) /\ Number(d[1]) = o + x
        OBVIOUS
      <3> DEFINE n == Len(d)
                 y == o + x
      <3>1. n \in 1 .. n /\ 1 \in 1 .. n /\ n \in Nat /\ y \in Nat
        BY <1>0, <1>1
      <3>2. Number(d[n]) = y + n - 1 /\ Number(d[1]) = y + 1 - 1
        BY <2>2, <3>1 DEF Numbered, Number
      <3> HIDE DEF n, y
      <3>3. Number(d[n]) < y + n /\ Number(d[1]) = y
        BY <3>1, <3>2
      <3> QED BY <3>3 DEF n, y
    <2>4. exact /\ c # 0 => Len(d) \in 1 .. c
      <3> SUFFICES ASSUME exact, c # 0 PROVE Len(d) \in 1 .. c
        OBVIOUS
      <3>1. b.entry[start_entry(b, x).index] = Nth(b, k)
        BY <2>1 DEF ReadsEntries
      <3>2. ReadsStream(b, end, x, c)
        BY <2>1, <3>1 DEF ExactAt
      <3>3. StopOf(b, end, x) \in Nat /\ o + x < StopOf(b, end, x)
        BY <2>1 DEF ReadsEntries
      <3>4. Len(d) = IF StopOf(b, end, x) - (o + x) < c THEN StopOf(b, end, x) - (o + x) ELSE c
        BY <3>2 DEF ReadsStream
      <3> DEFINE stop == StopOf(b, end, x)
                 n == Len(d)
      <3> HIDE DEF stop, n
      <3>5. n = (IF stop - (o + x) < c THEN stop - (o + x) ELSE c) /\ stop \in Nat /\ o + x < stop
        BY <3>3, <3>4 DEF stop, n
      <3>6. n \in 1 .. c
        BY <1>0, <3>5
      <3> QED BY <3>6 DEF n
    <2> QED BY <1>0, <1>1, <2>2, <2>3, <2>4 DEF StreamCopy
  <1>3. CASE ~(x < b.total_size)
    <2>1. x >= b.total_size
      BY <1>0, <1>3
    <2>2. Len(d) > 0 => d[Len(d)][1] + d[Len(d)][2] < end
      BY <2>1, ReadBeyond
    <2>3. Len(d) > 0 => Number(d[Len(d)]) < (o + x) + Len(d)
      <3> SUFFICES ASSUME Len(d) > 0 PROVE Number(d[Len(d)]) < (o + x) + Len(d)
        OBVIOUS
      <3>1. d[Len(d)] \in Nat \X Nat
        <4>1. Len(d) \in 1 .. Len(d)
          BY <1>1
        <4> QED BY <1>1, <4>1
      <3> DEFINE byte == d[Len(d)]
                 n == Len(d)
                 v == Number(byte)
      <3>2. v \in Nat /\ v < end /\ n \in Nat
        <4>1. byte \in Nat \X Nat /\ byte[1] + byte[2] < end
          BY <2>2, <3>1
        <4> HIDE DEF byte
        <4> QED BY <1>1, <4>1 DEF Number
      <3>3. end <= o + x
        BY <1>0, <2>1
      <3> HIDE DEF v, n
      <3>4. v < (o + x) + n
        BY <1>0, <3>2, <3>3
      <3> QED BY <3>4 DEF v, n
    <2> QED BY <1>0, <1>1, <1>3, <2>3 DEF StreamCopy
  <1> QED BY <1>2, <1>3

(* Nobody changes the ring while a process is in the section of a read     *)
(* that the mutex guards, and no change of it is under way.                *)
LEMMA ReadAlone ==
  ASSUME SoleFlusher, DriverInv, ReadInv, NEW p \in Procs, pc[p] \in ReadSection, NEW q \in Procs
  PROVE  pc[q] \notin AddLabels \cup {"f_reset"}
  <1>1. MutexDiscipline /\ ProcInv(q) /\ "read" \in Ops[p]
    BY DEF DriverInv, LockInv, ReadInv, ReadLabels
  <1>2. pc[q] \notin AddLabels
    BY <1>1 DEF MutexDiscipline, Critical, ReadSection, WriteSection, AddLabels
  <1>3. pc[q] # "f_reset"
    <2>1. pc[q] = "f_reset" => "flush" \in Ops[q]
      BY <1>1 DEF ProcInv
    <2>2. pc[q] = "f_reset" => q = p
      BY <1>1, <2>1 DEF SoleFlusher
    <2> QED BY <2>2 DEF ReadSection
  <1> QED BY <1>2, <1>3

(* ... so a read sees the settled ring. *)
LEMMA ReadsSettled ==
  ASSUME SoleFlusher, DriverInv, ReadInv, NEW p \in Procs, pc[p] \in ReadSection
  PROVE  Settled = buffer
  <1>1. \A q \in Procs : pc[q] \notin AddLabels /\ ~Resets(pc[q], frame[q])
    BY ReadAlone DEF Resets
  <1> QED BY <1>1, SettledForm, SettledQuiet

(* The processes that do not take the step. *)
LEMMA BystandersKeep ==
  ASSUME TypeInv, ReadInv, NEW p \in Procs, Apart(p),
         Serial!Oldest' \in Nat, Serial!Oldest' >= Serial!Oldest,
         \A q \in Procs : pc[q] \in ReadSection => buffer' = buffer,
         pc'[p] \in ReadLabels => "read" \in Ops[p],
         Reader(pc'[p], frame'[p], f_pos'[p], delivered'[p], Serial!Oldest', buffer'.total_size)
  PROVE  ReadInv'
  <1> DEFINE o == Serial!Oldest
             o1 == Serial!Oldest'
  <1>0. o \in Nat /\ o1 \in Nat /\ o1 >= o
    BY OldestType DEF TypeInv
  <1> HIDE DEF o, o1
  <1>1. ASSUME NEW q \in Procs, q # p
        PROVE  /\ pc'[q] \in ReadLabels => "read" \in Ops[q]
               /\ Reader(pc'[q], frame'[q], f_pos'[q], delivered'[q], o1, buffer'.total_size)
    <2>1. f_pos[q] \in Nat /\ delivered[q] \in Nat
      BY DEF TypeInv, KernelOK, HistoryOK
    <2>2. pc[q] \in ReadLabels => frame[q] \in ReadFrames
      BY DEF TypeInv, CallsOK, Fits
    <2>3. pc[q] \in ReadSection => buffer'.total_size = buffer.total_size
      OBVIOUS
    <2>4. /\ pc[q] \in ReadLabels => "read" \in Ops[q]
          /\ Reader(pc[q], frame[q], f_pos[q], delivered[q], o, buffer.total_size)
      BY DEF ReadInv, o
    <2>5. Reader(pc[q], frame[q], f_pos[q], delivered[q], o1, buffer'.total_size)
      BY <1>0, <2>1, <2>2, <2>3, <2>4, ReaderKeeps
    <2>6. pc'[q] = pc[q] /\ frame'[q] = frame[q] /\ f_pos'[q] = f_pos[q] /\ delivered'[q] = delivered[q]
      BY <1>1 DEF Apart
    <2> QED BY <2>4, <2>5, <2>6
  <1>2. \A q \in Procs : /\ pc'[q] \in ReadLabels => "read" \in Ops[q]
                         /\ Reader(pc'[q], frame'[q], f_pos'[q], delivered'[q], Serial!Oldest', buffer'.total_size)
    BY <1>1 DEF o1
  <1> QED BY <1>2 DEF ReadInv

(* The hypotheses under which a step is considered. *)
Before == SoleFlusher /\ TypeInv /\ DriverInv /\ ReadInv /\ Stream
After == TypeInv' /\ Serial!Oldest' \in Nat /\ Serial!Oldest' >= Serial!Oldest

(* A write or an ioctl. *)
LEMMA NoReaderStep == ASSUME Before, After, NEW p \in Procs, NoReader(p) PROVE ReadInv'
  <1>1. \A q \in Procs : pc[q] \in ReadSection => buffer' = buffer
    BY ReadAlone DEF NoReader, Before
  <1>2. Reader(pc'[p], frame'[p], f_pos'[p], delivered'[p], Serial!Oldest', buffer'.total_size)
    <2> DEFINE o == Serial!Oldest
               o1 == Serial!Oldest'
    <2>1. o \in Nat /\ o1 \in Nat /\ o1 >= o
      BY OldestType DEF TypeInv, Before, After
    <2>2. f_pos[p] \in Nat /\ delivered[p] \in Nat /\ delivered[p] <= o + f_pos[p]
      BY DEF Before, TypeInv, KernelOK, HistoryOK, ReadInv, Reader
    <2>3. f_pos'[p] = f_pos[p] /\ delivered'[p] = delivered[p] /\ pc'[p] \notin ReadLabels
      BY DEF NoReader
    <2> HIDE DEF o, o1
    <2>4. delivered'[p] <= o1 + f_pos'[p]
      BY <2>1, <2>2, <2>3
    <2> QED BY <2>3, <2>4 DEF Reader, ReadLabels, ReadSection, o1
  <1> QED BY <1>1, <1>2, BystandersKeep DEF NoReader, Before, After

(* Files and the module.  The module is loaded and removed while no call   *)
(* is in progress.                                                         *)
LEMMA FileReadStep ==
  ASSUME Before, After, NEW p \in Procs,
         Llseek(p) \/ aesd_open(p) \/ aesd_release(p) \/ aesd_cleanup_module(p) \/ aesd_init_module(p)
  PROVE  ReadInv'
  <1> USE DEF device, history
  <1> DEFINE o == Serial!Oldest
             o1 == Serial!Oldest'
  <1>0. /\ o \in Nat /\ o1 \in Nat /\ o1 >= o
        /\ f_pos \in [Procs -> Nat] /\ delivered \in [Procs -> Nat]
        /\ f_pos' \in [Procs -> Nat] /\ delivered' \in [Procs -> Nat]
        /\ delivered[p] <= o + f_pos[p]
    BY OldestType DEF Before, After, TypeInv, KernelOK, HistoryOK, ReadInv, Reader
  <1>1. UNCHANGED <<pc, frame>> /\ Apart(p)
    BY <1>0 DEF Llseek, generic_file_llseek_size, aesd_open, aesd_release, aesd_cleanup_module,
                aesd_init_module, Apart
  <1>2. pc[p] \notin ReadLabels /\ \A q \in Procs : pc[q] \in ReadSection => buffer' = buffer
    <2>1. CASE Llseek(p) \/ aesd_open(p) \/ aesd_release(p)
      BY <2>1 DEF Llseek, aesd_open, aesd_release, ReadLabels, ReadSection
    <2>2. CASE aesd_cleanup_module(p) \/ aesd_init_module(p)
      <3>1. \A q \in Procs : pc[q] \in {"idle", "dead"}
        BY <2>2 DEF aesd_cleanup_module, aesd_init_module, Unused, Before, DriverInv, LockInv, InUse
      <3> QED BY <3>1 DEF ReadLabels, ReadSection
    <2> QED BY <2>1, <2>2
  <1>3. delivered'[p] <= o1 + f_pos'[p]
    <2> HIDE DEF o, o1
    <2>0. f_pos'[p] \in Nat /\ delivered'[p] \in Nat /\ f_pos[p] \in Nat /\ delivered[p] \in Nat
      BY <1>0
    <2>1. CASE delivered'[p] = 0
      BY <1>0, <2>0, <2>1
    <2>2. CASE f_pos'[p] = f_pos[p] /\ delivered'[p] = delivered[p]
      BY <1>0, <2>0, <2>2
    <2>3. \/ delivered'[p] = 0
          \/ f_pos'[p] = f_pos[p] /\ delivered'[p] = delivered[p]
      <3>1. CASE Llseek(p)
        <4>1. PICK pos : /\ f_pos' = [f_pos EXCEPT ![p] = pos]
                         /\ delivered' = [delivered EXCEPT ![p] = IF pos = f_pos[p] THEN @ ELSE 0]
          BY <3>1 DEF Llseek, generic_file_llseek_size
        <4>2. f_pos'[p] = pos /\ delivered'[p] = IF pos = f_pos[p] THEN delivered[p] ELSE 0
          BY <4>1, <1>0
        <4> QED BY <4>2
      <3>2. CASE aesd_open(p)
        BY <1>0, <3>2 DEF aesd_open
      <3>3. CASE aesd_release(p) \/ aesd_cleanup_module(p) \/ aesd_init_module(p)
        BY <3>3 DEF aesd_release, aesd_cleanup_module, aesd_init_module
      <3> QED BY <3>1, <3>2, <3>3
    <2> QED BY <2>1, <2>2, <2>3
  <1>4. Reader(pc'[p], frame'[p], f_pos'[p], delivered'[p], Serial!Oldest', buffer'.total_size)
    BY <1>1, <1>2, <1>3 DEF Reader, ReadLabels, ReadSection
  <1> QED BY <1>1, <1>2, <1>4, BystandersKeep DEF Before, After

(* A step of a read that neither moves the file nor delivers anything. *)
LEMMA ReadInPlace ==
  ASSUME Before, After, NEW p \in Procs, Read(p), UNCHANGED <<f_pos, delivered>>,
         NEW l, NEW f, pc'[p] = l, frame'[p] = f, l \in ReadLabels => "read" \in Ops[p],
         l \in {"r_check", "r_lock", "r_eof", "r_seek"} => f.pos = f_pos[p],
         l \in {"r_seek", "r_clear", "r_copy"} => f_pos[p] < buffer.total_size,
         l \in {"r_unlock", "r_recheck", "r_advance"} => Has(f, f_pos[p], delivered[p], Serial!Oldest')
  PROVE  ReadInv'
  <1>1. Apart(p) /\ buffer' = buffer
    BY ReadApart DEF Before
  <1>2. delivered[p] <= Serial!Oldest' + f_pos[p]
    <2> DEFINE o == Serial!Oldest
               o1 == Serial!Oldest'
    <2>1. o \in Nat /\ o1 \in Nat /\ o1 >= o
      BY OldestType DEF TypeInv, Before, After
    <2>2. f_pos[p] \in Nat /\ delivered[p] \in Nat /\ delivered[p] <= o + f_pos[p]
      BY DEF Before, TypeInv, KernelOK, HistoryOK, ReadInv, Reader
    <2> HIDE DEF o, o1
    <2>3. delivered[p] <= o1 + f_pos[p]
      BY <2>1, <2>2
    <2> QED BY <2>3 DEF o1
  <1>3. Reader(pc'[p], frame'[p], f_pos'[p], delivered'[p], Serial!Oldest', buffer'.total_size)
    BY <1>1, <1>2 DEF Reader
  <1> QED BY <1>1, <1>3, BystandersKeep DEF Before, After

(* The copy. *)
LEMMA ReadCopyStep == ASSUME Before, After, NEW p \in Procs, ReadCopy(p) PROVE ReadInv'
  <1> DEFINE f == frame[p]
             d == read_entries(buffer, f.pos, f.count)
             o == Serial!Oldest
             x == f.pos < buffer.total_size
             e == Serial!ExactCopy(f.pos, f.count)
             g == [f EXCEPT !.data = d, !.from = o + f.pos, !.inside = x, !.exact = e]
  <1>0. /\ pc[p] = "r_copy" /\ pc' = [pc EXCEPT ![p] = "r_unlock"] /\ frame' = [frame EXCEPT ![p] = g]
        /\ UNCHANGED <<mutex, device, kernel, history>>
    BY DEF ReadCopy, Step, Goto
  <1>1. f \in ReadFrames /\ f.pos \in Nat /\ f.count \in Nat
    BY <1>0 DEF Before, TypeInv, CallsOK, Fits, ReadLabels, ReadSection, ReadFrames
  <1>2. /\ pc'[p] = "r_unlock" /\ frame'[p] = g /\ UNCHANGED <<f_pos, delivered>>
        /\ "read" \in Ops[p] /\ f_pos[p] < buffer.total_size /\ delivered[p] <= o + f_pos[p]
    <2>1. pc \in [Procs -> Labels] /\ frame \in [Procs -> Frames]
      BY DEF Before, TypeInv, CallsOK
    <2>2. "read" \in Ops[p] /\ Reader(pc[p], frame[p], f_pos[p], delivered[p], o, buffer.total_size)
      BY <1>0 DEF Before, ReadInv, ReadLabels, ReadSection
    <2> HIDE DEF g, o
    <2> QED BY <1>0, <2>1, <2>2 DEF kernel, history, Reader
  <1>3. Settled = buffer /\ HoldsStream(buffer, committed) /\ o = StartOf(buffer, committed, 0)
    <2>1. Settled = buffer
      BY <1>0, ReadsSettled DEF Before, ReadSection
    <2> QED BY <2>1 DEF Before, Stream
  <1>4. e => ExactAt(buffer, committed, f.pos, f.count)
    BY <1>3, ExactAs DEF Before
  <1>5. /\ g.pos = f.pos /\ g.count = f.count /\ g.data = d /\ g.from = o + f.pos
        /\ g.inside = x /\ g.exact = e
    <2> HIDE DEF d, o, x, e
    <2> QED BY <1>1 DEF ReadFrames
  <1>6. /\ d \in Seq(Nat \X Nat) /\ o \in Nat
        /\ Len(d) > 0 => Number(d[Len(d)]) < (o + f.pos) + Len(d)
        /\ Len(d) > 0 /\ x => Number(d[1]) = o + f.pos
        /\ ~x \/ ~e \/ f.count = 0 \/ (Len(d) \in 1 .. f.count /\ Numbered(d, o + f.pos))
    <2> HIDE DEF o, e
    <2>1. StreamCopy(d, f.pos, f.count, o, x, e)
      BY <1>1, <1>3, <1>4, CopyFromStream
    <2> HIDE DEF d, x
    <2> QED BY <2>1 DEF StreamCopy
  <1>7. Has(g, f_pos[p], delivered[p], Serial!Oldest')
    <2> DEFINE o1 == Serial!Oldest'
    <2>1. o1 \in Nat /\ o1 >= o
      BY DEF After
    <2> HIDE DEF o1, o, d
    <2>2. g.from <= o1 + g.pos
      <3> HIDE DEF g
      <3> QED BY <1>1, <1>5, <1>6, <2>1
    <2>3. Len(d) > 0 /\ f.pos = f_pos[p] => Number(d[1]) >= delivered[p]
      <3> SUFFICES ASSUME Len(d) > 0, f.pos = f_pos[p] PROVE Number(d[1]) >= delivered[p]
        OBVIOUS
      <3>1. Number(d[1]) = o + f_pos[p]
        BY <1>2, <1>6
      <3>2. delivered[p] \in Nat /\ f_pos[p] \in Nat
        BY DEF Before, TypeInv, HistoryOK, KernelOK
      <3> QED BY <1>2, <1>6, <3>1, <3>2
    <2>4. Inexact(g) \/ (Len(d) \in 1 .. f.count /\ Numbered(d, o + f.pos))
      <3> HIDE DEF e, g, x
      <3> QED BY <1>5, <1>6 DEF Inexact
    <2> HIDE DEF g
    <2>5. Has(g, f_pos[p], delivered[p], o1)
      BY <1>5, <1>6, <2>2, <2>3, <2>4 DEF Has
    <2> QED BY <2>5 DEF o1
  <1>8. Read(p)
    BY DEF Read
  <1> HIDE DEF g
  <1> QED BY <1>2, <1>7, <1>8, ReadInPlace

(* The end of a read: the file moves past what it got. *)
LEMMA ReadAdvanceStep == ASSUME Before, After, NEW p \in Procs, ReadAdvance(p) PROVE ReadInv'
  <1> DEFINE f == frame[p]
             n == IF f.pos < buffer.total_size THEN Len(f.data) ELSE 0
             w == f.data[n][1] + f.data[n][2] + 1
             v == CASE n > 0 -> w
                    [] n = 0 /\ f.pos # f_pos[p] -> 0
                    [] OTHER -> delivered[p]
             o == Serial!Oldest
             o1 == Serial!Oldest'
  <1>0. /\ pc[p] = "r_advance" /\ pc' = [pc EXCEPT ![p] = "idle"]
        /\ f_pos' = [f_pos EXCEPT ![p] = f.pos + n] /\ delivered' = [delivered EXCEPT ![p] = v]
    BY DEF ReadAdvance, Return, Goto, NewPos
  <1>1. /\ f.pos \in Nat /\ f.from \in Nat /\ f.data \in Seq(Nat \X Nat)
        /\ delivered[p] \in Nat /\ f_pos[p] \in Nat
    BY <1>0 DEF Before, TypeInv, CallsOK, Fits, ReadLabels, ReadSection, ReadFrames, KernelOK, HistoryOK
  <1>2. n \in Nat /\ n <= Len(f.data) /\ (n = Len(f.data) \/ n = 0)
    BY <1>1
  <1>3. o \in Nat /\ o1 \in Nat /\ o1 >= o
    BY OldestType DEF TypeInv, Before, After
  <1>4. Has(f, f_pos[p], delivered[p], o) /\ delivered[p] <= o + f_pos[p]
    BY <1>0 DEF Before, ReadInv, Reader
  <1>5. v <= o1 + (f.pos + n)
    <2>1. CASE n > 0
      <3>1. n = Len(f.data) /\ Len(f.data) > 0
        BY <1>2, <2>1
      <3> DEFINE byte == f.data[n]
                 m == Len(f.data)
      <3>2. byte \in Nat \X Nat
        <4>1. n \in 1 .. Len(f.data)
          BY <1>2, <2>1
        <4> QED BY <1>1, <4>1
      <3>3. w = Number(byte) + 1 /\ Number(byte) < f.from + m /\ f.from <= o + f.pos
        <4> HIDE DEF n, o
        <4> QED BY <1>4, <3>1 DEF Has, Number
      <3>4. Number(byte) \in Nat
        <4> HIDE DEF byte
        <4> QED BY <3>2 DEF Number
      <3>5. v = w
        <4> HIDE DEF n, w
        <4>1. n # 0
          BY <1>2, <2>1
        <4> QED BY <2>1, <4>1
      <3> HIDE DEF n, w, v, o, o1, byte
      <3>6. m = n
        BY <3>1
      <3> HIDE DEF m
      <3> DEFINE number == Number(byte)
                 pos == f.pos
                 from == f.from
      <3>7. /\ pos \in Nat /\ from \in Nat /\ n \in Nat /\ number \in Nat
            /\ o \in Nat /\ o1 \in Nat /\ o1 >= o
            /\ v = number + 1 /\ number < from + n /\ from <= o + pos
        BY <1>1, <1>2, <1>3, <3>3, <3>4, <3>5, <3>6
      <3>8. v <= o1 + (pos + n)
        <4> HIDE DEF number, pos, from
        <4> QED BY <3>7
      <3> QED BY <3>8
    <2>2. CASE ~(n > 0)
      <3> HIDE DEF n, w, o, o1
      <3>1. n = 0
        BY <1>2, <2>2
      <3>2. v = 0 \/ (v = delivered[p] /\ f.pos = f_pos[p])
        BY <3>1
      <3> HIDE DEF v
      <3> QED BY <1>1, <1>3, <1>4, <3>1, <3>2
    <2> QED BY <2>1, <2>2
  <1>6. pc'[p] = "idle" /\ f_pos'[p] = f.pos + n /\ delivered'[p] = v
    <2> HIDE DEF n, v
    <2> QED BY <1>0 DEF Before, TypeInv, CallsOK, KernelOK, HistoryOK
  <1> HIDE DEF n, v, w
  <1>7. Reader(pc'[p], frame'[p], f_pos'[p], delivered'[p], Serial!Oldest', buffer'.total_size)
    BY <1>5, <1>6 DEF Reader
  <1>8. Apart(p) /\ buffer' = buffer
    BY ReadApart DEF Before, Read
  <1>9. pc'[p] \notin ReadLabels
    BY <1>6 DEF ReadLabels, ReadSection
  <1> QED BY <1>7, <1>8, <1>9, BystandersKeep DEF Before, After

(* The steps of a read. *)
LEMMA ReadReadStep == ASSUME Before, After, NEW p \in Procs, Read(p) PROVE ReadInv'
  <1> USE DEF kernel, history
  <1> DEFINE f == frame[p]
             o == Serial!Oldest
             o1 == Serial!Oldest'
  <1>0. /\ pc \in [Procs -> Labels] /\ frame \in [Procs -> Frames]
        /\ pc[p] \in ReadLabels => f \in ReadFrames /\ "read" \in Ops[p]
        /\ Reader(pc[p], f, f_pos[p], delivered[p], o, buffer.total_size)
    BY DEF Before, TypeInv, CallsOK, Fits, ReadInv
  <1>1. ASSUME NEW c \in Counts, ReadCall(p, c) PROVE ReadInv'
    <2>1. /\ pc'[p] = "r_check" /\ "read" \in Ops[p] /\ frame'[p].pos = f_pos[p]
          /\ UNCHANGED <<f_pos, delivered>>
      BY <1>0, <1>1 DEF ReadCall, Call, Goto
    <2> QED BY <2>1, ReadInPlace
  <1>2. CASE ReadCheck(p)
    <2>1. /\ pc[p] = "r_check" /\ UNCHANGED <<f_pos, delivered>>
          /\ pc'[p] = "idle" \/ (pc'[p] = "r_lock" /\ frame'[p] = f)
      BY <1>0, <1>2 DEF ReadCheck, CheckUnlocked, Return, Goto
    <2>2. "read" \in Ops[p] /\ f.pos = f_pos[p]
      BY <1>0, <2>1 DEF Reader, ReadLabels
    <2> HIDE DEF f
    <2> QED BY <2>1, <2>2, ReadInPlace DEF ReadLabels, ReadSection
  <1>3. CASE ReadLock(p)
    <2>1. pc[p] = "r_lock" /\ UNCHANGED <<f_pos, delivered>> /\ pc'[p] = "r_eof" /\ frame'[p] = f
      BY <1>0, <1>3 DEF ReadLock, Lock, Step, Goto
    <2>2. "read" \in Ops[p] /\ f.pos = f_pos[p]
      BY <1>0, <2>1 DEF Reader, ReadLabels
    <2> HIDE DEF f
    <2> QED BY <2>1, <2>2, ReadInPlace
  <1>4. CASE ReadEof(p)
    <2>1. /\ pc[p] = "r_eof" /\ UNCHANGED <<f_pos, delivered>>
          /\ \/ pc'[p] = "idle"
             \/ pc'[p] = "r_seek" /\ frame'[p] = f /\ f.pos < buffer.total_size
      BY <1>0, <1>4 DEF ReadEof, EofReturn, Return, Goto
    <2>2. "read" \in Ops[p] /\ f.pos = f_pos[p]
      BY <1>0, <2>1 DEF Reader, ReadLabels, ReadSection
    <2> HIDE DEF f
    <2> QED BY <2>1, <2>2, ReadInPlace DEF ReadLabels, ReadSection
  <1>5. CASE ReadSeek(p) \/ ReadClear(p)
    <2>1. pc[p] \in {"r_seek", "r_clear"} /\ UNCHANGED <<f_pos, delivered>> /\ pc'[p] \in {"r_clear", "r_copy"}
      BY <1>0, <1>5 DEF ReadSeek, ReadClear, Step, Goto
    <2>2. "read" \in Ops[p] /\ f_pos[p] < buffer.total_size
      BY <1>0, <2>1 DEF Reader, ReadLabels, ReadSection
    <2> QED BY <2>1, <2>2, ReadInPlace
  <1>6. CASE ReadUnlock(p) \/ ReadRecheck(p)
    <2>1. /\ pc[p] \in {"r_unlock", "r_recheck"} /\ UNCHANGED <<f_pos, delivered>>
          /\ pc'[p] = "idle" \/ (pc'[p] \in {"r_recheck", "r_advance"} /\ frame'[p] = f)
      BY <1>0, <1>6 DEF ReadUnlock, Unlock, Step, ReadRecheck, CheckUnlocked, Return, Goto
    <2>2. "read" \in Ops[p]
      BY <1>0, <2>1 DEF ReadLabels, ReadSection
    <2>3. Has(f, f_pos[p], delivered[p], o1)
      <3>1. f \in ReadFrames /\ Has(f, f_pos[p], delivered[p], o)
        BY <1>0, <2>1 DEF Reader, ReadLabels, ReadSection
      <3>2. o \in Nat /\ o1 \in Nat /\ o1 >= o
        BY OldestType DEF TypeInv, Before, After
      <3> HIDE DEF o, o1, f
      <3>3. f.pos \in Nat /\ f.from \in Nat /\ f.from <= o + f.pos
        BY <3>1 DEF ReadFrames, Has
      <3>4. f.from <= o1 + f.pos
        BY <3>2, <3>3
      <3> QED BY <3>1, <3>4 DEF Has
    <2> HIDE DEF f
    <2> QED BY <2>1, <2>2, <2>3, ReadInPlace DEF ReadLabels, ReadSection
  <1>7. CASE ReadCopy(p) \/ ReadAdvance(p)
    BY <1>7, ReadCopyStep, ReadAdvanceStep
  <1> QED BY <1>1, <1>2, <1>3, <1>4, <1>5, <1>6, <1>7 DEF Read

(* Every step. *)
LEMMA ReadInvStep == Before /\ After /\ [Next]_vars => ReadInv'
  <1> SUFFICES ASSUME Before, After, [Next]_vars PROVE ReadInv'
    OBVIOUS
  <1>1. CASE UNCHANGED vars
    <2>1. UNCHANGED <<pc, frame, f_pos, delivered, buffer, committed>>
      BY <1>1 DEF vars, device, kernel, history
    <2>2. Settled' = Settled
      BY <2>1, SettledForm
    <2>3. Serial!Oldest' = Serial!Oldest
      BY <2>1, <2>2 DEF Serial!Oldest, Serial!Count, Serial!EntryAt
    <2>4. ReadInv
      BY DEF Before
    <2> QED BY <2>1, <2>3, <2>4 DEF ReadInv
  <1>2. ASSUME NEW p \in Procs,
               \/ Write(p) \/ Read(p) \/ Llseek(p) \/ Ioctl(p)
               \/ aesd_open(p) \/ aesd_release(p) \/ aesd_cleanup_module(p) \/ aesd_init_module(p)
        PROVE  ReadInv'
    <2>1. TypeInv
      BY DEF Before
    <2>2. CASE Write(p) \/ Ioctl(p)
      BY <2>1, <2>2, WriteNoReader, IoctlNoReader, NoReaderStep
    <2>3. CASE Read(p)
      BY <2>3, ReadReadStep
    <2>4. CASE Llseek(p) \/ aesd_open(p) \/ aesd_release(p) \/ aesd_cleanup_module(p) \/ aesd_init_module(p)
      BY <2>4, FileReadStep
    <2> QED BY <1>2, <2>2, <2>3, <2>4
  <1> QED BY <1>1, <1>2 DEF Next

(* The invariant of the readers. *)
THEOREM ReadInvariant == ASSUME SoleFlusher PROVE Spec => []ReadInv
  <1>0. SerialFlush
    BY SoleIsSerial
  <1>1. Init => ReadInv
    <2> SUFFICES ASSUME Init, NEW p \in Procs
                 PROVE  /\ pc[p] \in ReadLabels => "read" \in Ops[p]
                        /\ Reader(pc[p], frame[p], f_pos[p], delivered[p], Serial!Oldest, buffer.total_size)
      BY DEF ReadInv
    <2>1. pc[p] = "idle" /\ f_pos[p] = 0 /\ delivered[p] = 0
      BY DEF Init
    <2>2. Serial!Oldest \in Nat
      BY InitTypes, OldestType DEF TypeInv
    <2>3. delivered[p] <= Serial!Oldest + f_pos[p]
      BY <2>1, <2>2
    <2> QED BY <2>1, <2>3 DEF Reader, ReadLabels, ReadSection
  <1>2. Spec => [](DriverInv /\ TypeInv)
    BY <1>0, DriverInvariant, TypeInvariant, PTL
  <1>3. Spec => []Stream
    <2>1. Spec => []Proved!HoldsMostRecent
      BY <1>0, DriverImplementsRing, RingAssumed, Proved!HoldsMostRecentAlways, PTL
    <2> QED BY <2>1, SameStream, PTL
  <1>4. Spec => [][Proved!Oldest' >= Proved!Oldest]_Proved!vars
    BY <1>0, DriverImplementsRing, RingAssumed, Proved!OldestNeverGoesBack, PTL
  <1>5. /\ ReadInv /\ DriverInv /\ TypeInv /\ TypeInv' /\ Stream /\ [Next]_vars
        /\ [Proved!Oldest' >= Proved!Oldest]_Proved!vars
        => ReadInv'
    <2> SUFFICES ASSUME ReadInv, DriverInv, TypeInv, TypeInv', Stream, [Next]_vars,
                        [Proved!Oldest' >= Proved!Oldest]_Proved!vars
                 PROVE  ReadInv'
      OBVIOUS
    <2>1. Serial!Oldest \in Nat /\ Serial!Oldest' \in Nat
      <3>1. OldestOK'
        BY OldestTypeNext
      <3> QED BY <3>1, OldestType DEF TypeInv, OldestOK
    <2>2. Serial!Oldest' >= Serial!Oldest
      <3>1. CASE Proved!Oldest' >= Proved!Oldest
        BY <3>1, SameOldest
      <3>2. CASE UNCHANGED Proved!vars
        <4>1. Serial!Oldest' = Serial!Oldest
          BY <3>2 DEF Proved!vars, Serial!Oldest, Serial!Count, Serial!EntryAt
        <4> QED BY <2>1, <4>1
      <3> QED BY <3>1, <3>2
    <2> QED BY <2>1, <2>2, ReadInvStep DEF Before, After
  <1> QED BY <1>1, <1>2, <1>3, <1>4, <1>5, PTL DEF Spec

(* The data of a read is the part of the stream that starts at its file    *)
(* position, never more than count and never nothing inside the data, for  *)
(* any number of readers and writers and whatever they do between the copy *)
(* and the return.                                                         *)
THEOREM ReadReturnsStreamHolds == ASSUME SoleFlusher PROVE Spec => []ReadReturnsStream
  <1>1. TypeInv /\ ReadInv => ReadReturnsStream
    <2> SUFFICES ASSUME TypeInv, ReadInv, NEW p \in Procs,
                        pc[p] \in {"r_unlock", "r_recheck", "r_advance"},
                        frame[p].inside, frame[p].exact, frame[p].count > 0
                 PROVE  /\ Len(frame[p].data) \in 1 .. frame[p].count
                        /\ Numbered(frame[p].data, frame[p].from)
      BY DEF ReadReturnsStream, Numbered
    <2>1. Has(frame[p], f_pos[p], delivered[p], Serial!Oldest)
      BY DEF ReadInv, Reader
    <2>2. frame[p].count # 0
      OBVIOUS
    <2> QED BY <2>1, <2>2 DEF Has, Inexact
  <1> QED BY <1>1, ReadInvariant, TypeInvariant, PTL

(* No file gets a byte twice without a seek, however often writers         *)
(* overwrite what it is reading and however many of its reads fail.        *)
THEOREM NoRedeliveryHolds == ASSUME SoleFlusher PROVE Spec => []NoRedelivery
  <1>1. TypeInv /\ ReadInv => NoRedelivery
    <2> SUFFICES ASSUME TypeInv, ReadInv, NEW p \in Procs, pc[p] = "r_advance",
                        frame[p].pos = f_pos[p], frame[p].data # << >>
                 PROVE  frame[p].data[1][1] + frame[p].data[1][2] >= delivered[p]
      BY DEF NoRedelivery
    <2>1. Has(frame[p], f_pos[p], delivered[p], Serial!Oldest)
      BY DEF ReadInv, Reader
    <2>2. frame[p].data \in Seq(Nat \X Nat)
      BY DEF TypeInv, CallsOK, Fits, ReadLabels, ReadFrames
    <2>3. Len(frame[p].data) > 0
      BY <2>2
    <2> QED BY <2>1, <2>3 DEF Has, Number
  <1> QED BY <1>1, ReadInvariant, TypeInvariant, PTL
=============================================================================
