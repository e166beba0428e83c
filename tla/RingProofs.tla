---------------------------- MODULE RingProofs ----------------------------
(***************************************************************************)
(* For every capacity N, every set of entry sizes, every content of        *)
(* uninitialised memory and every number of bytes written:                 *)
(*                                                                         *)
(*   - RingInv is inductive, so the ring always holds exactly the most     *)
(*     recent writes and total_size never drifts;                          *)
(*   - the lookup finds every position inside the data, an exact copy      *)
(*     returns the next bytes of the stream, two reads with a large buffer *)
(*     return everything, and the seek finds the command asked for;        *)
(*   - the ring implements the bounded command log.                        *)
(***************************************************************************)
EXTENDS Ring, CircularBufferProofs, SequenceTheorems

(* A buffer as the module makes it holds nothing. *)
LEMMA FreshBuffersEmpty ==
  ASSUME NEW b \in FreshBuffers
  PROVE  /\ b \in Buffers(Nat)
         /\ b.in_offs = 0 /\ b.out_offs = 0 /\ ~b.full /\ b.total_size = 0
  <1>1. PICK junk \in [Slots -> Junk] : b = aesd_circular_buffer_init(junk)
    BY DEF FreshBuffers
  <1>2. junk \in [Slots -> Entries(Nat)]
    BY RingAssumption
  <1>3. 0 \in Slots
    BY CapacityAssumption DEF Slots
  <1> QED BY <1>1, <1>2, <1>3 DEF aesd_circular_buffer_init, Buffers

(* Nothing is stored in a freshly initialised ring. *)
LEMMA InitRing == Init => RingInv
  <1> SUFFICES ASSUME Init PROVE RingInv
    OBVIOUS
  <1>1. /\ buffer \in Buffers(Nat)
        /\ buffer.in_offs = 0 /\ buffer.out_offs = 0 /\ ~buffer.full /\ buffer.total_size = 0
    BY FreshBuffersEmpty DEF Init
  <1>2. appended = 0 /\ Count = 0
    BY <1>1 DEF Init, Count
  <1>3. TypeOK
    BY <1>1, <1>2 DEF TypeOK
  <1>4. OffsetsAgree
    BY <1>1 DEF OffsetsAgree
  <1>5. MostRecentWrites
    BY <1>2 DEF MostRecentWrites
  <1>6. TotalSizeExact
    BY <1>1, <1>2 DEF TotalSizeExact, Oldest
  <1> QED BY <1>3, <1>4, <1>5, <1>6 DEF RingInv

(* The bounds of the number of stored entries. *)
LEMMA CountBounds ==
  ASSUME buffer \in Buffers(Nat)
  PROVE  /\ Count \in 0 .. N
         /\ buffer.full <=> Count = N
  BY CapacityAssumption DEF Count, Buffers, Slots

(* Slot arithmetic: k places after an advanced offset is k + 1 places      *)
(* after the old one, and only the last place comes back to it.            *)
LEMMA SlotAfterSucc ==
  ASSUME NEW i \in Slots
  PROVE  /\ SlotAfter(i, 0) = i
         /\ SlotAfter(Succ(i), N - 1) = i
         /\ \A k \in 0 .. N - 2 : /\ SlotAfter(Succ(i), k) = SlotAfter(i, k + 1)
                                  /\ SlotAfter(i, k + 1) \in Slots
                                  /\ SlotAfter(i, k + 1) # i
  BY CapacityAssumption DEF Slots, SlotAfter, Succ

(* From slot 0 on, the place is the slot number. *)
LEMMA SlotAfterZero ==
  ASSUME NEW k \in Slots
  PROVE  SlotAfter(0, k) = k
  BY CapacityAssumption DEF Slots, SlotAfter

(* A place of the ring is a slot. *)
LEMMA SlotAfterIsSlot ==
  ASSUME NEW i \in Slots, NEW k \in Slots
  PROVE  SlotAfter(i, k) \in Slots
  BY CapacityAssumption DEF Slots, SlotAfter

(* Storing an entry changes one slot. *)
LEMMA StoreOneSlot ==
  ASSUME NEW f, f \in [Slots -> Entries(Nat)], NEW i \in Slots, NEW e, NEW g,
         g = [f EXCEPT ![i] = e]
  PROVE  /\ g[i] = e
         /\ \A j \in Slots : j # i => g[j] = f[j]
  OBVIOUS

(* add_entry to a ring that is not full puts the entry behind the stored   *)
(* ones, which stay where they are.                                        *)
LEMMA StoredGrows ==
  ASSUME buffer \in Buffers(Nat), OffsetsAgree, ~buffer.full,
         NEW e \in Entries(Nat), buffer' = aesd_circular_buffer_add_entry(buffer, e)
  PROVE  /\ buffer' \in Buffers(Nat)
         /\ OffsetsAgree'
         /\ Count' = Count + 1
         /\ \A k \in 0 .. Count - 1 : EntryAt(k)' = EntryAt(k)
         /\ buffer'.entry[SlotAfter(buffer'.out_offs, Count)] = e
         /\ buffer'.total_size = buffer.total_size + e.size
  <1>1. /\ buffer' \in Buffers(Nat)
        /\ buffer'.entry = [buffer.entry EXCEPT ![buffer.in_offs] = e]
        /\ buffer'.in_offs = Succ(buffer.in_offs)
        /\ buffer'.out_offs = buffer.out_offs
        /\ buffer'.full <=> buffer.in_offs + 1 = N
        /\ buffer'.total_size = buffer.total_size + e.size
    BY AddToNotFull
  <1>2. /\ buffer.out_offs = 0
        /\ buffer'.out_offs = 0
        /\ buffer.in_offs \in Slots
        /\ buffer.entry \in [Slots -> Entries(Nat)]
    BY <1>1 DEF OffsetsAgree, Buffers
  <1>3. OffsetsAgree'
    BY <1>1, <1>2 DEF OffsetsAgree, Succ
  <1>4. Count = buffer.in_offs
    BY DEF Count
  <1>5. Count' = Count + 1
    BY <1>1, <1>2, <1>4, CapacityAssumption DEF Count, Succ, Slots
  <1>6. /\ buffer'.entry[buffer.in_offs] = e
        /\ \A j \in Slots : j # buffer.in_offs => buffer'.entry[j] = buffer.entry[j]
    BY <1>1, <1>2, StoreOneSlot
  <1>7. ASSUME NEW k \in 0 .. Count - 1
        PROVE  EntryAt(k)' = EntryAt(k)
    <2>1. k \in Slots /\ k # buffer.in_offs
      BY <1>2, <1>4, CapacityAssumption DEF Slots
    <2>2. SlotAfter(buffer.out_offs, k) = k /\ SlotAfter(buffer'.out_offs, k) = k
      BY <1>2, <2>1, SlotAfterZero
    <2> QED BY <1>6, <2>1, <2>2 DEF EntryAt
  <1>8. buffer'.entry[SlotAfter(buffer'.out_offs, Count)] = e
    <2>1. SlotAfter(buffer'.out_offs, Count) = buffer.in_offs
      BY <1>2, <1>4, SlotAfterZero
    <2> QED BY <1>6, <2>1
  <1> QED BY <1>1, <1>3, <1>5, <1>7, <1>8

(* add_entry to a full ring drops the oldest entry, moves every other one  *)
(* place towards the oldest and puts the new one behind them.              *)
LEMMA StoredShifts ==
  ASSUME buffer \in Buffers(Nat), OffsetsAgree, buffer.full,
         NEW e \in Entries(Nat), buffer' = aesd_circular_buffer_add_entry(buffer, e)
  PROVE  /\ buffer' \in Buffers(Nat)
         /\ OffsetsAgree'
         /\ Count = N
         /\ Count' = N
         /\ \A k \in 0 .. N - 2 : EntryAt(k)' = EntryAt(k + 1)
         /\ buffer'.entry[SlotAfter(buffer'.out_offs, N - 1)] = e
         /\ buffer'.total_size = buffer.total_size - EntryAt(0).size + e.size
  <1>1. /\ buffer' \in Buffers(Nat)
        /\ buffer'.entry = [buffer.entry EXCEPT ![buffer.in_offs] = e]
        /\ buffer'.in_offs = Succ(buffer.in_offs)
        /\ buffer'.out_offs = Succ(buffer.out_offs)
        /\ buffer'.full
        /\ buffer'.total_size = buffer.total_size - buffer.entry[buffer.in_offs].size + e.size
    BY AddToFull
  <1>2. /\ buffer.out_offs = buffer.in_offs
        /\ buffer.out_offs \in Slots
        /\ buffer.entry \in [Slots -> Entries(Nat)]
    BY DEF OffsetsAgree, Buffers
  <1>3. OffsetsAgree'
    BY <1>1, <1>2 DEF OffsetsAgree
  <1>4. Count = N /\ Count' = N
    BY <1>1 DEF Count
  <1>5. /\ buffer'.entry[buffer.out_offs] = e
        /\ \A j \in Slots : j # buffer.out_offs => buffer'.entry[j] = buffer.entry[j]
    BY <1>1, <1>2, StoreOneSlot
  <1>6. /\ SlotAfter(buffer.out_offs, 0) = buffer.out_offs
        /\ SlotAfter(buffer'.out_offs, N - 1) = buffer.out_offs
        /\ \A k \in 0 .. N - 2 :
             /\ SlotAfter(buffer'.out_offs, k) = SlotAfter(buffer.out_offs, k + 1)
             /\ SlotAfter(buffer.out_offs, k + 1) \in Slots
             /\ SlotAfter(buffer.out_offs, k + 1) # buffer.out_offs
    BY <1>1, <1>2, SlotAfterSucc
  <1>7. ASSUME NEW k \in 0 .. N - 2
        PROVE  EntryAt(k)' = EntryAt(k + 1)
    BY <1>5, <1>6 DEF EntryAt
  <1>8. buffer'.entry[SlotAfter(buffer'.out_offs, N - 1)] = e
    BY <1>5, <1>6
  <1>9. buffer'.total_size = buffer.total_size - EntryAt(0).size + e.size
    BY <1>1, <1>2, <1>6 DEF EntryAt
  <1> QED BY <1>1, <1>3, <1>4, <1>7, <1>8, <1>9

(* Every place of the ring holds an entry. *)
LEMMA EntryAtType ==
  ASSUME buffer \in Buffers(Nat), NEW k \in Slots
  PROVE  EntryAt(k) \in Entries(Nat) /\ EntryAt(k).buffptr \in Nat /\ EntryAt(k).size \in Nat
  <1>1. buffer.out_offs \in Slots /\ buffer.entry \in [Slots -> Entries(Nat)]
    BY DEF Buffers
  <1>2. SlotAfter(buffer.out_offs, k) \in Slots
    BY <1>1, SlotAfterIsSlot
  <1> QED BY <1>1, <1>2 DEF EntryAt, Entries

(* Adding an entry to a ring that is not full preserves the invariant. *)
LEMMA AddGrowsInv ==
  ASSUME RingInv, NEW n \in Sizes, Add(n), ~buffer.full
  PROVE  RingInv'
  <1> DEFINE e == [buffptr |-> appended, size |-> n]
  <1>1. /\ buffer \in Buffers(Nat) /\ appended \in Nat /\ n \in Nat /\ OffsetsAgree
        /\ buffer.total_size \in Int
    BY RingAssumption DEF RingInv, TypeOK, Buffers
  <1>2. /\ e \in Entries(Nat) /\ e.buffptr = appended /\ e.size = n
        /\ buffer' = aesd_circular_buffer_add_entry(buffer, e) /\ appended' = appended + n
    BY <1>1 DEF Add, Entries
  <1> HIDE DEF e
  <1>3. /\ buffer' \in Buffers(Nat)
        /\ OffsetsAgree'
        /\ Count' = Count + 1
        /\ \A k \in 0 .. Count - 1 : EntryAt(k)' = EntryAt(k)
        /\ buffer'.entry[SlotAfter(buffer'.out_offs, Count)] = e
        /\ buffer'.total_size = buffer.total_size + e.size
    BY <1>1, <1>2, StoredGrows
  <1>4. Count \in 0 .. N - 1
    BY <1>1, CountBounds, CapacityAssumption
  <1>5. TypeOK'
    BY <1>1, <1>2, <1>3 DEF TypeOK
  <1>6. MostRecentWrites'
    <2> SUFFICES ASSUME NEW k \in 0 .. Count
                 PROVE  EntryAt(k)'.buffptr + EntryAt(k)'.size
                          = IF k + 1 < Count' THEN EntryAt(k + 1)'.buffptr ELSE appended'
      BY <1>3, <1>4 DEF MostRecentWrites
    <2>1. CASE k = Count
      <3>1. EntryAt(k)' = e
        BY <1>3, <2>1 DEF EntryAt
      <3> QED BY <1>1, <1>2, <1>3, <1>4, <2>1, <3>1
    <2>2. CASE k + 1 = Count
      <3>1. EntryAt(k + 1)' = e
        BY <1>3, <2>2 DEF EntryAt
      <3>2. EntryAt(k)' = EntryAt(k)
        BY <1>3, <1>4, <2>2
      <3>3. EntryAt(k).buffptr + EntryAt(k).size = appended
        BY <1>4, <2>2 DEF RingInv, MostRecentWrites
      <3> QED BY <1>1, <1>2, <1>3, <1>4, <2>2, <3>1, <3>2, <3>3
    <2>3. CASE k + 1 < Count
      <3>1. EntryAt(k + 1)' = EntryAt(k + 1) /\ EntryAt(k)' = EntryAt(k)
        BY <1>3, <1>4, <2>3
      <3>2. EntryAt(k).buffptr + EntryAt(k).size = EntryAt(k + 1).buffptr
        BY <1>4, <2>3 DEF RingInv, MostRecentWrites
      <3> QED BY <1>3, <1>4, <2>3, <3>1, <3>2
    <2> QED BY <1>4, <2>1, <2>2, <2>3
  <1>7. TotalSizeExact'
    <2>1. Oldest' = EntryAt(0)'.buffptr
      BY <1>3, <1>4 DEF Oldest
    <2>2. EntryAt(0)'.buffptr = Oldest
      <3>1. CASE Count = 0
        <4>1. EntryAt(0)' = e
          BY <1>3, <3>1 DEF EntryAt
        <4> QED BY <1>2, <3>1, <4>1 DEF Oldest
      <3>2. CASE Count # 0
        <4>1. EntryAt(0)' = EntryAt(0)
          BY <1>3, <1>4, <3>2
        <4> QED BY <3>2, <4>1 DEF Oldest
      <3> QED BY <3>1, <3>2
    <2>3. buffer.total_size = appended - Oldest
      BY DEF RingInv, TotalSizeExact
    <2>4. Oldest \in Nat
      <3>1. 0 \in Slots
        BY CapacityAssumption DEF Slots
      <3> QED BY <1>1, <3>1, EntryAtType DEF Oldest
    <2> QED BY <1>1, <1>2, <1>3, <2>1, <2>2, <2>3, <2>4 DEF TotalSizeExact
  <1> QED BY <1>3, <1>5, <1>6, <1>7 DEF RingInv

(* Overwriting the oldest entry of a full ring preserves the invariant:    *)
(* what total_size loses is exactly what the stream position of the oldest *)
(* byte advances by.                                                       *)
LEMMA AddShiftsInv ==
  ASSUME RingInv, NEW n \in Sizes, Add(n), buffer.full
  PROVE  RingInv'
  <1> DEFINE e == [buffptr |-> appended, size |-> n]
  <1>1. /\ buffer \in Buffers(Nat) /\ appended \in Nat /\ n \in Nat /\ OffsetsAgree
        /\ buffer.total_size \in Int
    BY RingAssumption DEF RingInv, TypeOK, Buffers
  <1>2. /\ e \in Entries(Nat) /\ e.buffptr = appended /\ e.size = n
        /\ buffer' = aesd_circular_buffer_add_entry(buffer, e) /\ appended' = appended + n
    BY <1>1 DEF Add, Entries
  <1> HIDE DEF e
  <1>3. /\ buffer' \in Buffers(Nat)
        /\ OffsetsAgree'
        /\ Count = N
        /\ Count' = N
        /\ \A k \in 0 .. N - 2 : EntryAt(k)' = EntryAt(k + 1)
        /\ buffer'.entry[SlotAfter(buffer'.out_offs, N - 1)] = e
        /\ buffer'.total_size = buffer.total_size - EntryAt(0).size + e.size
    BY <1>1, <1>2, StoredShifts
  <1>4. N \in Nat /\ N >= 1
    BY CapacityAssumption
  <1>5. EntryAt(N - 1)' = e
    BY <1>3 DEF EntryAt
  <1>6. TypeOK'
    BY <1>1, <1>2, <1>3 DEF TypeOK
  <1>7. \A k \in 0 .. N - 1 :
          EntryAt(k).buffptr + EntryAt(k).size
            = IF k + 1 < N THEN EntryAt(k + 1).buffptr ELSE appended
    BY <1>3 DEF RingInv, MostRecentWrites
  <1>8. MostRecentWrites'
    <2> SUFFICES ASSUME NEW k \in 0 .. N - 1
                 PROVE  EntryAt(k)'.buffptr + EntryAt(k)'.size
                          = IF k + 1 < N THEN EntryAt(k + 1)'.buffptr ELSE appended'
      BY <1>3 DEF MostRecentWrites
    <2>1. CASE k = N - 1
      BY <1>1, <1>2, <1>4, <1>5, <2>1
    <2>2. CASE k = N - 2
      <3>1. EntryAt(k)' = EntryAt(N - 1)
        BY <1>3, <1>4, <2>2
      <3>2. EntryAt(N - 1).buffptr + EntryAt(N - 1).size = appended
        BY <1>4, <1>7
      <3>3. EntryAt(k + 1)' = e
        BY <1>4, <1>5, <2>2
      <3> QED BY <1>2, <1>4, <2>2, <3>1, <3>2, <3>3
    <2>3. CASE k < N - 2
      <3>1. EntryAt(k)' = EntryAt(k + 1) /\ EntryAt(k + 1)' = EntryAt(k + 2)
        BY <1>3, <1>4, <2>3
      <3>2. EntryAt(k + 1).buffptr + EntryAt(k + 1).size = EntryAt(k + 2).buffptr
        BY <1>4, <1>7, <2>3
      <3> QED BY <1>4, <2>3, <3>1, <3>2
    <2> QED BY <1>4, <2>1, <2>2, <2>3
  <1>9. TotalSizeExact'
    <2>1. Oldest' = EntryAt(0)'.buffptr /\ Oldest = EntryAt(0).buffptr
      BY <1>3, <1>4 DEF Oldest
    <2>2. EntryAt(0).buffptr + EntryAt(0).size = EntryAt(0)'.buffptr
      <3>1. CASE N = 1
        BY <1>2, <1>5, <1>7, <3>1
      <3>2. CASE N > 1
        <4>1. EntryAt(0)' = EntryAt(1)
          BY <1>3, <1>4, <3>2
        <4> QED BY <1>4, <1>7, <3>2, <4>1
      <3> QED BY <1>4, <3>1, <3>2
    <2>3. buffer.total_size = appended - Oldest
      BY DEF RingInv, TotalSizeExact
    <2>4. EntryAt(0).buffptr \in Nat /\ EntryAt(0).size \in Nat
      <3>1. 0 \in Slots
        BY CapacityAssumption DEF Slots
      <3> QED BY <1>1, <3>1, EntryAtType
    <2> QED BY <1>1, <1>2, <1>3, <2>1, <2>2, <2>3, <2>4 DEF TotalSizeExact
  <1> QED BY <1>3, <1>6, <1>8, <1>9 DEF RingInv

(* A flush, or a new buffer, empties the ring whatever it held. *)
LEMMA EmptiedInv ==
  ASSUME RingInv, Flush \/ Load
  PROVE  RingInv'
  <1>1. buffer \in Buffers(Nat) /\ appended \in Nat
    BY DEF RingInv, TypeOK
  <1>2. /\ buffer' \in Buffers(Nat) /\ buffer'.in_offs = 0 /\ buffer'.out_offs = 0
        /\ ~buffer'.full /\ buffer'.total_size = 0
    <2>1. CASE Flush
      BY <1>1, <2>1, ResetOffsetsFields DEF Flush
    <2>2. CASE Load
      BY <2>2, FreshBuffersEmpty DEF Load
    <2> QED BY <2>1, <2>2
  <1>3. appended' = appended
    BY DEF Flush, Load
  <1>4. Count' = 0
    BY <1>2 DEF Count
  <1>5. TypeOK'
    BY <1>1, <1>2, <1>3 DEF TypeOK
  <1>6. OffsetsAgree'
    BY <1>2 DEF OffsetsAgree
  <1>7. MostRecentWrites'
    BY <1>4 DEF MostRecentWrites
  <1>8. TotalSizeExact'
    BY <1>1, <1>2, <1>3, <1>4 DEF TotalSizeExact, Oldest
  <1> QED BY <1>5, <1>6, <1>7, <1>8 DEF RingInv

(* RingInv is an invariant of the ring, for every N. *)
THEOREM RingInvariant == Spec => []RingInv
  <1>1. Init => RingInv
    BY InitRing
  <1>2. RingInv /\ [Next]_vars => RingInv'
    <2> SUFFICES ASSUME RingInv, [Next]_vars PROVE RingInv'
      OBVIOUS
    <2>1. CASE \E n \in Sizes : Add(n)
      <3>1. PICK n \in Sizes : Add(n)
        BY <2>1
      <3>2. buffer.full \in BOOLEAN
        BY DEF RingInv, TypeOK, Buffers
      <3> QED BY <3>1, <3>2, AddGrowsInv, AddShiftsInv
    <2>2. CASE Flush \/ Load
      BY <2>2, EmptiedInv
    <2>3. CASE UNCHANGED vars
      BY <2>3 DEF vars, RingInv, TypeOK, OffsetsAgree, MostRecentWrites, TotalSizeExact,
                  Oldest, Count, EntryAt
    <2> QED BY <2>1, <2>2, <2>3 DEF Next
  <1> QED BY <1>1, <1>2, PTL DEF Spec

(* The ring always holds the most recent writes, oldest first. *)
THEOREM MostRecentWritesHolds == Spec => []MostRecentWrites
  <1>1. RingInv => MostRecentWrites
    BY DEF RingInv
  <1> QED BY <1>1, RingInvariant, PTL

(* total_size is always the number of bytes stored. *)
THEOREM TotalSizeHolds == Spec => []TotalSizeExact
  <1>1. RingInv => TotalSizeExact
    BY DEF RingInv
  <1> QED BY <1>1, RingInvariant, PTL

-----------------------------------------------------------------------------
(* Reading *)

(* No entry the ring holds is empty: read_helper stops at the first one    *)
(* that is.                                                                *)
NoEmptyEntry == \A k \in 0 .. Count - 1 : EntryAt(k).size > 0

(* aesd_write adds no empty entry, so the ring never holds one. *)
LEMMA NoEmptyStep ==
  ASSUME RingInv, NoEmptyEntry, [Next]_vars
  PROVE  NoEmptyEntry'
  <1>1. buffer \in Buffers(Nat) /\ OffsetsAgree /\ appended \in Nat /\ buffer.full \in BOOLEAN
    BY DEF RingInv, TypeOK, Buffers
  <1>2. ASSUME NEW n \in Sizes, Add(n) PROVE NoEmptyEntry'
    <2> DEFINE e == [buffptr |-> appended, size |-> n]
    <2>1. n \in Nat /\ n > 0
      BY RingAssumption
    <2>2. e \in Entries(Nat) /\ e.size > 0 /\ buffer' = aesd_circular_buffer_add_entry(buffer, e)
      BY <1>1, <1>2, <2>1 DEF Add, Entries
    <2> HIDE DEF e
    <2>3. Count \in 0 .. N /\ N \in Nat /\ N > 0
      BY <1>1, CountBounds, CapacityAssumption
    <2>4. CASE ~buffer.full
      <3>1. /\ Count' = Count + 1
            /\ \A k \in 0 .. Count - 1 : EntryAt(k)' = EntryAt(k)
            /\ buffer'.entry[SlotAfter(buffer'.out_offs, Count)] = e
        BY <1>1, <2>2, <2>4, StoredGrows
      <3>2. ASSUME NEW k \in 0 .. Count' - 1 PROVE EntryAt(k)'.size > 0
        <4>1. CASE k = Count
          <5>1. EntryAt(k)' = e
            BY <3>1, <4>1 DEF EntryAt
          <5> QED BY <5>1, <2>2
        <4>2. CASE k # Count
          <5>1. k \in 0 .. Count - 1
            BY <2>3, <3>1, <4>2
          <5> QED BY <5>1, <3>1 DEF NoEmptyEntry
        <4> QED BY <4>1, <4>2
      <3> QED BY <3>2 DEF NoEmptyEntry
    <2>5. CASE buffer.full
      <3>1. /\ Count = N /\ Count' = N
            /\ \A k \in 0 .. N - 2 : EntryAt(k)' = EntryAt(k + 1)
            /\ buffer'.entry[SlotAfter(buffer'.out_offs, N - 1)] = e
        BY <1>1, <2>2, <2>5, StoredShifts
      <3>2. ASSUME NEW k \in 0 .. Count' - 1 PROVE EntryAt(k)'.size > 0
        <4>1. CASE k = N - 1
          <5>1. EntryAt(k)' = e
            BY <3>1, <4>1 DEF EntryAt
          <5> QED BY <5>1, <2>2
        <4>2. CASE k # N - 1
          <5>1. k \in 0 .. N - 2 /\ k + 1 \in 0 .. Count - 1
            BY <2>3, <3>1, <4>2
          <5> QED BY <5>1, <3>1 DEF NoEmptyEntry
        <4> QED BY <4>1, <4>2
      <3> QED BY <3>2 DEF NoEmptyEntry
    <2> QED BY <1>1, <2>4, <2>5
  <1>3. CASE Flush \/ Load
    <2>1. Count' = 0
      <3>1. CASE Flush
        BY <3>1 DEF Flush, Count, ResetOffsets
      <3>2. CASE Load
        BY <3>2, FreshBuffersEmpty DEF Load, Count
      <3> QED BY <1>3, <3>1, <3>2
    <2> QED BY <2>1 DEF NoEmptyEntry
  <1>4. CASE UNCHANGED vars
    BY <1>4 DEF vars, NoEmptyEntry, Count, EntryAt
  <1> QED BY <1>2, <1>3, <1>4 DEF Next

(* So the ring holds the last part of the stream, in the sense of the      *)
(* lemmas about the search and the copy.                                   *)
HoldsMostRecent ==
  /\ HoldsStream(buffer, appended)
  /\ Held(buffer) = Count
  /\ \A k \in 0 .. N - 1 : Nth(buffer, k) = EntryAt(k)
  /\ StartOf(buffer, appended, 0) = Oldest

(* That is what the ring's invariant and NoEmptyEntry say together. *)
LEMMA HoldsMostRecentFrom == RingInv /\ NoEmptyEntry => HoldsMostRecent
  <1> SUFFICES ASSUME RingInv, NoEmptyEntry PROVE HoldsMostRecent
    OBVIOUS
  <1>1. buffer \in Buffers(Nat) /\ appended \in Nat
    BY DEF RingInv, TypeOK
  <1>2. Held(buffer) = Count /\ \A k : Nth(buffer, k) = EntryAt(k)
    BY DEF Held, Count, Nth, EntryAt
  <1>3. Count \in 0 .. N /\ N \in Nat
    BY <1>1, CountBounds, CapacityAssumption
  <1>4. StartOf(buffer, appended, 0) = Oldest
    BY <1>2, <1>3 DEF StartOf, Oldest
  <1>5. ASSUME NEW k \in 0 .. Held(buffer) - 1
        PROVE  /\ Nth(buffer, k).size > 0
               /\ StartOf(buffer, appended, k) + Nth(buffer, k).size = StartOf(buffer, appended, k + 1)
    <2>1. EntryAt(k).buffptr + EntryAt(k).size
            = IF k + 1 < Count THEN EntryAt(k + 1).buffptr ELSE appended
      BY <1>2 DEF RingInv, MostRecentWrites
    <2>2. StartOf(buffer, appended, k) = EntryAt(k).buffptr
      BY <1>2, <1>3 DEF StartOf
    <2>3. StartOf(buffer, appended, k + 1) = IF k + 1 < Count THEN EntryAt(k + 1).buffptr ELSE appended
      BY <1>2 DEF StartOf
    <2>4. Nth(buffer, k).size > 0
      BY <1>2 DEF NoEmptyEntry
    <2> QED BY <1>2, <2>1, <2>2, <2>3, <2>4
  <1>6. HoldsStream(buffer, appended)
    BY <1>1, <1>4, <1>5 DEF HoldsStream, RingInv, OffsetsAgree, TotalSizeExact
  <1> QED BY <1>2, <1>4, <1>6 DEF HoldsMostRecent

(* It always does. *)
THEOREM HoldsMostRecentAlways == Spec => []HoldsMostRecent
  <1>1. Init => NoEmptyEntry
    <2> SUFFICES ASSUME Init PROVE NoEmptyEntry
      OBVIOUS
    <2>1. Count = 0
      BY FreshBuffersEmpty DEF Count, Init
    <2> QED BY <2>1 DEF NoEmptyEntry
  <1>2. RingInv /\ NoEmptyEntry /\ [Next]_vars => NoEmptyEntry'
    BY NoEmptyStep
  <1>3. Spec => []NoEmptyEntry
    BY <1>1, <1>2, RingInvariant, PTL DEF Spec
  <1> QED BY <1>3, RingInvariant, HoldsMostRecentFrom, PTL

(* The oldest byte the ring holds never moves back in the stream, although *)
(* a flush and a reload throw bytes away: what a file position stands for  *)
(* only moves forward.                                                     *)
THEOREM OldestNeverGoesBack == Spec => [][Oldest' >= Oldest]_vars
  <1>1. RingInv /\ HoldsMostRecent /\ RingInv' /\ HoldsMostRecent' /\ [Next]_vars => [Oldest' >= Oldest]_vars
    <2> SUFFICES ASSUME RingInv, HoldsMostRecent, RingInv', HoldsMostRecent', Next PROVE Oldest' >= Oldest
      OBVIOUS
    <2>1. /\ appended \in Nat /\ buffer \in Buffers(Nat) /\ buffer.total_size \in Int
          /\ Oldest \in Nat /\ Oldest <= appended /\ Oldest = appended - buffer.total_size
      <3>1. HoldsStream(buffer, appended) /\ Oldest = StartOf(buffer, appended, 0)
        BY DEF HoldsMostRecent
      <3>2. Held(buffer) \in 0 .. N /\ N \in Nat /\ StartOf(buffer, appended, 0) \in Nat
        BY <3>1, HeldTypes
      <3>3. 0 \in 0 .. Held(buffer) /\ Held(buffer) \in 0 .. Held(buffer)
        BY <3>2
      <3>4. StartOf(buffer, appended, 0) <= StartOf(buffer, appended, Held(buffer))
        BY <3>1, <3>3, StartsGoUp
      <3>5. StartOf(buffer, appended, Held(buffer)) = appended
        BY <3>2 DEF StartOf
      <3>6. appended \in Nat /\ buffer \in Buffers(Nat) /\ buffer.total_size \in Int
        BY DEF RingInv, TypeOK, Buffers
      <3>7. buffer.total_size = appended - Oldest
        BY DEF RingInv, TotalSizeExact
      <3> DEFINE o == Oldest
                 t == buffer.total_size
      <3>8. o \in Nat /\ o <= appended /\ t = appended - o /\ appended \in Nat
        BY <3>1, <3>2, <3>4, <3>5, <3>6, <3>7
      <3> HIDE DEF o, t
      <3>9. o = appended - t
        BY <3>8
      <3> QED BY <3>6, <3>8, <3>9 DEF o, t
    <2> DEFINE o == Oldest
               o1 == Oldest'
               t == buffer.total_size
               t1 == buffer'.total_size
    <2>2. o1 = appended' - t1
      <3>1. t1 = appended' - o1
        BY DEF RingInv, TotalSizeExact
      <3>2. t1 \in Int /\ appended' \in Nat /\ buffer' \in Buffers(Nat)
        BY DEF RingInv, TypeOK, Buffers
      <3>3. o1 \in Int
        <4>1. HoldsStream(buffer', appended') /\ o1 = StartOf(buffer', appended', 0)
          BY DEF HoldsMostRecent, HoldsStream, StartOf, Held, Nth
        <4>2. 0 \in 0 .. N
          BY CapacityAssumption
        <4> HIDE DEF o1
        <4> QED BY <4>1, <4>2, HeldTypes
      <3>4. \A x, y, z \in Int : x = y - z => z = y - x
        OBVIOUS
      <3>5. appended' \in Int
        BY <3>2
      <3> HIDE DEF o1, t1
      <3> QED BY <3>1, <3>2, <3>3, <3>4, <3>5, Zenon
    <2>3. ASSUME NEW n \in Sizes, Add(n) PROVE o1 >= o
      <3>1. n \in Nat /\ appended' = appended + n
        BY <2>3, RingAssumption DEF Add
      <3>2. \E d \in Nat : t1 = t - d + n
        <4> DEFINE e == [buffptr |-> appended, size |-> n]
        <4>1. buffer' = aesd_circular_buffer_add_entry(buffer, e) /\ e \in Entries(Nat) /\ e.size = n
          BY <2>1, <2>3, <3>1 DEF Add, Entries
        <4> HIDE DEF e
        <4>2. CASE buffer.full
          <5>1. buffer.entry[buffer.in_offs].size \in Nat
            BY <2>1 DEF Buffers, Entries
          <5>2. t1 = t - buffer.entry[buffer.in_offs].size + n
            BY <2>1, <4>1, <4>2 DEF aesd_circular_buffer_add_entry, DropOldSize, AddNewSize, StoreEntry,
                                    AdvanceIn, AdvanceOut, Buffers
          <5> QED BY <5>1, <5>2
        <4>3. CASE ~buffer.full
          <5>1. t1 = t + n
            BY <2>1, <4>1, <4>3 DEF aesd_circular_buffer_add_entry, AddNewSize, StoreEntry, AdvanceIn, Buffers
          <5>2. t + n = t - 0 + n
            BY <2>1, <3>1
          <5> QED BY <5>1, <5>2
        <4> QED BY <4>2, <4>3
      <3> HIDE DEF o, o1, t, t1
      <3>3. o = appended - t /\ t \in Int /\ appended \in Nat
        BY <2>1 DEF o, t
      <3> QED BY <2>2, <3>1, <3>2, <3>3
    <2>4. CASE Flush \/ Load
      <3>1. appended' = appended /\ t1 = 0
        BY <2>4, FreshBuffersEmpty DEF Flush, Load, ResetOffsets
      <3> HIDE DEF o1, t1
      <3>2. o1 = appended
        BY <2>1, <2>2, <3>1
      <3> QED BY <2>1, <3>2 DEF o1
    <2> QED BY <2>3, <2>4 DEF Next
  <1> QED BY <1>1, RingInvariant, HoldsMostRecentAlways, PTL DEF Spec

(* A byte inside an entry the ring holds, as the properties say it. *)
LEMMA InHeldIsStored ==
  ASSUME HoldsMostRecent, NEW byte, InHeld(buffer, byte)
  PROVE  \E k \in 1 .. Count : byte[1] = Stored[k].buffptr /\ byte[2] < Stored[k].size
  <1>1. Count \in 0 .. N /\ N \in Nat
    BY HeldTypes DEF HoldsMostRecent
  <1>2. PICK k \in 0 .. Count - 1 : byte[1] = Nth(buffer, k).buffptr /\ byte[2] < Nth(buffer, k).size
    BY DEF InHeld, HoldsMostRecent
  <1>3. k + 1 \in 1 .. Count /\ (k + 1) - 1 = k /\ k \in 0 .. N - 1
    BY <1>1
  <1>4. Stored[k + 1] = Nth(buffer, k)
    BY <1>3 DEF Stored, HoldsMostRecent
  <1> QED BY <1>2, <1>3, <1>4

(* The byte of an entry the ring holds, named by its slot. *)
LEMMA NamesHeldByte ==
  ASSUME HoldsMostRecent, NEW p \in Nat, NEW r, NEW k, IsByteOf(buffer, appended, p, r, k)
  PROVE  NamesByte(r, p)
  <1>0. /\ HoldsStream(buffer, appended) /\ Held(buffer) = Count /\ StartOf(buffer, appended, 0) = Oldest
        /\ Count \in 0 .. N /\ N \in Nat
    BY HeldTypes DEF HoldsMostRecent
  <1>4. /\ k \in 0 .. Count - 1
        /\ r.index = SlotAfter(buffer.out_offs, k) /\ r.byte < Nth(buffer, k).size
        /\ StartOf(buffer, appended, k) + r.byte = Oldest + p
    BY <1>0 DEF IsByteOf
  <1>5. buffer.entry[r.index] = Nth(buffer, k) /\ StartOf(buffer, appended, k) = Nth(buffer, k).buffptr
    BY <1>0, <1>4 DEF Nth, StartOf
  <1> DEFINE byte == <<buffer.entry[r.index].buffptr, r.byte>>
             d == <<byte>>
  <1>6. byte[1] = Nth(buffer, k).buffptr /\ byte[2] < Nth(buffer, k).size
    BY <1>4, <1>5
  <1> HIDE DEF byte
  <1>7. InHeld(buffer, byte)
    BY <1>0, <1>4, <1>6 DEF InHeld
  <1>8. \E m \in 1 .. Count : byte[1] = Stored[m].buffptr /\ byte[2] < Stored[m].size
    BY <1>7, InHeldIsStored
  <1>9. DOMAIN d = {1} /\ d[1] = byte
    OBVIOUS
  <1> HIDE DEF d
  <1>10. InsideStored(d)
    BY <1>8, <1>9 DEF InsideStored
  <1> QED BY <1>4, <1>5, <1>10 DEF d, byte, NamesByte

(* A position inside the data is found. *)
LEMMA FindsPosition ==
  ASSUME HoldsMostRecent, NEW p \in Positions, NEW rtn,
         NEW r, r = find_entry_offset_for_fpos(buffer, p, rtn)
  PROVE  /\ r.found
         /\ p # 0 => NamesByte(r, p)
         /\ p = 0 => NamesByte([r EXCEPT !.byte = 0], 0) /\ r.byte = rtn
  <1>0. /\ HoldsStream(buffer, appended) /\ Held(buffer) = Count /\ StartOf(buffer, appended, 0) = Oldest
        /\ Count \in 0 .. N /\ N \in Nat
    BY HeldTypes DEF HoldsMostRecent
  <1>1. p \in Nat /\ p < buffer.total_size
    BY <1>0 DEF Positions, HoldsStream, Buffers
  <1>2. CASE p # 0
    <2>1. r.found /\ \E k \in 0 .. Count - 1 : IsByteOf(buffer, appended, p, r, k)
      BY <1>0, <1>1, <1>2, FindInStream
    <2> QED BY <1>1, <1>2, <2>1, NamesHeldByte
  <1>3. CASE p = 0
    <2> DEFINE start == [r EXCEPT !.byte = 0]
    <2>1. r = [found |-> TRUE, index |-> buffer.out_offs, byte |-> rtn]
      BY <1>3 DEF find_entry_offset_for_fpos
    <2>2. start.index = start_entry(buffer, 0).index /\ start.byte = start_entry(buffer, 0).byte
      BY <2>1 DEF start_entry
    <2>3. PICK k \in 0 .. Count - 1 : IsByteOf(buffer, appended, 0, start_entry(buffer, 0), k)
      BY <1>0, <1>1, <1>3, StartInStream
    <2>4. IsByteOf(buffer, appended, 0, start, k)
      BY <2>2, <2>3 DEF IsByteOf
    <2>5. NamesByte(start, 0)
      BY <1>1, <1>3, <2>4, NamesHeldByte
    <2> QED BY <1>3, <2>1, <2>5
  <1> QED BY <1>2, <1>3

(* A position beyond the data is not found in an occupied slot. *)
LEMMA FindsNothingBeyond ==
  ASSUME HoldsMostRecent, NEW p \in Beyond \ {0},
         NEW r, r = find_entry_offset_for_fpos(buffer, p, 0), r.found
  PROVE  \E k \in Count .. N - 1 : r.index = SlotAfter(buffer.out_offs, k)
  <1>0. HoldsStream(buffer, appended) /\ Held(buffer) = Count /\ buffer.total_size \in Nat
    <2>1. HoldsStream(buffer, appended) /\ Held(buffer) = Count
      BY DEF HoldsMostRecent
    <2> DEFINE first == StartOf(buffer, appended, 0)
               last  == StartOf(buffer, appended, Held(buffer))
    <2>2. Held(buffer) \in 0 .. N /\ N \in Nat /\ appended \in Nat /\ first \in Nat
      BY <2>1, HeldTypes
    <2>3. 0 \in 0 .. Held(buffer) /\ Held(buffer) \in 0 .. Held(buffer)
      BY <2>2
    <2>4. first <= last
      BY <2>1, <2>3, StartsGoUp
    <2>5. last = appended
      BY <2>2 DEF StartOf
    <2>6. buffer.total_size = appended - first
      BY <2>1 DEF HoldsStream
    <2> HIDE DEF first, last
    <2> QED BY <2>1, <2>2, <2>4, <2>5, <2>6
  <1>1. p \in Nat /\ p # 0 /\ p >= buffer.total_size
    BY <1>0 DEF Beyond
  <1> QED BY <1>0, <1>1, FindInStream

(* In every reachable ring of every capacity, find_entry_offset_for_fpos   *)
(* finds every position inside the data: the stored entry and the byte in  *)
(* it for every position but 0, for which it finds the oldest entry and    *)
(* leaves *entry_offset_byte_rtn alone.  It finds no stored entry for a    *)
(* position beyond the data, and nothing at all when the ring is full.     *)
THEOREM FindCorrectHolds == Spec => []FindCorrect
  <1>1. HoldsMostRecent => FindCorrect
    BY FindsPosition, FindsNothingBeyond DEF FindCorrect
  <1> QED BY <1>1, HoldsMostRecentAlways, PTL

(* A sequence of bytes that is a part of the stream. *)
LEMMA PartAsStream ==
  ASSUME NEW d, NEW first \in Nat, NEW n \in Nat, StreamPart(d, first, n), NEW last, last = first + n
  PROVE  AsStream(d) = StreamBytes(first, last)
  <1>1. DOMAIN d = 1 .. n
    BY DEF StreamPart
  <1>2. last - first = n
    OBVIOUS
  <1>3. \A j \in 1 .. n : d[j][1] + d[j][2] = first + j - 1
    BY DEF StreamPart
  <1>4. AsStream(d) = [j \in 1 .. n |-> d[j][1] + d[j][2]]
    BY <1>1 DEF AsStream
  <1>5. StreamBytes(first, last) = [j \in 1 .. n |-> first + j - 1]
    BY <1>2 DEF StreamBytes
  <1> QED BY <1>3, <1>4, <1>5

(* One read, when the copy is exact. *)
LEMMA ReadsExactly ==
  ASSUME HoldsMostRecent, NEW p \in Positions, NEW c \in Counts \ {0}, ExactCopy(p, c),
         NEW d, d = read_entries(buffer, p, c), NEW start, start = Oldest + p
  PROVE  /\ InsideStored(d)
         /\ AsStream(d) = StreamBytes(start, IF start + c < SectionEnd(p) THEN start + c ELSE SectionEnd(p))
  <1>0. /\ HoldsStream(buffer, appended) /\ StartOf(buffer, appended, 0) = Oldest
        /\ N \in Nat /\ 0 \in 0 .. N
    BY HeldTypes DEF HoldsMostRecent
  <1>1. p \in Nat /\ p < buffer.total_size
    BY <1>0 DEF Positions, HoldsStream, Buffers
  <1>2. c \in Nat \ {0}
    BY RingAssumption
  <1>3. SectionEnd(p) = StopOf(buffer, appended, p)
    BY DEF SectionEnd, StopOf
  <1>4. PICK k, m \in 0 .. N :
           /\ ReadsEntries(buffer, appended, p, k, m)
           /\ \A count \in Nat \ {0} :
                Exact(Nth(buffer, k).size, start_entry(buffer, p).byte, count,
                      StopOf(buffer, appended, p) - (StartOf(buffer, appended, 0) + p))
                  => ReadsStream(buffer, appended, p, count)
    BY <1>0, <1>1, ReadInStream
  <1> DEFINE stop == StopOf(buffer, appended, p)
  <1>5. /\ buffer.entry[start_entry(buffer, p).index] = Nth(buffer, k)
        /\ stop \in Nat /\ start < stop
    BY <1>0, <1>4 DEF ReadsEntries
  <1>6. Exact(Nth(buffer, k).size, start_entry(buffer, p).byte, c, stop - start)
    BY <1>3, <1>5 DEF ExactCopy, Exact
  <1>7. ReadsStream(buffer, appended, p, c)
    BY <1>0, <1>2, <1>4, <1>6
  <1>8. /\ d \in Seq(Nat \X Nat)
        /\ Len(d) = IF stop - start < c THEN stop - start ELSE c
        /\ \A j \in 1 .. Len(d) : d[j][1] + d[j][2] = start + j - 1 /\ InHeld(buffer, d[j])
    BY <1>0, <1>7 DEF ReadsStream
  <1> HIDE DEF stop
  <1>9. start \in Nat /\ Len(d) \in Nat /\ DOMAIN d = 1 .. Len(d)
    <2>1. Oldest \in Nat
      BY <1>0, HeldTypes
    <2> QED BY <2>1, <1>1, <1>8
  <1>10. InsideStored(d)
    BY <1>8, <1>9, InHeldIsStored DEF InsideStored
  <1>11. StreamPart(d, start, Len(d))
    BY <1>8 DEF StreamPart
  <1>12. (IF start + c < stop THEN start + c ELSE stop) = start + Len(d)
    BY <1>2, <1>5, <1>8, <1>9
  <1>13. AsStream(d) = StreamBytes(start, IF start + c < stop THEN start + c ELSE stop)
    BY <1>9, <1>11, <1>12, PartAsStream
  <1> QED BY <1>3, <1>10, <1>13 DEF stop

(* Whenever the copy of read_helper starts at the beginning of an entry,   *)
(* stays inside the first one or runs out of data first, aesd_read returns *)
(* exactly the next bytes of the stream, for every capacity, every file    *)
(* position and every count.                                               *)
THEOREM ReadExactHolds == Spec => []ReadExact
  <1>1. HoldsMostRecent => ReadExact
    BY ReadsExactly DEF ReadExact
  <1> QED BY <1>1, HoldsMostRecentAlways, PTL

(* Two reads with a large buffer return everything the ring holds, each    *)
(* byte once and in order, and the first of them returns something.        *)
THEOREM CatReturnsAllHolds == Spec => []CatReturnsAll
  <1>1. HoldsMostRecent => CatReturnsAll
    <2> SUFFICES ASSUME HoldsMostRecent, buffer.total_size > 0 PROVE CatReturnsAll
      BY DEF CatReturnsAll
    <2> DEFINE big == buffer.total_size + 1
               d1  == read_entries(buffer, 0, big)
               d2  == IF Len(d1) < buffer.total_size
                      THEN read_entries(buffer, Len(d1), big) ELSE << >>
    <2>0. /\ HoldsStream(buffer, appended) /\ StartOf(buffer, appended, 0) = Oldest
          /\ N \in Nat /\ 0 \in 0 .. N
      BY HeldTypes DEF HoldsMostRecent
    <2>1. /\ Len(d1) < buffer.total_size => d2 = read_entries(buffer, Len(d1), big)
          /\ ~(Len(d1) < buffer.total_size) => d2 = << >>
      <3> HIDE DEF d1
      <3> QED OBVIOUS
    <2> HIDE DEF d2
    <2>2. d1 # << >> /\ StreamPart(d1 \o d2, Oldest, buffer.total_size)
      <3>1. d1 # << >> /\ StreamPart(d1 \o d2, StartOf(buffer, appended, 0), buffer.total_size)
        BY <2>0, <2>1, CatInStream
      <3> QED BY <3>1, <2>0
    <2>3. Oldest \in Nat /\ buffer.total_size \in Nat /\ appended = Oldest + buffer.total_size
      <3>1. Oldest \in Nat
        BY <2>0, HeldTypes
      <3>2. appended \in Nat /\ buffer.total_size = appended - Oldest
        BY <2>0 DEF HoldsStream
      <3> QED BY <3>1, <3>2
    <2>4. AsStream(d1 \o d2) = StreamBytes(Oldest, appended)
      BY <2>2, <2>3, PartAsStream
    <2> QED BY <2>2, <2>4 DEF CatReturnsAll, d2
  <1> QED BY <1>1, HoldsMostRecentAlways, PTL

(* While the oldest entry is in slot 0, the position the seek ioctl        *)
(* computes is that of the requested byte of the requested write command.  *)
THEOREM SeekFindsCommandHolds == Spec => []SeekFindsCommand
  <1>1. HoldsMostRecent => SeekFindsCommand
    <2> SUFFICES ASSUME HoldsMostRecent, buffer.out_offs = 0,
                        NEW cmd \in 0 .. Count - 1, NEW off \in 0 .. EntryAt(cmd).size - 1
                 PROVE  Oldest + seekto_fpos(buffer, cmd, off) = EntryAt(cmd).buffptr + off
      BY DEF SeekFindsCommand
    <2>1. /\ HoldsStream(buffer, appended) /\ StartOf(buffer, appended, 0) = Oldest
          /\ Held(buffer) = Count /\ Count \in 0 .. N /\ N \in Nat /\ 0 \in 0 .. N
      BY HeldTypes DEF HoldsMostRecent
    <2>2. cmd \in 0 .. Held(buffer) /\ cmd \in 0 .. N - 1 /\ cmd \in 0 .. N /\ cmd < Held(buffer)
      BY <2>1
    <2>3. SizesBefore(buffer)[cmd] = StartOf(buffer, appended, cmd) - Oldest
      BY <2>1, <2>2, SeekInStream
    <2>4. StartOf(buffer, appended, cmd) = EntryAt(cmd).buffptr
      BY <2>1, <2>2 DEF StartOf, HoldsMostRecent
    <2>5. Oldest \in Nat /\ EntryAt(cmd).buffptr \in Nat /\ EntryAt(cmd).size \in Nat
      <3>1. StartOf(buffer, appended, 0) \in Nat /\ Nth(buffer, cmd).size \in Nat /\ Nth(buffer, cmd).buffptr \in Nat
        BY <2>1, <2>2, HeldTypes
      <3> QED BY <3>1, <2>1, <2>2 DEF HoldsMostRecent
    <2>6. off \in Nat
      BY <2>5
    <2>7. seekto_fpos(buffer, cmd, off) = (EntryAt(cmd).buffptr - Oldest) + off
      BY <2>3, <2>4 DEF seekto_fpos
    <2> QED BY <2>5, <2>6, <2>7
  <1> QED BY <1>1, HoldsMostRecentAlways, PTL

-----------------------------------------------------------------------------
(* Refinement of the command log *)

StoredShape ==
  /\ Stored \in Seq(Entries(Nat))
  /\ Len(Stored) = Count
  /\ \A k \in 1 .. Count : Stored[k] = EntryAt(k - 1)

(* Stored is a sequence of Count entries. *)
LEMMA StoredType == TypeOK => StoredShape
  <1> SUFFICES ASSUME TypeOK PROVE StoredShape
    OBVIOUS
  <1>1. buffer \in Buffers(Nat)
    BY DEF TypeOK
  <1>2. Count \in 0 .. N /\ Count \in Nat
    BY <1>1, CountBounds, CapacityAssumption
  <1>3. ASSUME NEW k \in 1 .. Count PROVE EntryAt(k - 1) \in Entries(Nat)
    <2>1. k - 1 \in Slots
      BY <1>2, CapacityAssumption DEF Slots
    <2> QED BY <1>1, <2>1, EntryAtType
  <1>4. Stored \in [1 .. Count -> Entries(Nat)]
    BY <1>3 DEF Stored
  <1> QED BY <1>2, <1>4 DEF Stored, StoredShape

(* The same of the next state. *)
LEMMA StoredTypeNext == TypeOK' => StoredShape'
  BY StoredType, PTL

(* Adding an entry to a ring that is not full records it in the log. *)
LEMMA GrowRecords ==
  ASSUME RingInv, RingInv', NEW n \in Sizes, Add(n), ~buffer.full
  PROVE  Log!Record(n)
  <1> DEFINE e == [buffptr |-> appended, size |-> n]
  <1>1. /\ buffer \in Buffers(Nat) /\ buffer' \in Buffers(Nat) /\ OffsetsAgree
        /\ appended \in Nat /\ n \in Nat
    BY RingAssumption DEF RingInv, TypeOK
  <1>2. e \in Entries(Nat) /\ buffer' = aesd_circular_buffer_add_entry(buffer, e)
    BY <1>1 DEF Add, Entries
  <1> HIDE DEF e
  <1>3. /\ Count' = Count + 1
        /\ \A k \in 0 .. Count - 1 : EntryAt(k)' = EntryAt(k)
        /\ buffer'.entry[SlotAfter(buffer'.out_offs, Count)] = e
    BY <1>1, <1>2, StoredGrows
  <1>4. /\ Stored \in Seq(Entries(Nat)) /\ Len(Stored) = Count
        /\ \A k \in 1 .. Count : Stored[k] = EntryAt(k - 1)
    BY StoredType DEF RingInv, StoredShape
  <1>5. /\ Stored' \in Seq(Entries(Nat)) /\ Len(Stored') = Count'
        /\ \A k \in 1 .. Count' : Stored'[k] = EntryAt(k - 1)'
    BY StoredTypeNext DEF RingInv, StoredShape
  <1>6. Count \in Nat /\ Count # N
    BY <1>1, CountBounds, CapacityAssumption
  <1>7. /\ Append(Stored, e) \in Seq(Entries(Nat))
        /\ Len(Append(Stored, e)) = Count + 1
        /\ \A k \in 1 .. Count : Append(Stored, e)[k] = Stored[k]
        /\ Append(Stored, e)[Count + 1] = e
    BY <1>2, <1>4, AppendProperties
  <1>8. ASSUME NEW k \in 1 .. Count + 1 PROVE Stored'[k] = Append(Stored, e)[k]
    <2>1. CASE k = Count + 1
      <3>1. EntryAt(k - 1)' = e
        BY <1>3, <1>6, <2>1 DEF EntryAt
      <3> QED BY <1>3, <1>5, <1>6, <1>7, <2>1, <3>1
    <2>2. CASE k # Count + 1
      <3>1. EntryAt(k - 1)' = EntryAt(k - 1)
        BY <1>3, <1>6, <2>2
      <3> QED BY <1>3, <1>4, <1>5, <1>6, <1>7, <2>2, <3>1
    <2> QED BY <2>1, <2>2
  <1>9. Stored' = Append(Stored, e)
    BY <1>3, <1>5, <1>7, <1>8, SeqEqual
  <1>10. appended' = appended + n
    BY DEF Add
  <1> QED BY <1>4, <1>6, <1>9, <1>10 DEF Log!Record, e

(* Overwriting the oldest entry drops it from the log and records the new  *)
(* one.                                                                    *)
LEMMA ShiftRecords ==
  ASSUME RingInv, RingInv', NEW n \in Sizes, Add(n), buffer.full
  PROVE  Log!Record(n)
  <1> DEFINE e == [buffptr |-> appended, size |-> n]
             t == Tail(Stored)
  <1>1. /\ buffer \in Buffers(Nat) /\ buffer' \in Buffers(Nat) /\ OffsetsAgree
        /\ appended \in Nat /\ n \in Nat
    BY RingAssumption DEF RingInv, TypeOK
  <1>2. e \in Entries(Nat) /\ buffer' = aesd_circular_buffer_add_entry(buffer, e)
    BY <1>1 DEF Add, Entries
  <1> HIDE DEF e
  <1>3. /\ Count = N /\ Count' = N
        /\ \A k \in 0 .. N - 2 : EntryAt(k)' = EntryAt(k + 1)
        /\ buffer'.entry[SlotAfter(buffer'.out_offs, N - 1)] = e
    BY <1>1, <1>2, StoredShifts
  <1>4. /\ Stored \in Seq(Entries(Nat)) /\ Len(Stored) = N
        /\ \A k \in 1 .. N : Stored[k] = EntryAt(k - 1)
    BY <1>3, StoredType DEF RingInv, StoredShape
  <1>5. /\ Stored' \in Seq(Entries(Nat)) /\ Len(Stored') = N
        /\ \A k \in 1 .. N : Stored'[k] = EntryAt(k - 1)'
    BY <1>3, StoredTypeNext DEF RingInv, StoredShape
  <1>6. N \in Nat /\ N >= 1
    BY CapacityAssumption
  <1>7. /\ t \in Seq(Entries(Nat)) /\ Len(t) = N - 1
        /\ \A k \in 1 .. N - 1 : t[k] = Stored[k + 1]
    <2>1. Stored # << >>
      BY <1>4, <1>6
    <2> QED BY <1>4, <2>1, HeadTailProperties
  <1> HIDE DEF t
  <1>8. /\ Append(t, e) \in Seq(Entries(Nat)) /\ Len(Append(t, e)) = N
        /\ \A k \in 1 .. N - 1 : Append(t, e)[k] = t[k]
        /\ Append(t, e)[N] = e
    <2>1. /\ Append(t, e) \in Seq(Entries(Nat)) /\ Len(Append(t, e)) = Len(t) + 1
          /\ \A k \in 1 .. Len(t) : Append(t, e)[k] = t[k]
          /\ Append(t, e)[Len(t) + 1] = e
      BY <1>2, <1>7, AppendProperties
    <2> QED BY <1>6, <1>7, <2>1
  <1>9. ASSUME NEW k \in 1 .. N PROVE Stored'[k] = Append(t, e)[k]
    <2>1. CASE k = N
      <3>1. EntryAt(k - 1)' = e
        BY <1>3, <2>1 DEF EntryAt
      <3> QED BY <1>5, <1>6, <1>8, <2>1, <3>1
    <2>2. CASE k # N
      <3>1. k \in 1 .. N - 1 /\ k - 1 \in 0 .. N - 2 /\ k + 1 \in 1 .. N
        BY <1>6, <2>2
      <3>2. EntryAt(k - 1)' = EntryAt(k)
        BY <1>3, <1>6, <3>1
      <3>3. Append(t, e)[k] = Stored[k + 1]
        BY <1>7, <1>8, <3>1
      <3>4. Stored[k + 1] = EntryAt((k + 1) - 1) /\ (k + 1) - 1 = k
        BY <1>4, <1>6, <3>1
      <3> QED BY <1>5, <3>2, <3>3, <3>4
    <2> QED BY <2>1, <2>2
  <1>10. Stored' = Append(t, e)
    BY <1>5, <1>8, <1>9, SeqEqual
  <1>11. appended' = appended + n
    BY DEF Add
  <1> QED BY <1>4, <1>10, <1>11 DEF Log!Record, e, t

(* An empty ring is an empty log. *)
LEMMA EmptyStored == Count = 0 => Stored = << >>
  BY DEF Stored

(* The same of the next state. *)
LEMMA EmptyStoredNext == (Count = 0)' => (Stored = << >>)'
  BY EmptyStored, PTL

(* The ring implements the command log: whatever the capacity, every       *)
(* add_entry is one Record of the abstract log, and a flush or a new       *)
(* buffer is one Forget.                                                   *)
THEOREM RingRefinesLog == Spec => ImplementsLog
  <1>1. Init => Log!Init
    <2> SUFFICES ASSUME Init PROVE Log!Init
      OBVIOUS
    <2>1. Count = 0 /\ appended = 0
      BY FreshBuffersEmpty DEF Count, Init
    <2> QED BY <2>1, EmptyStored DEF Log!Init
  <1>2. RingInv /\ RingInv' /\ [Next]_vars => [Log!Next]_<<Stored, appended>>
    <2> SUFFICES ASSUME RingInv, RingInv', [Next]_vars PROVE [Log!Next]_<<Stored, appended>>
      OBVIOUS
    <2>1. CASE \E n \in Sizes : Add(n)
      <3>1. PICK n \in Sizes : Add(n)
        BY <2>1
      <3>2. buffer.full \in BOOLEAN
        BY DEF RingInv, TypeOK, Buffers
      <3>3. Log!Record(n)
        BY <3>1, <3>2, GrowRecords, ShiftRecords
      <3> QED BY <3>3 DEF Log!Next
    <2>2. CASE Flush \/ Load
      <3>1. UNCHANGED appended
        BY <2>2 DEF Flush, Load
      <3>2. Count' = 0
        <4>1. CASE Flush
          BY <4>1 DEF Flush, Count, ResetOffsets
        <4>2. CASE Load
          BY <4>2, FreshBuffersEmpty DEF Load, Count
        <4> QED BY <2>2, <4>1, <4>2
      <3> QED BY <3>1, <3>2, EmptyStoredNext DEF Log!Next, Log!Forget
    <2>3. CASE UNCHANGED vars
      BY <2>3 DEF vars, Stored, Count, EntryAt
    <2> QED BY <2>1, <2>2, <2>3 DEF Next
  <1> QED BY <1>1, <1>2, RingInvariant, PTL DEF Spec, ImplementsLog, Log!Spec
=============================================================================
