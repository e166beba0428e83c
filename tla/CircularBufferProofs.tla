----------------------- MODULE CircularBufferProofs -----------------------
(***************************************************************************)
(* The lemmas about the circular buffer's functions that the proofs about  *)
(* the ring, the driver and the server rest on:                            *)
(*                                                                         *)
(*   - what each assignment group of add_entry does to every field of the  *)
(*     buffer, for any set P of pointers;                                  *)
(*   - what the loops over the slots compute, by induction on the slot:    *)
(*     the sum of the sizes, the search for a file position, the copy;     *)
(*   - what the search, the copy and the seek find in a ring that holds a  *)
(*     part of the stream of all bytes written.                            *)
(***************************************************************************)
EXTENDS CircularBuffer, SequenceTheorems, WellFoundedInduction, TLAPS

(* in_offs and out_offs stay slot numbers when they are advanced. *)
LEMMA SuccIsSlot == ASSUME NEW i \in Slots PROVE Succ(i) \in Slots
  BY CapacityAssumption DEF Succ, Slots

(* total_size -= entry[in_offs].size changes total_size alone. *)
LEMMA DropOldSizeFields ==
  ASSUME NEW P, NEW b \in Buffers(P)
  PROVE  /\ DropOldSize(b) \in Buffers(P)
         /\ DropOldSize(b).entry = b.entry
         /\ DropOldSize(b).in_offs = b.in_offs
         /\ DropOldSize(b).out_offs = b.out_offs
         /\ DropOldSize(b).full = b.full
         /\ DropOldSize(b).total_size = b.total_size - b.entry[b.in_offs].size
  BY DEF DropOldSize, Buffers, Entries

(* total_size += add_entry->size changes total_size alone. *)
LEMMA AddNewSizeFields ==
  ASSUME NEW P, NEW b \in Buffers(P), NEW e \in Entries(P)
  PROVE  /\ AddNewSize(b, e) \in Buffers(P)
         /\ AddNewSize(b, e).entry = b.entry
         /\ AddNewSize(b, e).in_offs = b.in_offs
         /\ AddNewSize(b, e).out_offs = b.out_offs
         /\ AddNewSize(b, e).full = b.full
         /\ AddNewSize(b, e).total_size = b.total_size + e.size
  BY DEF AddNewSize, Buffers, Entries

(* entry[in_offs] = *add_entry changes that slot alone. *)
LEMMA StoreEntryFields ==
  ASSUME NEW P, NEW b \in Buffers(P), NEW e \in Entries(P)
  PROVE  /\ StoreEntry(b, e) \in Buffers(P)
         /\ StoreEntry(b, e).entry = [b.entry EXCEPT ![b.in_offs] = e]
         /\ StoreEntry(b, e).in_offs = b.in_offs
         /\ StoreEntry(b, e).out_offs = b.out_offs
         /\ StoreEntry(b, e).full = b.full
         /\ StoreEntry(b, e).total_size = b.total_size
  BY DEF StoreEntry, Buffers

(* Advancing in_offs in a full ring changes in_offs alone. *)
LEMMA AdvanceInFullFields ==
  ASSUME NEW P, NEW b \in Buffers(P)
  PROVE  /\ AdvanceIn(b, TRUE) \in Buffers(P)
         /\ AdvanceIn(b, TRUE).entry = b.entry
         /\ AdvanceIn(b, TRUE).in_offs = Succ(b.in_offs)
         /\ AdvanceIn(b, TRUE).out_offs = b.out_offs
         /\ AdvanceIn(b, TRUE).full = b.full
         /\ AdvanceIn(b, TRUE).total_size = b.total_size
  <1>1. Succ(b.in_offs) \in Slots
    BY SuccIsSlot DEF Buffers
  <1> QED BY <1>1 DEF AdvanceIn, Buffers

(* Advancing in_offs otherwise also sets full when it passes the last slot. *)
LEMMA AdvanceInNotFullFields ==
  ASSUME NEW P, NEW b \in Buffers(P), ~b.full
  PROVE  /\ AdvanceIn(b, FALSE) \in Buffers(P)
         /\ AdvanceIn(b, FALSE).entry = b.entry
         /\ AdvanceIn(b, FALSE).in_offs = Succ(b.in_offs)
         /\ AdvanceIn(b, FALSE).out_offs = b.out_offs
         /\ AdvanceIn(b, FALSE).full <=> b.in_offs + 1 = N
         /\ AdvanceIn(b, FALSE).total_size = b.total_size
  <1>1. Succ(b.in_offs) \in Slots
    BY SuccIsSlot DEF Buffers
  <1> QED BY <1>1 DEF AdvanceIn, Buffers

(* Advancing out_offs changes out_offs alone. *)
LEMMA AdvanceOutFields ==
  ASSUME NEW P, NEW b \in Buffers(P)
  PROVE  /\ AdvanceOut(b) \in Buffers(P)
         /\ AdvanceOut(b).entry = b.entry
         /\ AdvanceOut(b).in_offs = b.in_offs
         /\ AdvanceOut(b).out_offs = Succ(b.out_offs)
         /\ AdvanceOut(b).full = b.full
         /\ AdvanceOut(b).total_size = b.total_size
  <1>1. Succ(b.out_offs) \in Slots
    BY SuccIsSlot DEF Buffers
  <1> QED BY <1>1 DEF AdvanceOut, Buffers

(* The flush resets the offsets, the full flag and total_size. *)
LEMMA ResetOffsetsFields ==
  ASSUME NEW P, NEW b \in Buffers(P)
  PROVE  /\ ResetOffsets(b) \in Buffers(P)
         /\ ResetOffsets(b).in_offs = 0
         /\ ResetOffsets(b).out_offs = 0
         /\ ~ResetOffsets(b).full
         /\ ResetOffsets(b).total_size = 0
  <1>1. 0 \in Slots
    BY CapacityAssumption DEF Slots
  <1> QED BY <1>1 DEF ResetOffsets, Buffers

(* add_entry to a full ring replaces the oldest entry and moves both       *)
(* offsets on.                                                             *)
LEMMA AddToFull ==
  ASSUME NEW P, NEW b \in Buffers(P), NEW e \in Entries(P), b.full,
         NEW c, c = aesd_circular_buffer_add_entry(b, e)
  PROVE  /\ c \in Buffers(P)
         /\ c.entry = [b.entry EXCEPT ![b.in_offs] = e]
         /\ c.in_offs = Succ(b.in_offs)
         /\ c.out_offs = Succ(b.out_offs)
         /\ c.full
         /\ c.total_size = b.total_size - b.entry[b.in_offs].size + e.size
  <1> DEFINE d == DropOldSize(b)
             a == AddNewSize(d, e)
             s == StoreEntry(a, e)
             i == AdvanceIn(s, TRUE)
  <1>1. c = AdvanceOut(i)
    BY DEF aesd_circular_buffer_add_entry
  <1> HIDE DEF d, a, s, i
  <1>2. /\ d \in Buffers(P) /\ d.entry = b.entry /\ d.in_offs = b.in_offs
        /\ d.out_offs = b.out_offs /\ d.full = b.full
        /\ d.total_size = b.total_size - b.entry[b.in_offs].size
    BY DropOldSizeFields DEF d
  <1>3. /\ a \in Buffers(P) /\ a.entry = b.entry /\ a.in_offs = b.in_offs
        /\ a.out_offs = b.out_offs /\ a.full = b.full
        /\ a.total_size = b.total_size - b.entry[b.in_offs].size + e.size
    BY <1>2, AddNewSizeFields DEF a
  <1>4. /\ s \in Buffers(P) /\ s.entry = [a.entry EXCEPT ![a.in_offs] = e]
        /\ s.in_offs = a.in_offs /\ s.out_offs = a.out_offs
        /\ s.full = a.full /\ s.total_size = a.total_size
    <2>1. a \in Buffers(P)
      BY <1>3
    <2> QED BY <2>1, StoreEntryFields DEF s
  <1>5. /\ i \in Buffers(P) /\ i.entry = s.entry /\ i.in_offs = Succ(s.in_offs)
        /\ i.out_offs = s.out_offs /\ i.full = s.full
        /\ i.total_size = s.total_size
    <2>1. s \in Buffers(P)
      BY <1>4
    <2> QED BY <2>1, AdvanceInFullFields DEF i
  <1>6. /\ c \in Buffers(P) /\ c.entry = i.entry /\ c.in_offs = i.in_offs
        /\ c.out_offs = Succ(i.out_offs) /\ c.full = i.full
        /\ c.total_size = i.total_size
    <2>1. i \in Buffers(P)
      BY <1>5
    <2> QED BY <1>1, <2>1, AdvanceOutFields
  <1>7. c.entry = [b.entry EXCEPT ![b.in_offs] = e]
    BY <1>3, <1>4, <1>5, <1>6
  <1>8. c.in_offs = Succ(b.in_offs) /\ c.out_offs = Succ(b.out_offs)
    BY <1>3, <1>4, <1>5, <1>6
  <1>9. c.full
    BY <1>3, <1>4, <1>5, <1>6
  <1>10. c.total_size = b.total_size - b.entry[b.in_offs].size + e.size
    BY <1>3, <1>4, <1>5, <1>6
  <1> QED BY <1>6, <1>7, <1>8, <1>9, <1>10

(* add_entry to a ring that is not full fills the next slot and leaves     *)
(* out_offs alone; filling the last slot makes the ring full.              *)
LEMMA AddToNotFull ==
  ASSUME NEW P, NEW b \in Buffers(P), NEW e \in Entries(P), ~b.full,
         NEW c, c = aesd_circular_buffer_add_entry(b, e)
  PROVE  /\ c \in Buffers(P)
         /\ c.entry = [b.entry EXCEPT ![b.in_offs] = e]
         /\ c.in_offs = Succ(b.in_offs)
         /\ c.out_offs = b.out_offs
         /\ c.full <=> b.in_offs + 1 = N
         /\ c.total_size = b.total_size + e.size
  <1> DEFINE a == AddNewSize(b, e)
             s == StoreEntry(a, e)
  <1>1. c = AdvanceIn(s, FALSE)
    BY DEF aesd_circular_buffer_add_entry
  <1> HIDE DEF a, s
  <1>2. /\ a \in Buffers(P) /\ a.entry = b.entry /\ a.in_offs = b.in_offs
        /\ a.out_offs = b.out_offs /\ a.full = b.full
        /\ a.total_size = b.total_size + e.size
    BY AddNewSizeFields DEF a
  <1>3. /\ s \in Buffers(P) /\ s.entry = [a.entry EXCEPT ![a.in_offs] = e]
        /\ s.in_offs = a.in_offs /\ s.out_offs = a.out_offs
        /\ s.full = a.full /\ s.total_size = a.total_size
    <2>1. a \in Buffers(P)
      BY <1>2
    <2> QED BY <2>1, StoreEntryFields DEF s
  <1>4. /\ c \in Buffers(P) /\ c.entry = s.entry /\ c.in_offs = Succ(s.in_offs)
        /\ c.out_offs = s.out_offs /\ (c.full <=> s.in_offs + 1 = N)
        /\ c.total_size = s.total_size
    <2>1. s \in Buffers(P) /\ ~s.full
      BY <1>2, <1>3
    <2> QED BY <1>1, <2>1, AdvanceInNotFullFields
  <1>5. c.entry = [b.entry EXCEPT ![b.in_offs] = e]
    BY <1>2, <1>3, <1>4
  <1>6. c.full <=> b.in_offs + 1 = N
    BY <1>2, <1>3, <1>4
  <1> QED BY <1>2, <1>3, <1>4, <1>5, <1>6

-----------------------------------------------------------------------------
(* Induction over slot numbers, and the functions the loops define. *)

(* A nonempty set of naturals has a least element. *)
LEMMA NatLeast ==
  ASSUME NEW T \in SUBSET Nat, T # {}
  PROVE  \E x \in T : \A y \in T : x <= y
  <1>1. PICK x \in T : \A y \in T : ~(<<y, x>> \in OpToRel(<, Nat))
    BY NatLessThanWellFounded, WFMin
  <1>2. \A y \in T : x \in Nat /\ y \in Nat /\ ~(y < x)
    BY <1>1 DEF OpToRel
  <1>3. \A y \in T : x <= y
    BY <1>2
  <1> QED BY <1>1, <1>3

(* Induction from m to n, for membership in a set. *)
LEMMA FromTo ==
  ASSUME NEW m \in Int, NEW n \in Int, NEW T, m \in T, \A k \in m .. n - 1 : k \in T => k + 1 \in T
  PROVE  \A k \in m .. n : k \in T
  <1> DEFINE B == {k \in m .. n : k \notin T}
             A == {k - m : k \in B}
  <1> SUFFICES ASSUME B # {} PROVE FALSE
    OBVIOUS
  <1>1. A \in SUBSET Nat /\ A # {}
    OBVIOUS
  <1>2. PICK x \in A : \A y \in A : x <= y
    <2> HIDE DEF A
    <2> QED BY <1>1, NatLeast
  <1>3. PICK k \in B : x = k - m
    BY <1>2
  <1>4. k # m /\ k - 1 \in m .. n - 1
    BY <1>3
  <1>5. k - 1 \in T
    <2> SUFFICES ASSUME k - 1 \in B PROVE FALSE
      BY <1>4
    <2>1. k - 1 - m \in A
      OBVIOUS
    <2> QED BY <1>2, <1>3, <2>1
  <1>6. k - 1 + 1 \in T
    BY <1>4, <1>5
  <1> QED BY <1>3, <1>6

(* The function that starts with x at m and goes on by g exists. *)
IsIteration(f, m, n, x, g) == f[m] = x /\ \A i \in m .. n - 1 : f[i + 1] = g[i][f[i]]

(* A loop that runs from m to n has a sequence of states: by the greatest  *)
(* l up to which there is one.                                             *)
LEMMA Iterates ==
  ASSUME NEW m \in Int, NEW n \in Int, m <= n,
         NEW St, NEW x \in St, NEW g \in [m .. n - 1 -> [St -> St]]
  PROVE  \E f \in [m .. n -> St] : IsIteration(f, m, n, x, g)
  <1> DEFINE Good(l, f) == f[m] = x /\ \A i \in m .. l - 1 : f[i + 1] = g[i][f[i]]
             T == {l \in m .. n : \E f \in [m .. n -> St] : Good(l, f)}
  <1>1. m \in T
    <2>1. [i \in m .. n |-> x] \in [m .. n -> St] /\ Good(m, [i \in m .. n |-> x])
      OBVIOUS
    <2>2. \E f \in [m .. n -> St] : Good(m, f)
      <3> HIDE DEF Good
      <3> QED BY <2>1
    <2> HIDE DEF Good
    <2> QED BY <2>2
  <1>2. ASSUME NEW k \in m .. n - 1, k \in T PROVE k + 1 \in T
    <2>1. PICK f \in [m .. n -> St] : Good(k, f)
      BY <1>2
    <2> DEFINE h == [f EXCEPT ![k + 1] = g[k][f[k]]]
    <2>2. f[k] \in St /\ g[k] \in [St -> St] /\ g[k][f[k]] \in St
      OBVIOUS
    <2>3. h \in [m .. n -> St]
      BY <2>2
    <2>4. Good(k + 1, h)
      <3>1. h[k + 1] = g[k][f[k]] /\ \A i \in m .. k : h[i] = f[i]
        OBVIOUS
      <3>2. f[m] = x /\ \A i \in m .. k - 1 : f[i + 1] = g[i][f[i]]
        BY <2>1
      <3> HIDE DEF h
      <3>3. h[m] = x /\ \A i \in m .. k - 1 : h[i + 1] = g[i][h[i]]
        BY <3>1, <3>2
      <3>4. \A i \in m .. k + 1 - 1 : h[i + 1] = g[i][h[i]]
        BY <3>1, <3>3
      <3> QED BY <3>3, <3>4
    <2>5. \E i \in [m .. n -> St] : Good(k + 1, i)
      <3> HIDE DEF Good, h
      <3> QED BY <2>3, <2>4
    <2> HIDE DEF Good
    <2> QED BY <2>5
  <1>3. \A k \in m .. n : k \in T
    <2> HIDE DEF T
    <2> QED BY <1>1, <1>2, FromTo
  <1>4. PICK f \in [m .. n -> St] : Good(n, f)
    <2>1. n \in T
      <3> HIDE DEF T
      <3> QED BY <1>3
    <2> HIDE DEF Good
    <2> QED BY <2>1
  <1> QED BY <1>4 DEF IsIteration

(* Steps that never go down never go down in sum. *)
LEMMA Monotone ==
  ASSUME NEW m \in Int, NEW n \in Int, NEW h, \A k \in m .. n : h[k] \in Int,
         \A k \in m .. n - 1 : h[k] <= h[k + 1],
         NEW i \in m .. n, NEW j \in i .. n
  PROVE  h[i] <= h[j]
  <1> DEFINE T == {k \in i .. n : h[i] <= h[k]}
  <1>1. i \in T
    OBVIOUS
  <1>2. ASSUME NEW k \in i .. n - 1, k \in T PROVE k + 1 \in T
    BY <1>2
  <1>3. \A k \in i .. n : k \in T
    <2> HIDE DEF T
    <2> QED BY <1>1, <1>2, FromTo
  <1> QED BY <1>3

(* The sum of the sizes of the slots below k, slot by slot. *)
LEMMA SizesBeforeDef ==
  ASSUME NEW P, NEW b \in Buffers(P)
  PROVE  /\ SizesBefore(b) \in [0 .. N -> Nat]
         /\ SizesBefore(b)[0] = 0
         /\ \A k \in Slots : SizesBefore(b)[k + 1] = SizesBefore(b)[k] + b.entry[k].size
  <1> DEFINE g == [k \in 0 .. N - 1 |-> [s \in Nat |-> s + b.entry[k].size]]
             IsSum(f) == f = [k \in 0 .. N |-> IF k = 0 THEN 0 ELSE f[k - 1] + b.entry[k - 1].size]
  <1>0. N \in Nat /\ N > 0
    BY CapacityAssumption
  <1>1. \A k \in 0 .. N - 1 : b.entry[k].size \in Nat
    BY DEF Buffers, Entries, Slots
  <1>2. g \in [0 .. N - 1 -> [Nat -> Nat]]
    BY <1>1
  <1>3. PICK f \in [0 .. N -> Nat] : IsIteration(f, 0, N, 0, g)
    <2>1. 0 \in Int /\ N \in Int /\ 0 <= N /\ 0 \in Nat
      BY <1>0
    <2> HIDE DEF g
    <2> QED BY <2>1, <1>2, Iterates, Zenon
  <1>4. IsSum(f)
    <2>1. \A i \in 0 .. N - 1 : f[i + 1] = f[i] + b.entry[i].size
      <3>1. \A i \in 0 .. N - 1 : f[i] \in Nat
        BY <1>0
      <3> QED BY <1>3, <3>1 DEF IsIteration
    <2>2. \A k \in 0 .. N : f[k] = IF k = 0 THEN 0 ELSE f[k - 1] + b.entry[k - 1].size
      BY <1>3, <2>1, <1>0 DEF IsIteration
    <2> QED BY <2>2
  <1>5. SizesBefore(b) = CHOOSE h : IsSum(h)
    BY Zenon DEF SizesBefore
  <1>6. IsSum(SizesBefore(b))
    <2> HIDE DEF IsSum
    <2> QED BY <1>4, <1>5
  <1> DEFINE s == SizesBefore(b)
  <1>7. /\ DOMAIN s = 0 .. N /\ s[0] = 0
        /\ \A k \in 0 .. N - 1 : s[k + 1] = s[k] + b.entry[k].size
    <2> HIDE DEF s
    <2>1. s = [k \in 0 .. N |-> IF k = 0 THEN 0 ELSE s[k - 1] + b.entry[k - 1].size]
      BY <1>6 DEF s
    <2> QED BY <2>1, <1>0
  <1>8. \A k \in 0 .. N : s[k] \in Nat
    <2> DEFINE T == {k \in 0 .. N : s[k] \in Nat}
    <2> HIDE DEF s
    <2>1. 0 \in T
      BY <1>7, <1>0
    <2>2. ASSUME NEW k \in 0 .. N - 1, k \in T PROVE k + 1 \in T
      <3>1. k \in 0 .. N /\ k + 1 \in 0 .. N
        BY <1>0
      <3>2. s[k + 1] \in Nat
        BY <2>2, <3>1, <1>7, <1>1
      <3> QED BY <3>1, <3>2
    <2>3. \A k \in 0 .. N : k \in T
      <3> HIDE DEF T
      <3>1. 0 \in Int /\ N \in Int
        BY <1>0
      <3> QED BY <2>1, <2>2, <3>1, FromTo, Zenon
    <2> QED BY <2>3
  <1>9. s \in [0 .. N -> Nat]
    <2> HIDE DEF s
    <2>1. s = [k \in 0 .. N |-> s[k]]
      BY <1>6 DEF s
    <2> QED BY <2>1, <1>8
  <1> QED BY <1>7, <1>9 DEF Slots

(* What is left of char_offset, slot by slot from the oldest on. *)
LEMMA RemainingDef ==
  ASSUME NEW P, NEW b \in Buffers(P), NEW x \in Int
  PROVE  /\ \A k \in 0 .. N : Remaining(b, x)[k] \in Int
         /\ Remaining(b, x)[0] = x
         /\ \A k \in Slots : /\ b.entry[SlotAfter(b.out_offs, k)].size \in Nat
                             /\ Remaining(b, x)[k + 1]
                                  = Remaining(b, x)[k] - b.entry[SlotAfter(b.out_offs, k)].size
  <1> DEFINE e(k) == b.entry[SlotAfter(b.out_offs, k)].size
             g == [k \in 0 .. N - 1 |-> [s \in Int |-> s - e(k)]]
             IsRest(f) == f = [k \in 0 .. N |-> IF k = 0 THEN x ELSE f[k - 1] - b.entry[SlotAfter(b.out_offs, k - 1)].size]
  <1>0. N \in Nat /\ N > 0
    BY CapacityAssumption
  <1>1. \A k \in 0 .. N - 1 : e(k) \in Nat
    <2>1. \A k \in 0 .. N - 1 : SlotAfter(b.out_offs, k) \in Slots
      BY <1>0 DEF SlotAfter, Slots, Buffers
    <2> QED BY <2>1 DEF Buffers, Entries
  <1>2. g \in [0 .. N - 1 -> [Int -> Int]]
    <2> HIDE DEF e
    <2> QED BY <1>1
  <1>3. PICK f \in [0 .. N -> Int] : IsIteration(f, 0, N, x, g)
    <2>1. 0 \in Int /\ N \in Int /\ 0 <= N
      BY <1>0
    <2> HIDE DEF g
    <2> QED BY <2>1, <1>2, Iterates, Zenon
  <1>4. IsRest(f)
    <2>1. \A i \in 0 .. N - 1 : f[i + 1] = f[i] - e(i)
      <3> HIDE DEF e
      <3>1. \A i \in 0 .. N - 1 : f[i] \in Int
        BY <1>0
      <3> QED BY <1>3, <3>1 DEF IsIteration
    <2>2. \A k \in 0 .. N : f[k] = IF k = 0 THEN x ELSE f[k - 1] - e(k - 1)
      <3> HIDE DEF e
      <3> QED BY <1>3, <2>1, <1>0 DEF IsIteration
    <2> QED BY <2>2
  <1>5. Remaining(b, x) = CHOOSE h : IsRest(h)
    BY Zenon DEF Remaining
  <1>6. IsRest(Remaining(b, x))
    <2> HIDE DEF IsRest
    <2> QED BY <1>4, <1>5
  <1> DEFINE s == Remaining(b, x)
  <1>7. s[0] = x /\ \A k \in 0 .. N - 1 : s[k + 1] = s[k] - e(k)
    <2> HIDE DEF s
    <2>1. s = [k \in 0 .. N |-> IF k = 0 THEN x ELSE s[k - 1] - b.entry[SlotAfter(b.out_offs, k - 1)].size]
      BY <1>6 DEF s
    <2> QED BY <2>1, <1>0
  <1>8. \A k \in 0 .. N : s[k] \in Int
    <2> DEFINE T == {k \in 0 .. N : s[k] \in Int}
    <2> HIDE DEF s, e
    <2>1. 0 \in T
      BY <1>7, <1>0
    <2>2. ASSUME NEW k \in 0 .. N - 1, k \in T PROVE k + 1 \in T
      <3>1. k \in 0 .. N /\ k + 1 \in 0 .. N
        BY <1>0
      <3>2. s[k + 1] \in Int
        BY <2>2, <3>1, <1>7, <1>1
      <3> QED BY <3>1, <3>2
    <2>3. \A k \in 0 .. N : k \in T
      <3> HIDE DEF T
      <3>1. 0 \in Int /\ N \in Int
        BY <1>0
      <3> QED BY <2>1, <2>2, <3>1, FromTo, Zenon
    <2> QED BY <2>3
  <1> QED BY <1>1, <1>7, <1>8 DEF Slots

-----------------------------------------------------------------------------
(* The search loop. *)

(* A slot number stays one when it is moved round the ring. *)
LEMMA SlotAfterSlot ==
  ASSUME NEW i \in Slots, NEW k \in Slots
  PROVE  SlotAfter(i, k) \in Slots
  BY CapacityAssumption DEF Slots, SlotAfter

(* Once round the ring the search has subtracted the sizes of all slots,   *)
(* whichever it started with.                                              *)
LEMMA OnceRound ==
  ASSUME NEW P, NEW b \in Buffers(P), NEW x \in Int
  PROVE  Remaining(b, x)[N] = x - SizesBefore(b)[N]
  <1> DEFINE S == SizesBefore(b)
             R == Remaining(b, x)
             o == b.out_offs
             A == {k \in 0 .. N - o : R[k] = x - (S[o + k] - S[o])}
             B == {k \in N - o .. N : R[k] = x - (S[N] - S[o]) - S[k - (N - o)]}
  <1>0. N \in Nat /\ N > 0 /\ o \in 0 .. N - 1
    BY CapacityAssumption DEF Buffers, Slots
  <1>1. /\ \A k \in 0 .. N : S[k] \in Nat
        /\ S[0] = 0
        /\ \A k \in 0 .. N - 1 : S[k + 1] = S[k] + b.entry[k].size
    BY SizesBeforeDef DEF Slots
  <1>2. /\ \A k \in 0 .. N : R[k] \in Int
        /\ R[0] = x
        /\ \A k \in 0 .. N - 1 : R[k + 1] = R[k] - b.entry[SlotAfter(o, k)].size
    BY RemainingDef DEF Slots
  <1>3. \A k \in 0 .. N - 1 : b.entry[k].size \in Nat
    BY DEF Buffers, Entries, Slots
  <1> HIDE DEF S, R, o
  <1>4. 0 \in A
    BY <1>0, <1>1, <1>2
  <1>5. ASSUME NEW k \in 0 .. N - o - 1, k \in A PROVE k + 1 \in A
    <2>1. SlotAfter(o, k) = o + k /\ o + k \in 0 .. N - 1 /\ k \in 0 .. N - 1
      BY <1>0 DEF SlotAfter
    <2>2. R[k + 1] = R[k] - b.entry[o + k].size
      BY <1>2, <2>1
    <2>3. S[o + k + 1] = S[o + k] + b.entry[o + k].size
      BY <1>1, <2>1
    <2>4. R[k] = x - (S[o + k] - S[o])
      BY <1>5
    <2>5. S[o + k] \in Nat /\ S[o + k + 1] \in Nat /\ S[o] \in Nat /\ b.entry[o + k].size \in Nat
      BY <1>0, <1>1, <1>3, <2>1
    <2>6. R[k + 1] = x - (S[o + k + 1] - S[o])
      BY <2>2, <2>3, <2>4, <2>5
    <2>7. o + k + 1 = o + (k + 1)
      BY <1>0
    <2> QED BY <2>6, <2>7, <1>0
  <1>6. N - o \in A
    <2>1. \A k \in 0 .. N - o : k \in A
      <3> HIDE DEF A
      <3>1. 0 \in Int /\ N - o \in Int
        BY <1>0
      <3> QED BY <1>4, <1>5, <3>1, FromTo
    <2> HIDE DEF A
    <2> QED BY <2>1, <1>0
  <1>7. N - o \in B
    <2>1. R[N - o] = x - (S[N] - S[o])
      BY <1>6, <1>0
    <2> QED BY <2>1, <1>0, <1>1
  <1>8. ASSUME NEW k \in N - o .. N - 1, k \in B PROVE k + 1 \in B
    <2> DEFINE j == k - (N - o)
    <2>1. SlotAfter(o, k) = j /\ j \in 0 .. N - 1 /\ k \in 0 .. N - 1 /\ j + 1 = k + 1 - (N - o)
      BY <1>0 DEF SlotAfter
    <2> HIDE DEF j
    <2>2. R[k + 1] = R[k] - b.entry[j].size
      BY <1>2, <2>1
    <2>3. S[j + 1] = S[j] + b.entry[j].size
      BY <1>1, <2>1
    <2>4. R[k] = x - (S[N] - S[o]) - S[j]
      BY <1>8 DEF j
    <2>5. S[j] \in Nat /\ S[j + 1] \in Nat /\ S[o] \in Nat /\ S[N] \in Nat /\ b.entry[j].size \in Nat
      BY <1>0, <1>1, <1>3, <2>1
    <2>6. R[k + 1] = x - (S[N] - S[o]) - S[j + 1]
      BY <2>2, <2>3, <2>4, <2>5
    <2> QED BY <2>1, <2>6, <1>0
  <1>9. N \in B
    <2>1. \A k \in N - o .. N : k \in B
      <3> HIDE DEF B
      <3>1. N - o \in Int /\ N \in Int
        BY <1>0
      <3> QED BY <1>7, <1>8, <3>1, FromTo
    <2> HIDE DEF B
    <2> QED BY <2>1, <1>0
  <1>10. N - (N - o) = o
    BY <1>0
  <1>11. R[N] = x - S[N]
    BY <1>9, <1>10, <1>0, <1>1
  <1> QED BY <1>11 DEF S, R

(* The slot at which the search stops: the first that the rest of the      *)
(* offset lies inside, and no rest before it is negative.                  *)
StopsAt(b, x, k) ==
  /\ Remaining(b, x)[k] >= 0
  /\ Remaining(b, x)[k] < b.entry[SlotAfter(b.out_offs, k)].size
  /\ \A j \in 0 .. k : Remaining(b, x)[j] >= 0

(* Whatever the slots hold, an offset below the sum of their sizes is      *)
(* found, and the slot and the byte returned are those of the search.      *)
LEMMA FindStops ==
  ASSUME NEW P, NEW b \in Buffers(P), NEW x \in Nat, x # 0, NEW rtn,
         NEW r, r = find_entry_offset_for_fpos(b, x, rtn)
  PROVE  /\ r.found <=> SizesBefore(b)[N] > x
         /\ r.found => \E k \in Slots : /\ StopsAt(b, x, k)
                                        /\ r.index = SlotAfter(b.out_offs, k)
                                        /\ r.byte = Remaining(b, x)[k]
  <1> DEFINE S == SizesBefore(b)
             R == Remaining(b, x)
             z(k) == b.entry[SlotAfter(b.out_offs, k)].size
             inside(k) == LiesInside(R[k], b.entry[SlotAfter(b.out_offs, k)])
             stop == CHOOSE k \in Slots : inside(k) /\ \A j \in 0 .. k - 1 : ~inside(j)
  <1>0. N \in Nat /\ N > 0 /\ Slots = 0 .. N - 1
    BY CapacityAssumption DEF Slots
  <1>1. S[N] \in Nat
    BY SizesBeforeDef, <1>0
  <1>2. /\ \A k \in 0 .. N : R[k] \in Int
        /\ R[0] = x
        /\ \A k \in 0 .. N - 1 : z(k) \in Nat /\ R[k + 1] = R[k] - z(k)
    BY RemainingDef, <1>0
  <1>3. R[N] = x - S[N]
    BY OnceRound
  <1>4. \A k \in 0 .. N - 1 : inside(k) <=> R[k] < z(k)
    BY DEF LiesInside
  <1>5. CASE S[N] <= x
    <2>1. r = [found |-> FALSE, index |-> 0, byte |-> rtn]
      BY <1>5 DEF find_entry_offset_for_fpos
    <2> QED BY <2>1, <1>5, <1>1
  <1>6. CASE S[N] > x
    <2>1. r = [found |-> TRUE, index |-> SlotAfter(b.out_offs, stop), byte |-> R[stop]]
      BY <1>6, <1>1 DEF find_entry_offset_for_fpos
    <2> HIDE DEF R, S, z
    <2> DEFINE I == {k \in 0 .. N - 1 : R[k] < z(k)}
               T == {k \in 0 .. N : R[k] >= 0}
    <2>2. I # {}
      <3> SUFFICES ASSUME I = {} PROVE FALSE
        OBVIOUS
      <3>1. 0 \in T
        BY <1>0, <1>2
      <3>2. ASSUME NEW k \in 0 .. N - 1, k \in T PROVE k + 1 \in T
        <4>0. k \in 0 .. N /\ ~(R[k] < z(k))
          BY <1>0
        <4>1. R[k] \in Int /\ z(k) \in Nat /\ R[k + 1] = R[k] - z(k)
          BY <4>0, <1>2
        <4>2. k + 1 \in 0 .. N /\ R[k + 1] >= 0
          BY <4>0, <4>1, <1>0
        <4> QED BY <4>2
      <3>3. N \in T
        <4> HIDE DEF T
        <4>1. 0 \in Int /\ N \in Int
          BY <1>0
        <4>2. \A k \in 0 .. N : k \in T
          BY <3>1, <3>2, <4>1, FromTo
        <4> QED BY <4>2, <1>0
      <3> QED BY <3>3, <1>3, <1>6, <1>1
    <2>3. PICK m \in I : \A y \in I : m <= y
      <3>1. I \in SUBSET Nat
        BY <1>0
      <3> HIDE DEF I
      <3> QED BY <2>2, <3>1, NatLeast
    <2>4. m \in Slots /\ inside(m) /\ \A j \in 0 .. m - 1 : ~inside(j)
      <3>1. m \in 0 .. N - 1 /\ R[m] < z(m)
        BY <2>3
      <3>2. \A j \in 0 .. m - 1 : j \in 0 .. N - 1 /\ j \notin I
        BY <2>3, <3>1, <1>0
      <3> HIDE DEF inside
      <3> QED BY <3>1, <3>2, <1>0, <1>4
    <2>5. stop \in Slots /\ inside(stop) /\ \A j \in 0 .. stop - 1 : ~inside(j)
      <3> HIDE DEF inside
      <3> QED BY <2>4
    <2> HIDE DEF stop
    <2>6. stop \in 0 .. N - 1 /\ R[stop] < z(stop) /\ \A j \in 0 .. stop - 1 : j \in 0 .. N - 1 /\ ~(R[j] < z(j))
      <3> HIDE DEF inside
      <3> QED BY <2>5, <1>4, <1>0
    <2>7. \A j \in 0 .. stop : R[j] >= 0
      <3> DEFINE U == {j \in 0 .. stop : R[j] >= 0}
      <3>1. 0 \in U
        BY <1>2, <2>6
      <3>2. ASSUME NEW j \in 0 .. stop - 1, j \in U PROVE j + 1 \in U
        <4>0. j \in 0 .. N /\ j \in 0 .. N - 1 /\ ~(R[j] < z(j))
          BY <1>0, <2>6
        <4>1. R[j] \in Int /\ z(j) \in Nat /\ R[j + 1] = R[j] - z(j)
          BY <4>0, <1>2
        <4>2. j + 1 \in 0 .. stop /\ R[j + 1] >= 0
          BY <4>0, <4>1, <2>6
        <4> QED BY <4>2
      <3>3. \A j \in 0 .. stop : j \in U
        <4> HIDE DEF U
        <4>1. 0 \in Int /\ stop \in Int
          BY <2>6
        <4> QED BY <3>1, <3>2, <4>1, FromTo
      <3> QED BY <3>3
    <2>8. StopsAt(b, x, stop)
      <3>1. stop \in 0 .. stop
        BY <2>6
      <3> QED BY <3>1, <2>6, <2>7 DEF StopsAt, R, z
    <2>9. r.found /\ r.index = SlotAfter(b.out_offs, stop) /\ r.byte = R[stop]
      BY <2>1
    <2> QED BY <2>8, <2>9, <2>5, <1>6 DEF R, S
  <1> QED BY <1>1, <1>5, <1>6

-----------------------------------------------------------------------------
(* A ring that holds a part of the stream. *)

(* A ring whose entries, oldest first, are the part of the stream of all   *)
(* bytes added that ends at end.                                           *)
Held(b) == IF b.full THEN N ELSE b.in_offs
Nth(b, k) == b.entry[SlotAfter(b.out_offs, k)]
StartOf(b, end, k) == IF k < Held(b) THEN Nth(b, k).buffptr ELSE end

HoldsStream(b, end) ==
  /\ b \in Buffers(Nat) /\ end \in Nat
  /\ IF b.full THEN b.in_offs = b.out_offs ELSE b.out_offs = 0
  /\ \A k \in 0 .. Held(b) - 1 :
       Nth(b, k).size > 0 /\ StartOf(b, end, k) + Nth(b, k).size = StartOf(b, end, k + 1)
  /\ b.total_size = end - StartOf(b, end, 0)

(* The numbers in it. *)
LEMMA HeldTypes ==
  ASSUME NEW b, NEW end, HoldsStream(b, end)
  PROVE  /\ Held(b) \in 0 .. N /\ N \in Nat /\ N > 0 /\ end \in Nat
         /\ \A k \in 0 .. N : StartOf(b, end, k) \in Nat
         /\ \A k \in 0 .. N - 1 : Nth(b, k).size \in Nat /\ Nth(b, k).buffptr \in Nat
  <1>0. /\ b \in Buffers(Nat) /\ end \in Nat /\ N \in Nat /\ N > 0 /\ b.out_offs \in Slots
        /\ b.in_offs \in Slots /\ Slots = 0 .. N - 1
    BY CapacityAssumption DEF HoldsStream, Buffers, Slots
  <1>1. Held(b) \in 0 .. N
    BY <1>0 DEF Held
  <1>2. \A k \in 0 .. N - 1 : SlotAfter(b.out_offs, k) \in Slots
    BY <1>0, SlotAfterSlot
  <1>3. \A k \in 0 .. N - 1 : Nth(b, k).size \in Nat /\ Nth(b, k).buffptr \in Nat
    BY <1>0, <1>2 DEF Nth, Buffers, Entries
  <1>4. \A k \in 0 .. N : StartOf(b, end, k) \in Nat
    <2> TAKE k \in 0 .. N
    <2>1. k < Held(b) => k \in 0 .. N - 1
      BY <1>0, <1>1
    <2> QED BY <2>1, <1>0, <1>3 DEF StartOf
  <1> QED BY <1>0, <1>1, <1>3, <1>4

(* Starts of entries go up, by at least one for every entry. *)
LEMMA StartsGoUp ==
  ASSUME NEW b, NEW end, HoldsStream(b, end), NEW i \in 0 .. Held(b), NEW j \in i .. Held(b)
  PROVE  /\ StartOf(b, end, i) <= StartOf(b, end, j)
         /\ i < j => StartOf(b, end, i) < StartOf(b, end, j)
  <1> DEFINE h == [k \in 0 .. Held(b) |-> StartOf(b, end, k) - k]
  <1>1. Held(b) \in 0 .. N /\ N \in Nat /\ \A k \in 0 .. N : StartOf(b, end, k) \in Nat
    BY HeldTypes
  <1>2. \A k \in 0 .. Held(b) : h[k] \in Int
    BY <1>1
  <1>3. \A k \in 0 .. Held(b) - 1 : h[k] <= h[k + 1]
    <2> TAKE k \in 0 .. Held(b) - 1
    <2>1. k \in 0 .. N - 1 /\ k \in 0 .. N /\ k + 1 \in 0 .. N /\ k \in 0 .. Held(b) /\ k + 1 \in 0 .. Held(b)
      BY <1>1
    <2>2. Nth(b, k).size \in Nat
      BY <2>1, HeldTypes
    <2>3. StartOf(b, end, k) + Nth(b, k).size = StartOf(b, end, k + 1) /\ Nth(b, k).size > 0
      BY DEF HoldsStream
    <2>4. StartOf(b, end, k) \in Nat /\ StartOf(b, end, k + 1) \in Nat
      BY <1>1, <2>1
    <2>5. StartOf(b, end, k) - k <= StartOf(b, end, k + 1) - (k + 1)
      BY <2>1, <2>2, <2>3, <2>4
    <2> QED BY <2>1, <2>5
  <1>4. h[i] <= h[j]
    <2> HIDE DEF h
    <2>1. 0 \in Int /\ Held(b) \in Int
      BY <1>1
    <2> QED BY <2>1, <1>2, <1>3, Monotone
  <1>5. /\ StartOf(b, end, i) \in Nat /\ StartOf(b, end, j) \in Nat
        /\ StartOf(b, end, i) - i <= StartOf(b, end, j) - j /\ i <= j /\ i \in Int /\ j \in Int
    BY <1>4, <1>1
  <1> QED BY <1>5

(* How far the search has got in a ring that holds a part of the stream. *)
LEMMA RemainingInStream ==
  ASSUME NEW b, NEW end, HoldsStream(b, end), NEW x \in Nat
  PROVE  \A k \in 0 .. Held(b) :
           Remaining(b, x)[k] = x + StartOf(b, end, 0) - StartOf(b, end, k)
  <1> DEFINE R == Remaining(b, x)
             T == {k \in 0 .. Held(b) : R[k] = x + StartOf(b, end, 0) - StartOf(b, end, k)}
  <1>0. Held(b) \in 0 .. N /\ N \in Nat /\ \A k \in 0 .. N : StartOf(b, end, k) \in Nat
    BY HeldTypes
  <1>1. R[0] = x /\ \A k \in 0 .. N - 1 : R[k + 1] = R[k] - Nth(b, k).size
    BY RemainingDef DEF HoldsStream, Slots, Nth
  <1> HIDE DEF R
  <1>2. 0 \in T
    BY <1>0, <1>1
  <1>3. ASSUME NEW k \in 0 .. Held(b) - 1, k \in T PROVE k + 1 \in T
    <2>1. k \in 0 .. N - 1 /\ k \in 0 .. N /\ k + 1 \in 0 .. N /\ k + 1 \in 0 .. Held(b) /\ 0 \in 0 .. N
      BY <1>0
    <2>2. Nth(b, k).size \in Nat
      BY <2>1, HeldTypes
    <2>3. StartOf(b, end, k) + Nth(b, k).size = StartOf(b, end, k + 1)
      BY DEF HoldsStream
    <2>4. StartOf(b, end, k) \in Nat /\ StartOf(b, end, k + 1) \in Nat /\ StartOf(b, end, 0) \in Nat
      BY <1>0, <2>1
    <2>5. R[k + 1] = R[k] - Nth(b, k).size
      BY <1>1, <2>1
    <2>6. R[k] = x + StartOf(b, end, 0) - StartOf(b, end, k)
      BY <1>3
    <2>7. R[k + 1] = x + StartOf(b, end, 0) - StartOf(b, end, k + 1)
      BY <2>2, <2>3, <2>4, <2>5, <2>6
    <2> QED BY <2>1, <2>7
  <1>4. \A k \in 0 .. Held(b) : k \in T
    <2> HIDE DEF T
    <2>1. 0 \in Int /\ Held(b) \in Int
      BY <1>0
    <2> QED BY <2>1, <1>2, <1>3, FromTo
  <1> QED BY <1>4 DEF R

(* Byte x of the data is byte .byte of the k-th entry. *)
IsByteOf(b, end, x, r, k) ==
  /\ k \in 0 .. Held(b) - 1
  /\ r.index = SlotAfter(b.out_offs, k)
  /\ r.byte \in Nat /\ r.byte < Nth(b, k).size
  /\ StartOf(b, end, k) + r.byte = StartOf(b, end, 0) + x

(* The lookup finds every position inside the data, and for a position     *)
(* beyond it at most a slot that is not occupied.                          *)
LEMMA FindInStream ==
  ASSUME NEW b, NEW end, HoldsStream(b, end), NEW x \in Nat, x # 0, NEW rtn,
         NEW r, r = find_entry_offset_for_fpos(b, x, rtn)
  PROVE  /\ x < b.total_size => r.found /\ \E k \in 0 .. Held(b) - 1 : IsByteOf(b, end, x, r, k)
         /\ x >= b.total_size /\ r.found =>
              \E k \in Held(b) .. N - 1 : r.index = SlotAfter(b.out_offs, k) /\ r.byte \in Nat
  <1> DEFINE R == Remaining(b, x)
  <1>0. /\ Held(b) \in 0 .. N /\ N \in Nat /\ N > 0 /\ \A k \in 0 .. N : StartOf(b, end, k) \in Nat
        /\ end \in Nat /\ b \in Buffers(Nat)
    BY HeldTypes DEF HoldsStream
  <1>1. \A k \in 0 .. Held(b) : R[k] = x + StartOf(b, end, 0) - StartOf(b, end, k)
    BY RemainingInStream
  <1>2. b.total_size = end - StartOf(b, end, 0) /\ StartOf(b, end, Held(b)) = end
    BY <1>0 DEF HoldsStream, StartOf
  <1>3. /\ r.found <=> SizesBefore(b)[N] > x
        /\ r.found => \E k \in Slots : /\ StopsAt(b, x, k)
                                        /\ r.index = SlotAfter(b.out_offs, k)
                                        /\ r.byte = R[k]
    BY <1>0, FindStops
  <1>4. \A k \in 0 .. N : R[k] \in Int
    BY <1>0, RemainingDef
  <1> HIDE DEF R
  <1>5. R[Held(b)] = x - b.total_size /\ b.total_size \in Int
    <2>1. Held(b) \in 0 .. Held(b) /\ StartOf(b, end, 0) \in Nat
      BY <1>0
    <2> QED BY <2>1, <1>0, <1>1, <1>2
  <1>6. ASSUME x < b.total_size PROVE r.found
    <2> DEFINE h == [k \in 0 .. N |-> 0 - R[k]]
    <2>1. \A k \in 0 .. N : h[k] \in Int
      BY <1>4
    <2>2. \A k \in 0 .. N - 1 : h[k] <= h[k + 1]
      <3> TAKE k \in 0 .. N - 1
      <3>1. Nth(b, k).size \in Nat /\ R[k + 1] = R[k] - Nth(b, k).size
        BY <1>0, RemainingDef DEF R, Nth, Slots
      <3>2. k \in 0 .. N /\ k + 1 \in 0 .. N
        BY <1>0
      <3> QED BY <3>1, <3>2, <1>4
    <2>3. h[Held(b)] <= h[N]
      <3> HIDE DEF h
      <3>1. 0 \in Int /\ N \in Int /\ N \in Held(b) .. N
        BY <1>0
      <3> QED BY <3>1, <1>0, <2>1, <2>2, Monotone
    <2>4. R[N] <= R[Held(b)]
      <3>1. N \in 0 .. N /\ R[N] \in Int /\ R[Held(b)] \in Int
        BY <1>0, <1>4
      <3> QED BY <2>3, <3>1, <1>0
    <2>5. R[N] = x - SizesBefore(b)[N]
      BY <1>0, OnceRound DEF R
    <2>6. SizesBefore(b)[N] \in Nat
      <3>1. SizesBefore(b) \in [0 .. N -> Nat] /\ N \in 0 .. N
        BY <1>0, SizesBeforeDef
      <3> QED BY <3>1
    <2> QED BY <2>4, <2>5, <2>6, <1>3, <1>5, <1>6
  <1>7. ASSUME r.found PROVE \E k \in 0 .. N - 1 : /\ StopsAt(b, x, k)
                                                   /\ r.index = SlotAfter(b.out_offs, k)
                                                   /\ r.byte = R[k]
    BY <1>3, <1>7 DEF Slots
  <1>8. ASSUME x < b.total_size PROVE \E k \in 0 .. Held(b) - 1 : IsByteOf(b, end, x, r, k)
    <2>1. PICK k \in 0 .. N - 1 : /\ StopsAt(b, x, k)
                                  /\ r.index = SlotAfter(b.out_offs, k)
                                  /\ r.byte = R[k]
      BY <1>6, <1>7, <1>8
    <2>2. k < Held(b)
      <3> SUFFICES ASSUME Held(b) <= k PROVE FALSE
        BY <1>0
      <3>1. Held(b) \in 0 .. k
        BY <1>0
      <3>2. R[Held(b)] >= 0
        BY <2>1, <3>1 DEF StopsAt, R
      <3> QED BY <3>2, <1>5, <1>8
    <2>3. k \in 0 .. Held(b) - 1 /\ k \in 0 .. Held(b) /\ k \in 0 .. N
      BY <2>2, <1>0
    <2>4. r.byte >= 0 /\ r.byte < Nth(b, k).size /\ r.byte \in Int
      BY <2>1, <2>3, <1>4 DEF StopsAt, R, Nth
    <2>5. StartOf(b, end, k) + r.byte = StartOf(b, end, 0) + x
      <3>1. r.byte = x + StartOf(b, end, 0) - StartOf(b, end, k)
        BY <1>1, <2>1, <2>3
      <3>2. StartOf(b, end, k) \in Nat /\ StartOf(b, end, 0) \in Nat
        BY <1>0, <2>3
      <3> QED BY <3>1, <3>2
    <2>6. IsByteOf(b, end, x, r, k)
      BY <2>1, <2>3, <2>4, <2>5 DEF IsByteOf
    <2> QED BY <2>3, <2>6
  <1>9. ASSUME x >= b.total_size, r.found
        PROVE  \E k \in Held(b) .. N - 1 : r.index = SlotAfter(b.out_offs, k) /\ r.byte \in Nat
    <2>1. PICK k \in 0 .. N - 1 : /\ StopsAt(b, x, k)
                                  /\ r.index = SlotAfter(b.out_offs, k)
                                  /\ r.byte = R[k]
      BY <1>7, <1>9
    <2>2. k >= Held(b)
      <3> SUFFICES ASSUME k < Held(b) PROVE FALSE
        BY <1>0
      <3>1. k \in 0 .. Held(b) /\ k + 1 \in 0 .. Held(b) /\ k \in 0 .. Held(b) - 1 /\ Held(b) \in k + 1 .. Held(b)
        BY <1>0
      <3>2. R[k] < Nth(b, k).size
        BY <2>1 DEF StopsAt, R, Nth
      <3>3. StartOf(b, end, k) + Nth(b, k).size = StartOf(b, end, k + 1)
        BY <3>1 DEF HoldsStream
      <3>4. StartOf(b, end, k + 1) <= StartOf(b, end, Held(b))
        BY <3>1, StartsGoUp
      <3>5. R[k] = x + StartOf(b, end, 0) - StartOf(b, end, k)
        BY <1>1, <3>1
      <3>6. /\ StartOf(b, end, k) \in Nat /\ StartOf(b, end, k + 1) \in Nat /\ StartOf(b, end, 0) \in Nat
            /\ Nth(b, k).size \in Nat
        BY <1>0, <3>1, HeldTypes
      <3> QED BY <3>2, <3>3, <3>4, <3>5, <3>6, <1>2, <1>9, <1>0
    <2>3. r.byte \in Nat
      <3>1. R[k] >= 0 /\ R[k] \in Int
        BY <2>1, <1>4, <1>0 DEF StopsAt, R
      <3> QED BY <3>1, <2>1
    <2>4. k \in Held(b) .. N - 1
      BY <2>2, <1>0
    <2> QED BY <2>1, <2>3, <2>4
  <1> QED BY <1>6, <1>8, <1>9

(* Where aesd_read starts. *)
LEMMA StartInStream ==
  ASSUME NEW b, NEW end, HoldsStream(b, end), NEW x \in Nat, x < b.total_size
  PROVE  \E k \in 0 .. Held(b) - 1 : IsByteOf(b, end, x, start_entry(b, x), k)
  <1> DEFINE s == start_entry(b, x)
             r == find_entry_offset_for_fpos(b, x, 0)
  <1>0. /\ Held(b) \in 0 .. N /\ N \in Nat /\ N > 0 /\ \A k \in 0 .. N : StartOf(b, end, k) \in Nat
        /\ end \in Nat /\ b \in Buffers(Nat)
    BY HeldTypes DEF HoldsStream
  <1>1. CASE x = 0
    <2>1. s = [index |-> b.out_offs, byte |-> 0]
      BY <1>1 DEF start_entry
    <2>2. Held(b) # 0
      BY <1>0, <1>1 DEF HoldsStream, StartOf
    <2>3. b.out_offs = SlotAfter(b.out_offs, 0)
      BY <1>0 DEF SlotAfter, Buffers, Slots
    <2>4. 0 \in 0 .. Held(b) - 1
      BY <2>2, <1>0
    <2>5. Nth(b, 0).size > 0
      BY <2>4 DEF HoldsStream
    <2>6. StartOf(b, end, 0) + 0 = StartOf(b, end, 0) + x
      BY <1>1
    <2>7. IsByteOf(b, end, x, s, 0)
      BY <2>1, <2>3, <2>4, <2>5, <2>6 DEF IsByteOf
    <2> QED BY <2>4, <2>7
  <1>2. CASE x # 0
    <2>1. r.found /\ \E k \in 0 .. Held(b) - 1 : IsByteOf(b, end, x, r, k)
      BY <1>2, FindInStream
    <2>2. s = [index |-> r.index, byte |-> r.byte]
      <3> HIDE DEF r
      <3>1. s = CASE x = 0              -> [index |-> b.out_offs, byte |-> 0]
                  [] x # 0 /\ r.found   -> [index |-> r.index, byte |-> r.byte]
                  [] OTHER              -> [index |-> 0, byte |-> 0]
        BY DEF start_entry, r
      <3> QED BY <3>1, <2>1, <1>2
    <2>3. s.index = r.index /\ s.byte = r.byte
      <3> HIDE DEF r, s
      <3> QED BY <2>2
    <2> HIDE DEF r, s
    <2>4. PICK k \in 0 .. Held(b) - 1 : IsByteOf(b, end, x, r, k)
      BY <2>1
    <2>5. IsByteOf(b, end, x, s, k)
      BY <2>3, <2>4 DEF IsByteOf
    <2> QED BY <2>5 DEF s
  <1> QED BY <1>1, <1>2

-----------------------------------------------------------------------------
(* The copy loop. *)

(* The bytes from .. to - 1 of the memory of an entry. *)
LEMMA SectionIs ==
  ASSUME NEW e, e.buffptr \in Nat, NEW from \in Nat, NEW to \in Int
  PROVE  /\ Section(e, from, to) \in Seq(Nat \X Nat)
         /\ Len(Section(e, from, to)) = IF to > from THEN to - from ELSE 0
         /\ \A j \in 1 .. Len(Section(e, from, to)) : Section(e, from, to)[j] = <<e.buffptr, from + j - 1>>
  <1> DEFINE n == IF to > from THEN to - from ELSE 0
             f == [j \in 1 .. n |-> <<e.buffptr, from + j - 1>>]
  <1>1. n \in Nat
    OBVIOUS
  <1>2. Section(e, from, to) = f
    BY DEF Section
  <1> HIDE DEF n
  <1>3. f \in Seq(Nat \X Nat) /\ Len(f) = n
    <2>1. \A j \in 1 .. n : from + j - 1 \in Nat
      BY <1>1
    <2>2. \A j \in 1 .. n : <<e.buffptr, from + j - 1>> \in Nat \X Nat
      BY <2>1
    <2>3. f \in [1 .. n -> Nat \X Nat]
      BY <2>2
    <2> HIDE DEF f
    <2>4. f \in Seq(Nat \X Nat) /\ DOMAIN f = 1 .. n
      BY <2>3, <1>1
    <2> QED BY <2>4, <1>1
  <1>4. \A j \in 1 .. n : f[j] = <<e.buffptr, from + j - 1>>
    OBVIOUS
  <1> QED BY <1>2, <1>3, <1>4 DEF n

(* The state of the copy loop. *)
CopyState == [data : Seq(Nat \X Nat), k : Nat, broke : BOOLEAN]

(* One iteration of the copy loop. *)
LEMMA CopyEntryType ==
  ASSUME NEW e \in Entries(Nat), NEW s \in CopyState, NEW count \in Nat, NEW byte \in Nat
  PROVE  CopyEntry(e, s, count, byte) \in CopyState
  <1> DEFINE n == Len(s.data)
             c == Section(e, s.k, CopyEnd(e, n, count, byte))
  <1>1. s.data \in Seq(Nat \X Nat) /\ s.k \in Nat /\ s.broke \in BOOLEAN /\ n \in Nat
    BY DEF CopyState
  <1>2. CopyEnd(e, n, count, byte) \in Int
    BY <1>1 DEF CopyEnd, Entries
  <1>3. c \in Seq(Nat \X Nat)
    BY <1>1, <1>2, SectionIs DEF Entries
  <1>4. CopyEntry(e, s, count, byte) = IF s.broke \/ e.size = 0 \/ count - n = 0
                                       THEN [s EXCEPT !.broke = TRUE]
                                       ELSE [s EXCEPT !.data = @ \o c, !.k = 0]
    BY DEF CopyEntry
  <1> HIDE DEF c, n
  <1>5. s.data \o c \in Seq(Nat \X Nat)
    BY <1>1, <1>3
  <1>6. [s EXCEPT !.broke = TRUE] \in CopyState
    BY DEF CopyState
  <1>7. [s EXCEPT !.data = @ \o c, !.k = 0] \in CopyState
    <2> DEFINE d == s.data \o c
    <2>1. [s EXCEPT !.data = @ \o c, !.k = 0] = [s EXCEPT !.data = d, !.k = 0]
      OBVIOUS
    <2>2. d \in Seq(Nat \X Nat)
      BY <1>5
    <2> HIDE DEF d
    <2>3. [s EXCEPT !.data = d, !.k = 0] \in CopyState
      BY <2>2 DEF CopyState
    <2> QED BY <2>1, <2>3
  <1> QED BY <1>4, <1>6, <1>7

(* The states of the copy loop, iteration by iteration. *)
LEMMA CopyStatesDef ==
  ASSUME NEW b \in Buffers(Nat), NEW i1 \in 0 .. N, NEW i2 \in i1 .. N, NEW count \in Nat, NEW byte \in Nat
  PROVE  /\ \A i \in i1 .. i2 : CopyStates(b, i1, i2, count, byte)[i] \in CopyState
         /\ CopyStates(b, i1, i2, count, byte)[i1] = [data |-> << >>, k |-> byte, broke |-> FALSE]
         /\ \A i \in i1 .. i2 - 1 :
              CopyStates(b, i1, i2, count, byte)[i + 1]
                = CopyEntry(b.entry[i], CopyStates(b, i1, i2, count, byte)[i], count, byte)
  <1> DEFINE x == [data |-> << >>, k |-> byte, broke |-> FALSE]
             nx(i, s) == CopyEntry(b.entry[i], s, count, byte)
             g == [i \in i1 .. i2 - 1 |-> [s \in CopyState |-> nx(i, s)]]
             IsCopy(f) == f = [i \in i1 .. i2 |-> IF i = i1 THEN x ELSE nx(i - 1, f[i - 1])]
  <1>0. N \in Nat /\ N > 0 /\ i1 \in Int /\ i2 \in Int /\ i1 <= i2
    BY CapacityAssumption
  <1>1. \A i \in i1 .. i2 - 1 : b.entry[i] \in Entries(Nat)
    BY <1>0 DEF Buffers, Slots
  <1>2. \A i \in i1 .. i2 - 1 : \A s \in CopyState : nx(i, s) \in CopyState
    BY <1>1, CopyEntryType
  <1>3. x \in CopyState
    BY DEF CopyState
  <1> HIDE DEF x, nx
  <1>4. g \in [i1 .. i2 - 1 -> [CopyState -> CopyState]]
    BY <1>2
  <1>5. PICK f \in [i1 .. i2 -> CopyState] : IsIteration(f, i1, i2, x, g)
    <2> HIDE DEF g
    <2> QED BY <1>0, <1>3, <1>4, Iterates, Zenon
  <1>6. IsCopy(f)
    <2>1. \A i \in i1 .. i2 - 1 : f[i] \in CopyState
      BY <1>0
    <2>2. \A i \in i1 .. i2 - 1 : f[i + 1] = nx(i, f[i])
      BY <1>5, <2>1 DEF IsIteration
    <2>3. \A i \in i1 .. i2 : f[i] = IF i = i1 THEN x ELSE nx(i - 1, f[i - 1])
      <3> TAKE i \in i1 .. i2
      <3>1. CASE i = i1
        BY <3>1, <1>5 DEF IsIteration
      <3>2. CASE i # i1
        <4>1. i - 1 \in i1 .. i2 - 1 /\ (i - 1) + 1 = i
          BY <3>2, <1>0
        <4>2. f[(i - 1) + 1] = nx(i - 1, f[i - 1])
          BY <2>2, <4>1
        <4> QED BY <3>2, <4>1, <4>2
      <3> QED BY <3>1, <3>2
    <2> QED BY <2>3
  <1>7. CopyStates(b, i1, i2, count, byte) = CHOOSE h : IsCopy(h)
    BY Zenon DEF CopyStates, x, nx
  <1>8. IsCopy(CopyStates(b, i1, i2, count, byte))
    <2> HIDE DEF IsCopy
    <2> QED BY <1>6, <1>7
  <1> DEFINE s == CopyStates(b, i1, i2, count, byte)
  <1>9. s[i1] = x /\ \A i \in i1 .. i2 - 1 : s[i + 1] = nx(i, s[i])
    <2> HIDE DEF s
    <2>1. s = [i \in i1 .. i2 |-> IF i = i1 THEN x ELSE nx(i - 1, s[i - 1])]
      BY <1>8 DEF s
    <2>2. s[i1] = x
      BY <2>1, <1>0
    <2>3. ASSUME NEW i \in i1 .. i2 - 1 PROVE s[i + 1] = nx(i, s[i])
      <3>1. i + 1 \in i1 .. i2 /\ i + 1 # i1 /\ (i + 1) - 1 = i
        BY <1>0
      <3>2. s[i + 1] = nx((i + 1) - 1, s[(i + 1) - 1])
        BY <2>1, <3>1
      <3> QED BY <3>1, <3>2
    <2> QED BY <2>2, <2>3
  <1>10. \A i \in i1 .. i2 : s[i] \in CopyState
    <2> DEFINE T == {i \in i1 .. i2 : s[i] \in CopyState}
    <2> HIDE DEF s
    <2>1. i1 \in T
      BY <1>9, <1>3, <1>0
    <2>2. ASSUME NEW i \in i1 .. i2 - 1, i \in T PROVE i + 1 \in T
      <3>1. i + 1 \in i1 .. i2
        BY <1>0
      <3>2. s[i + 1] \in CopyState
        BY <2>2, <1>9, <1>2
      <3> QED BY <3>1, <3>2
    <2>3. \A i \in i1 .. i2 : i \in T
      <3> HIDE DEF T
      <3> QED BY <2>1, <2>2, <1>0, FromTo, Zenon
    <2> QED BY <2>3
  <1> QED BY <1>9, <1>10 DEF x, nx

(* Whatever the slots hold, read_helper copies bytes of memory. *)
LEMMA ReadHelperType ==
  ASSUME NEW b \in Buffers(Nat), NEW i1 \in 0 .. N, NEW i2 \in 0 .. N, NEW count \in Nat, NEW byte \in Nat
  PROVE  read_helper(b, i1, i2, count, byte) \in Seq(Nat \X Nat)
  <1>1. CASE i1 < i2
    <2>1. i2 \in i1 .. N /\ i2 \in i1 .. i2
      BY <1>1, CapacityAssumption
    <2>2. CopyStates(b, i1, i2, count, byte)[i2] \in CopyState
      BY <2>1, CopyStatesDef
    <2> QED BY <1>1, <2>2 DEF read_helper, CopyState
  <1>2. CASE ~(i1 < i2)
    BY <1>2 DEF read_helper
  <1> QED BY <1>1, <1>2

(* Slots i1 .. i2 - 1 hold the stream from reach[i1] to reach[i2], without *)
(* a gap and without an empty entry.                                       *)
Adjacent(b, i1, i2, reach) ==
  /\ b \in Buffers(Nat) /\ i1 \in 0 .. N /\ i2 \in i1 .. N
  /\ \A i \in i1 .. i2 : reach[i] \in Nat
  /\ \A i \in i1 .. i2 - 1 : /\ b.entry[i].buffptr = reach[i]
                             /\ b.entry[i].size > 0
                             /\ reach[i + 1] = reach[i] + b.entry[i].size

(* The bytes d are the stream from start on, and lie inside the entries in *)
(* slots i1 .. i2 - 1.                                                     *)
Copied(b, i1, i2, start, d) ==
  \A j \in 1 .. Len(d) :
    /\ d[j][1] + d[j][2] = start + j - 1
    /\ \E i \in i1 .. i2 - 1 : d[j][1] = b.entry[i].buffptr /\ d[j][2] < b.entry[i].size

(* When the copy is exact. *)
Exact(size, byte, count, rest) ==
  byte = 0 \/ byte + count <= size \/ (size < count /\ rest < count)

(* What the copy loop has done before iteration i. *)
CopyInv(b, i1, i2, reach, count, byte, s, i) ==
  /\ s.k = IF i = i1 THEN byte ELSE 0
  /\ Len(s.data) = IF i = i1 THEN 0 ELSE IF reach[i] - (reach[i1] + byte) < count
                                         THEN reach[i] - (reach[i1] + byte) ELSE count
  /\ s.broke => i # i1 /\ Len(s.data) = count
  /\ Copied(b, i1, i2, reach[i1] + byte, s.data)

(* The sections are put one after the other. *)
LEMMA CopiedFurther ==
  ASSUME NEW b \in Buffers(Nat), NEW i1 \in 0 .. N, NEW i2 \in i1 .. N, NEW start \in Nat,
         NEW d \in Seq(Nat \X Nat), Copied(b, i1, i2, start, d),
         NEW i \in i1 .. i2 - 1, NEW from \in Nat, NEW to \in Int,
         to <= b.entry[i].size, b.entry[i].buffptr + from = start + Len(d)
  PROVE  Copied(b, i1, i2, start, d \o Section(b.entry[i], from, to))
  <1> DEFINE e == b.entry[i]
             c == Section(e, from, to)
             dc == d \o c
  <1>0. N \in Nat /\ i \in Slots
    BY CapacityAssumption DEF Slots
  <1>1. e.buffptr \in Nat /\ e.size \in Nat
    BY <1>0 DEF Buffers, Entries
  <1>2. /\ c \in Seq(Nat \X Nat) /\ Len(c) = IF to > from THEN to - from ELSE 0
        /\ \A j \in 1 .. Len(c) : c[j] = <<e.buffptr, from + j - 1>>
    BY <1>1, SectionIs
  <1> HIDE DEF c
  <1>3. /\ Len(dc) = Len(d) + Len(c)
        /\ \A j \in 1 .. Len(d) + Len(c) : dc[j] = IF j <= Len(d) THEN d[j] ELSE c[j - Len(d)]
    <2>1. c \in Seq(Nat \X Nat)
      BY <1>2
    <2> QED BY <2>1, ConcatProperties
  <1>6. Len(d) \in Nat /\ Len(c) \in Nat
    BY <1>2
  <1> HIDE DEF dc
  <1> SUFFICES ASSUME NEW j \in 1 .. Len(dc)
               PROVE  /\ dc[j][1] + dc[j][2] = start + j - 1
                      /\ \E k \in i1 .. i2 - 1 : dc[j][1] = b.entry[k].buffptr /\ dc[j][2] < b.entry[k].size
    BY DEF Copied, dc, c
  <1>4. CASE j <= Len(d)
    <2>1. j \in 1 .. Len(d) /\ dc[j] = d[j]
      BY <1>3, <1>4, <1>6
    <2> QED BY <2>1 DEF Copied
  <1>5. CASE j > Len(d)
    <2> DEFINE m == j - Len(d)
    <2>1. m \in 1 .. Len(c) /\ dc[j] = c[m] /\ j = Len(d) + m
      BY <1>3, <1>5, <1>6
    <2> HIDE DEF m
    <2> HIDE DEF e
    <2>6. m \in Nat /\ m <= to - from /\ Len(c) \in Nat
      BY <1>2, <1>6, <2>1
    <2>7. dc[j] = <<e.buffptr, from + m - 1>>
      BY <1>2, <2>1
    <2>2. dc[j] = <<e.buffptr, from + m - 1>> /\ m \in Nat /\ m <= to - from
      BY <2>6, <2>7
    <2>3. dc[j][1] = e.buffptr /\ dc[j][2] = from + m - 1
      BY <2>2
    <2>4. dc[j][1] + dc[j][2] = start + j - 1
      <3>1. e.buffptr + from = start + Len(d)
        BY DEF e
      <3> HIDE DEF e
      <3>2. e.buffptr + (from + m - 1) = start + (Len(d) + m) - 1
        <4> DEFINE l == Len(d)
                   p == e.buffptr
        <4>1. p + from = start + l /\ p \in Nat /\ l \in Nat /\ m \in Nat
          BY <3>1, <2>6, <1>1, <1>6
        <4> HIDE DEF l, p
        <4>2. p + (from + m - 1) = start + (l + m) - 1
          BY <4>1
        <4> QED BY <4>2 DEF l, p
      <3> QED BY <3>2, <2>1, <2>3
    <2>5. dc[j][2] < e.size
      <3>1. to <= e.size
        BY DEF e
      <3>2. from + m - 1 < e.size
        BY <3>1, <2>6, <1>1
      <3> QED BY <3>2, <2>3
    <2> QED BY <2>3, <2>4, <2>5 DEF e
  <1> QED BY <1>4, <1>5, <1>3, <1>6

(* Every iteration copies on where the last one stopped. *)
LEMMA CopyStep ==
  ASSUME NEW b, NEW i1, NEW i2, NEW reach, Adjacent(b, i1, i2, reach),
         NEW count \in Nat, count > 0, NEW byte \in Nat, byte < b.entry[i1].size,
         Exact(b.entry[i1].size, byte, count, reach[i2] - (reach[i1] + byte)),
         NEW i \in i1 .. i2 - 1, NEW s \in CopyState, CopyInv(b, i1, i2, reach, count, byte, s, i)
  PROVE  CopyInv(b, i1, i2, reach, count, byte, CopyEntry(b.entry[i], s, count, byte), i + 1)
  <1> DEFINE e == b.entry[i]
             n == Len(s.data)
             start == reach[i1] + byte
             to == CopyEnd(e, n, count, byte)
             t == CopyEntry(e, s, count, byte)
  <1>0. /\ b \in Buffers(Nat) /\ N \in Nat /\ i1 \in 0 .. N /\ i2 \in i1 .. N
        /\ i \in i1 .. i2 /\ i1 \in i1 .. i2 /\ i1 \in i1 .. i2 - 1 /\ i + 1 \in i1 .. i2 /\ i2 \in i1 .. i2
        /\ i \in Slots /\ i1 \in Slots /\ i + 1 # i1 /\ i2 \in i + 1 .. i2 /\ i1 + 1 \in i1 .. i2
    BY CapacityAssumption DEF Adjacent, Slots
  <1>1. e.size \in Nat /\ e.buffptr \in Nat /\ b.entry[i1].size \in Nat
    BY <1>0 DEF Buffers, Entries
  <1>2. reach[i] \in Nat /\ reach[i1] \in Nat /\ reach[i + 1] \in Nat /\ reach[i2] \in Nat
    BY <1>0 DEF Adjacent
  <1>3. e.buffptr = reach[i] /\ e.size > 0 /\ reach[i + 1] = reach[i] + e.size
    BY DEF Adjacent
  <1>4. \A k \in i1 .. i2 : reach[k] \in Int
    BY DEF Adjacent
  <1>5. \A k \in i1 .. i2 - 1 : reach[k] <= reach[k + 1]
    <2> TAKE k \in i1 .. i2 - 1
    <2>1. k \in i1 .. i2 /\ k + 1 \in i1 .. i2
      BY <1>0
    <2>2. k \in Slots
      BY <1>0 DEF Slots
    <2>3. b.entry[k].size \in Nat
      BY <2>2, <1>0 DEF Buffers, Entries
    <2>4. reach[k + 1] = reach[k] + b.entry[k].size
      BY DEF Adjacent
    <2>5. reach[k] \in Int
      BY <2>1, <1>4
    <2> QED BY <2>3, <2>4, <2>5
  <1>15. i1 \in Int /\ i2 \in Int
    BY <1>0
  <1>6. reach[i + 1] <= reach[i2]
    BY <1>0, <1>4, <1>5, <1>15, Monotone, Zenon
  <1>7. i # i1 => reach[i1] + b.entry[i1].size <= reach[i]
    <2> SUFFICES ASSUME i # i1 PROVE reach[i1 + 1] <= reach[i]
      BY <1>0, <1>1, <1>2 DEF Adjacent
    <2>1. i \in i1 + 1 .. i2
      BY <1>0
    <2> QED BY <2>1, <1>0, <1>4, <1>5, <1>15, Monotone, Zenon
  <1>8. /\ s.data \in Seq(Nat \X Nat) /\ n \in Nat /\ s.k \in Nat
        /\ s.k = (IF i = i1 THEN byte ELSE 0)
        /\ n = (IF i = i1 THEN 0 ELSE IF reach[i] - start < count THEN reach[i] - start ELSE count)
        /\ s.broke => i # i1 /\ n = count
        /\ Copied(b, i1, i2, start, s.data)
    BY DEF CopyInv, CopyState
  <1>9. start \in Nat
    BY <1>2
  <1>10. t = IF s.broke \/ e.size = 0 \/ count - n = 0
             THEN [s EXCEPT !.broke = TRUE]
             ELSE [s EXCEPT !.data = @ \o Section(e, s.k, to), !.k = 0]
    BY DEF CopyEntry
  <1>11. start = reach[i1] + byte
    OBVIOUS
  <1>12. SUFFICES /\ t.k = 0
                  /\ Len(t.data) = IF reach[i + 1] - start < count THEN reach[i + 1] - start ELSE count
                  /\ t.broke => Len(t.data) = count
                  /\ Copied(b, i1, i2, start, t.data)
    BY <1>0, <1>11 DEF CopyInv
  <1>13. CASE s.broke \/ count - n = 0
    <2>1. n = count /\ i # i1
      BY <1>8, <1>13
    <2>2. t = [s EXCEPT !.broke = TRUE]
      BY <1>10, <1>13
    <2>3. t.k = s.k /\ t.data = s.data
      BY <2>2 DEF CopyState
    <2>4. ~(reach[i] - start < count)
      BY <2>1, <1>8, <1>2, <1>9
    <2>5. ~(reach[i + 1] - start < count)
      BY <2>4, <1>2, <1>3, <1>1, <1>9
    <2> QED BY <2>1, <2>3, <2>5, <1>8
  <1>14. CASE ~s.broke /\ count - n # 0
    <2> DEFINE c == Section(e, s.k, to)
               d == s.data \o c
    <2>1. e.size # 0
      BY <1>1, <1>3
    <2>2. t = [s EXCEPT !.data = d, !.k = 0]
      BY <1>10, <1>14, <2>1
    <2>3. i # i1 => n = reach[i] - start /\ n < count
      BY <1>8, <1>14, <1>2, <1>9
    <2>4. /\ to \in Int /\ to <= e.size /\ to > s.k
          /\ n + (to - s.k) = IF reach[i + 1] - start < count THEN reach[i + 1] - start ELSE count
      <3>1. CASE i = i1
        <4>1. n = 0 /\ s.k = byte /\ byte < e.size
          BY <3>1, <1>8
        <4>2. CASE e.size < count
          <5>1. to = e.size
            BY <4>1, <4>2, <1>1 DEF CopyEnd
          <5>2. reach[i + 1] - start = e.size - byte
            BY <3>1, <1>1, <1>2, <1>3, <1>11
          <5>3. e.size - byte < count
            BY <4>2, <1>1
          <5> QED BY <4>1, <5>1, <5>2, <5>3, <1>1
        <4>3. CASE ~(e.size < count)
          <5>1. to = count + byte
            BY <4>1, <4>3, <1>1 DEF CopyEnd
          <5>2. byte + count <= e.size
            BY <3>1, <4>3, <1>1 DEF Exact
          <5>3. ~(reach[i + 1] - start < count)
            BY <5>2, <3>1, <1>1, <1>2, <1>3, <1>11
          <5> QED BY <4>1, <5>1, <5>2, <5>3, <1>1
        <4> QED BY <4>2, <4>3
      <3>2. CASE i # i1
        <4>1. n = reach[i] - start /\ n < count /\ s.k = 0
          BY <3>2, <2>3, <1>8
        <4>2. reach[i + 1] - start = n + e.size
          <5> HIDE DEF start, e, n
          <5> QED BY <4>1, <1>1, <1>2, <1>3, <1>9
        <4>3. CASE n + e.size < count
          <5>1. to = e.size
            BY <4>3 DEF CopyEnd
          <5> QED BY <4>1, <4>2, <4>3, <5>1, <1>1, <1>3, <1>8
        <4>4. CASE ~(n + e.size < count)
          <5>1. to = count - n + byte
            BY <4>4 DEF CopyEnd
          <5>2. byte = 0
            <6>1. CASE byte + count <= b.entry[i1].size
              <7> HIDE DEF start, n
              <7>1. reach[i] - start >= count
                BY <6>1, <3>2, <1>7, <1>1, <1>2, <1>11
              <7> QED BY <7>1, <4>1, <1>8, <1>2, <1>9
            <6>2. CASE b.entry[i1].size < count /\ reach[i2] - start < count
              BY <6>2, <1>6, <4>2, <4>4, <1>1, <1>2, <1>9, <1>8
            <6> QED BY <6>1, <6>2, <1>11 DEF Exact
          <5> HIDE DEF start, e, n, to
          <5>3. to = count - n /\ ~(reach[i + 1] - start < count)
            BY <4>2, <4>4, <5>1, <5>2, <1>8
          <5> QED BY <4>1, <4>4, <5>3, <1>1, <1>8
        <4> QED BY <4>3, <4>4, <1>1, <1>8
      <3> QED BY <3>1, <3>2
    <2>5. e.buffptr + s.k = start + n
      BY <1>1, <1>2, <1>3, <1>8, <1>9, <1>11, <2>3
    <2> HIDE DEF to
    <2>6. c \in Seq(Nat \X Nat) /\ Len(c) = to - s.k
      BY <2>4, <1>1, <1>8, SectionIs
    <2>7. Copied(b, i1, i2, start, d)
      <3> HIDE DEF start
      <3> QED BY <1>0, <1>8, <1>9, <2>4, <2>5, CopiedFurther
    <2> HIDE DEF c
    <2>8. Len(d) = n + (to - s.k)
      <3>1. Len(d) = Len(s.data) + Len(c)
        BY <2>6, <1>8, ConcatProperties, Zenon
      <3> QED BY <3>1, <2>6
    <2> HIDE DEF d
    <2>9. t.k = 0 /\ t.data = d /\ t.broke = s.broke
      BY <2>2 DEF CopyState
    <2> QED BY <2>4, <2>7, <2>8, <2>9, <1>14
  <1> QED BY <1>8, <1>13, <1>14

(* read_helper returns the bytes from start on: count of them, or all      *)
(* there are in the slots.                                                 *)
LEMMA ReadHelperExact ==
  ASSUME NEW b, NEW i1, NEW i2, NEW reach, Adjacent(b, i1, i2, reach), i1 < i2,
         NEW count \in Nat, count > 0, NEW byte \in Nat, byte < b.entry[i1].size,
         Exact(b.entry[i1].size, byte, count, reach[i2] - (reach[i1] + byte)),
         NEW d, d = read_helper(b, i1, i2, count, byte)
  PROVE  /\ d \in Seq(Nat \X Nat)
         /\ Len(d) = IF reach[i2] - (reach[i1] + byte) < count THEN reach[i2] - (reach[i1] + byte) ELSE count
         /\ Copied(b, i1, i2, reach[i1] + byte, d)
  <1> DEFINE s == CopyStates(b, i1, i2, count, byte)
             ok(i) == CopyInv(b, i1, i2, reach, count, byte, s[i], i)
             T == {i \in i1 .. i2 : ok(i)}
  <1>0. b \in Buffers(Nat) /\ N \in Nat /\ i1 \in 0 .. N /\ i2 \in i1 .. N /\ i1 \in Int /\ i2 \in Int
    BY CapacityAssumption DEF Adjacent
  <1>1. /\ \A i \in i1 .. i2 : s[i] \in CopyState
        /\ s[i1] = [data |-> << >>, k |-> byte, broke |-> FALSE]
        /\ \A i \in i1 .. i2 - 1 : s[i + 1] = CopyEntry(b.entry[i], s[i], count, byte)
    BY <1>0, CopyStatesDef
  <1>2. d = s[i2].data
    BY DEF read_helper
  <1> HIDE DEF s
  <1>3. i1 \in T
    <2>1. i1 \in i1 .. i2
      BY <1>0
    <2>2. s[i1].k = byte /\ s[i1].data = << >> /\ s[i1].broke = FALSE
      BY <1>1
    <2>3. Len(s[i1].data) = 0 /\ Copied(b, i1, i2, reach[i1] + byte, s[i1].data)
      BY <2>2 DEF Copied
    <2>4. ok(i1)
      BY <2>2, <2>3 DEF CopyInv
    <2> QED BY <2>1, <2>4
  <1>4. ASSUME NEW i \in i1 .. i2 - 1, i \in T PROVE i + 1 \in T
    <2>1. i \in i1 .. i2 /\ i + 1 \in i1 .. i2
      BY <1>0
    <2>2. s[i] \in CopyState /\ ok(i) /\ s[i + 1] = CopyEntry(b.entry[i], s[i], count, byte)
      BY <1>1, <1>4, <2>1
    <2>3. ok(i + 1)
      BY <2>2, CopyStep
    <2> HIDE DEF ok
    <2> QED BY <2>1, <2>3
  <1>5. ok(i2)
    <2>1. \A i \in i1 .. i2 : i \in T
      <3> HIDE DEF T
      <3> QED BY <1>0, <1>3, <1>4, FromTo, Zenon
    <2>2. i2 \in i1 .. i2
      BY <1>0
    <2> HIDE DEF ok
    <2> QED BY <2>1, <2>2
  <1>6. s[i2] \in CopyState /\ i2 # i1
    BY <1>0, <1>1
  <1> QED BY <1>2, <1>5, <1>6 DEF CopyInv, CopyState

(* Whatever the slots hold, aesd_read starts in a slot and copies bytes of *)
(* memory.                                                                 *)
LEMMA ReadEntriesType ==
  ASSUME NEW b \in Buffers(Nat), NEW x \in Nat, NEW count \in Nat
  PROVE  /\ start_entry(b, x).index \in Slots /\ start_entry(b, x).byte \in Nat
         /\ section_end(b, start_entry(b, x).index) \in 0 .. N
         /\ read_entries(b, x, count) \in Seq(Nat \X Nat)
  <1> DEFINE s == start_entry(b, x)
             r == find_entry_offset_for_fpos(b, x, 0)
  <1>0. /\ N \in Nat /\ N > 0 /\ Slots = 0 .. N - 1 /\ b.out_offs \in Slots /\ b.in_offs \in Slots
        /\ b.full \in BOOLEAN
    BY CapacityAssumption DEF Buffers, Slots
  <1>1. s.index \in Slots /\ s.byte \in Nat
    <2>1. CASE x = 0
      <3>1. s = [index |-> b.out_offs, byte |-> 0]
        BY <2>1 DEF start_entry
      <3> QED BY <3>1, <1>0
    <2>2. CASE x # 0
      <3>1. r.found => r.index \in Slots /\ r.byte \in Nat
        <4> SUFFICES ASSUME r.found PROVE r.index \in Slots /\ r.byte \in Nat
          OBVIOUS
        <4>1. PICK k \in Slots : StopsAt(b, x, k) /\ r.index = SlotAfter(b.out_offs, k) /\ r.byte = Remaining(b, x)[k]
          BY <2>2, FindStops
        <4>2. k \in 0 .. N
          BY <1>0
        <4>3. Remaining(b, x)[k] \in Int /\ Remaining(b, x)[k] >= 0
          BY <4>1, <4>2, RemainingDef DEF StopsAt
        <4>4. SlotAfter(b.out_offs, k) \in Slots
          BY <1>0, SlotAfterSlot
        <4> HIDE DEF r
        <4> QED BY <4>1, <4>3, <4>4
      <3>2. s = CASE x = 0              -> [index |-> b.out_offs, byte |-> 0]
                  [] x # 0 /\ r.found   -> [index |-> r.index, byte |-> r.byte]
                  [] OTHER              -> [index |-> 0, byte |-> 0]
        BY DEF start_entry
      <3> HIDE DEF r, s
      <3>3. CASE r.found
        <4>1. s = [index |-> r.index, byte |-> r.byte]
          BY <2>2, <3>2, <3>3
        <4> QED BY <4>1, <3>1, <3>3
      <3>4. CASE ~r.found
        <4>1. s = [index |-> 0, byte |-> 0]
          BY <2>2, <3>2, <3>4
        <4> QED BY <4>1, <1>0
      <3> QED BY <3>3, <3>4
    <2> QED BY <2>1, <2>2
  <1> HIDE DEF s
  <1>2. section_end(b, s.index) \in 0 .. N
    BY <1>0, <1>1 DEF section_end
  <1>3. s.index \in 0 .. N
    BY <1>0, <1>1
  <1>4. read_helper(b, s.index, section_end(b, s.index), count, s.byte) \in Seq(Nat \X Nat)
    BY <1>1, <1>2, <1>3, ReadHelperType
  <1> QED BY <1>1, <1>2, <1>4 DEF read_entries, s

(* What the copy loop has done before iteration i, whether or not the copy *)
(* is exact: the bytes it has are numbered without a gap.                  *)
Numbered(d, start) == \A j \in 1 .. Len(d) : d[j][1] + d[j][2] = start + j - 1

LoopInv(i1, reach, count, byte, s, i) ==
  /\ Numbered(s.data, reach[i1] + byte)
  /\ i = i1 => Len(s.data) = 0 /\ s.k = byte /\ ~s.broke
  /\ i # i1 => /\ (count > 0 => Len(s.data) > 0)
               /\ \/ s.broke /\ Len(s.data) = count
                  \/ /\ ~s.broke /\ s.k = 0 /\ count > 0
                     /\ \/ Len(s.data) = reach[i] - (reach[i1] + byte) /\ Len(s.data) < count
                        \/ Len(s.data) = count
                        \/ Len(s.data) = count + byte

(* When a section of an entry goes on where the bytes copied end. *)
GoesOn(start, d, e, from, to) ==
  /\ start \in Nat /\ d \in Seq(Nat \X Nat) /\ Numbered(d, start)
  /\ e.buffptr \in Nat /\ from \in Nat /\ to \in Int
  /\ e.buffptr + from = start + Len(d) \/ ~(to > from)
LongerBy(start, d, e, from, to) ==
  /\ Numbered(d \o Section(e, from, to), start)
  /\ Len(d \o Section(e, from, to)) = Len(d) + (IF to > from THEN to - from ELSE 0)

(* Bytes numbered from start on stay so when such a section is added. *)
LEMMA NumberedFurther ==
  ASSUME NEW start, NEW d, NEW e, NEW from, NEW to, GoesOn(start, d, e, from, to)
  PROVE  LongerBy(start, d, e, from, to)
  <1> USE DEF GoesOn
  <1> DEFINE c == Section(e, from, to)
             dc == d \o c
  <1>1. /\ c \in Seq(Nat \X Nat) /\ Len(c) = IF to > from THEN to - from ELSE 0
        /\ \A j \in 1 .. Len(c) : c[j] = <<e.buffptr, from + j - 1>>
    BY SectionIs
  <1> HIDE DEF c
  <1>2. c \in Seq(Nat \X Nat)
    BY <1>1
  <1>3. /\ Len(dc) = Len(d) + Len(c)
        /\ \A j \in 1 .. Len(d) + Len(c) : dc[j] = IF j <= Len(d) THEN d[j] ELSE c[j - Len(d)]
    BY <1>2, ConcatProperties
  <1>4. Len(d) \in Nat /\ Len(c) \in Nat
    BY <1>2
  <1> HIDE DEF dc
  <1>5. ASSUME NEW j \in 1 .. Len(dc) PROVE dc[j][1] + dc[j][2] = start + j - 1
    <2>1. CASE j <= Len(d)
      <3>1. j \in 1 .. Len(d) /\ dc[j] = d[j]
        BY <2>1, <1>3, <1>4
      <3> QED BY <3>1 DEF Numbered
    <2>2. CASE j > Len(d)
      <3> DEFINE m == j - Len(d)
      <3>0. Len(dc) \in Nat /\ j \in Nat /\ j <= Len(dc)
        BY <1>3, <1>4
      <3>a. j \in 1 .. Len(d) + Len(c)
        BY <1>3
      <3>b. dc[j] = c[m]
        <4>1. dc[j] = IF j <= Len(d) THEN d[j] ELSE c[j - Len(d)]
          BY <1>3, <3>a
        <4>2. ~(j <= Len(d))
          BY <2>2, <1>4, <3>0
        <4> QED BY <4>1, <4>2
      <3>c. m \in 1 .. Len(c) /\ j = Len(d) + m
        <4> DEFINE ld == Len(d)
                   lc == Len(c)
        <4>1. ld \in Nat /\ lc \in Nat /\ j \in 1 .. ld + lc /\ j > ld /\ m = j - ld
          BY <2>2, <1>4, <3>a
        <4> HIDE DEF ld, lc, m
        <4>2. m \in 1 .. lc /\ j = ld + m
          BY <4>1
        <4> QED BY <4>2 DEF ld, lc
      <3>1. m \in 1 .. Len(c) /\ dc[j] = c[m] /\ j = Len(d) + m
        BY <3>b, <3>c
      <3> HIDE DEF m
      <3>d. c[m] = <<e.buffptr, from + m - 1>>
        BY <3>1, <1>1
      <3>e. m \in Nat /\ Len(c) > 0
        BY <3>1, <1>4
      <3>f. to > from
        BY <3>e, <1>1
      <3>2. m \in Nat /\ to > from /\ c[m] = <<e.buffptr, from + m - 1>>
        BY <3>d, <3>e, <3>f
      <3>3. dc[j][1] = e.buffptr /\ dc[j][2] = from + m - 1
        BY <3>1, <3>2
      <3>4. e.buffptr + from = start + Len(d)
        BY <3>2
      <3> DEFINE l == Len(d)
                 q == e.buffptr
      <3>5. q + from = start + l /\ q \in Nat /\ l \in Nat
        BY <3>4, <1>4
      <3> HIDE DEF l, q
      <3>6. q + (from + m - 1) = start + (l + m) - 1
        BY <3>2, <3>5
      <3> QED BY <3>1, <3>3, <3>6 DEF l, q
    <2> QED BY <2>1, <2>2, <1>3, <1>4
  <1> QED BY <1>1, <1>3, <1>5 DEF Numbered, dc, c, LongerBy

(* One turn of read_helper's loop keeps its invariant. *)
LEMMA LoopStep ==
  ASSUME NEW b, NEW i1, NEW i2, NEW reach, Adjacent(b, i1, i2, reach),
         NEW count \in Nat, NEW byte \in Nat, byte < b.entry[i1].size,
         NEW i \in i1 .. i2 - 1, NEW s \in CopyState, LoopInv(i1, reach, count, byte, s, i)
  PROVE  LoopInv(i1, reach, count, byte, CopyEntry(b.entry[i], s, count, byte), i + 1)
  <1> DEFINE e == b.entry[i]
             n == Len(s.data)
             start == reach[i1] + byte
             to == CopyEnd(e, n, count, byte)
             t == CopyEntry(e, s, count, byte)
  <1>0. /\ b \in Buffers(Nat) /\ N \in Nat /\ i1 \in 0 .. N /\ i2 \in i1 .. N
        /\ i \in i1 .. i2 /\ i1 \in i1 .. i2 /\ i + 1 \in i1 .. i2
        /\ i \in Slots /\ i1 \in Slots /\ i + 1 # i1
    BY CapacityAssumption DEF Adjacent, Slots
  <1>1. e.size \in Nat /\ e.buffptr \in Nat
    BY <1>0 DEF Buffers, Entries
  <1>2. reach[i] \in Nat /\ reach[i1] \in Nat /\ reach[i + 1] \in Nat
    BY <1>0 DEF Adjacent
  <1>3. e.buffptr = reach[i] /\ e.size > 0 /\ reach[i + 1] = reach[i] + e.size
    BY DEF Adjacent
  <1>4. /\ s.data \in Seq(Nat \X Nat) /\ n \in Nat /\ s.k \in Nat /\ s.broke \in BOOLEAN
        /\ Numbered(s.data, start)
        /\ i = i1 => n = 0 /\ s.k = byte /\ ~s.broke
        /\ i # i1 => /\ (count > 0 => n > 0)
                     /\ \/ s.broke /\ n = count
                        \/ /\ ~s.broke /\ s.k = 0 /\ count > 0
                           /\ (n = reach[i] - start /\ n < count) \/ n = count \/ n = count + byte
    BY DEF LoopInv, CopyState
  <1>5. start \in Nat
    BY <1>2
  <1>6. t = IF s.broke \/ e.size = 0 \/ count - n = 0
            THEN [s EXCEPT !.broke = TRUE]
            ELSE [s EXCEPT !.data = @ \o Section(e, s.k, to), !.k = 0]
    BY DEF CopyEntry
  <1>7. i = i1 => byte < e.size
    OBVIOUS
  <1>8. i = i1 => reach[i] + byte = start
    OBVIOUS
  <1> SUFFICES /\ Numbered(t.data, start)
               /\ (count > 0 => Len(t.data) > 0)
               /\ \/ t.broke /\ Len(t.data) = count
                  \/ /\ ~t.broke /\ t.k = 0 /\ count > 0
                     /\ \/ Len(t.data) = reach[i + 1] - start /\ Len(t.data) < count
                        \/ Len(t.data) = count
                        \/ Len(t.data) = count + byte
    BY <1>0 DEF LoopInv
  <1>9. CASE s.broke \/ count - n = 0
    <2>1. n = count
      BY <1>4, <1>9
    <2>2. t = [s EXCEPT !.broke = TRUE]
      BY <1>6, <1>9
    <2>3. t.data = s.data /\ t.broke
      BY <2>2 DEF CopyState
    <2> QED BY <2>1, <2>3, <1>4
  <1>10. CASE ~s.broke /\ count - n # 0
    <2> DEFINE c == Section(e, s.k, to)
               d == s.data \o c
    <2>1. e.size # 0
      BY <1>1, <1>3
    <2>2. t = [s EXCEPT !.data = d, !.k = 0]
      BY <1>6, <1>10, <2>1
    <2>3. to = IF n + e.size < count THEN e.size ELSE count - n + byte
      BY DEF CopyEnd
    <2> HIDE DEF to, start, n, e
    <2>4. count > 0
      BY <1>4, <1>10
    <2> DEFINE r == reach[i]
               r1 == reach[i + 1]
               sz == e.size
               k == s.k
    <2>a. /\ r \in Nat /\ r1 = r + sz /\ sz \in Nat /\ sz > 0 /\ k \in Nat /\ e.buffptr = r
          /\ to = IF n + sz < count THEN sz ELSE count - n + byte
          /\ n \in Nat /\ n # count /\ start \in Nat
      BY <2>3, <1>1, <1>2, <1>3, <1>4, <1>5, <1>10
    <2>b. \/ n = 0 /\ k = byte /\ byte < sz /\ r + byte = start
          \/ k = 0 /\ n > 0 /\ ((n = r - start /\ n < count) \/ n = count + byte)
      <3>1. CASE i = i1
        BY <3>1, <1>4, <1>7, <1>8
      <3>2. CASE i # i1
        BY <3>2, <1>4, <1>10, <2>4
      <3> QED BY <3>1, <3>2
    <2> HIDE DEF r, r1, sz, k
    <2>5. to \in Int /\ (r + k = start + n \/ ~(to > k))
      BY <2>a, <2>b
    <2> DEFINE l == n + (IF to > k THEN to - k ELSE 0)
    <2>6. Numbered(d, start) /\ Len(d) = l
      <3>1. e.buffptr + s.k = start + Len(s.data) \/ ~(to > s.k)
        BY <2>5, <2>a DEF k, n
      <3>2. s.data \in Seq(Nat \X Nat) /\ e.buffptr \in Nat /\ s.k \in Nat /\ to \in Int /\ start \in Nat
        BY <1>1, <1>4, <2>5, <2>a
      <3>3. Numbered(s.data, start)
        BY <1>4
      <3>4. LongerBy(start, s.data, e, s.k, to)
        <4>1. GoesOn(start, s.data, e, s.k, to)
          BY <3>1, <3>2, <3>3 DEF GoesOn
        <4> QED BY <4>1, NumberedFurther
      <3> QED BY <3>4 DEF n, k, LongerBy
    <2>7. l > 0 /\ ((l = r1 - start /\ l < count) \/ l = count \/ l = count + byte)
      <3>1. CASE n + sz < count
        BY <3>1, <2>4, <2>a, <2>b
      <3>2. CASE ~(n + sz < count)
        BY <3>2, <2>4, <2>a, <2>b
      <3> QED BY <3>1, <3>2
    <2> HIDE DEF l, d
    <2>8. t.k = 0 /\ t.data = d /\ t.broke = s.broke
      BY <2>2 DEF CopyState
    <2> QED BY <2>4, <2>6, <2>7, <2>8, <1>10 DEF r1
  <1> QED BY <1>4, <1>9, <1>10

(* The bytes read_helper returns are numbered without a gap from start on, *)
(* whatever the count, and there are some.                                 *)
LEMMA ReadHelperNumbered ==
  ASSUME NEW b, NEW i1, NEW i2, NEW reach, Adjacent(b, i1, i2, reach), i1 < i2,
         NEW count \in Nat, NEW byte \in Nat, byte < b.entry[i1].size,
         NEW d, d = read_helper(b, i1, i2, count, byte)
  PROVE  Numbered(d, reach[i1] + byte) /\ (count > 0 => Len(d) > 0) /\ (count = 0 => Len(d) = 0)
  <1> DEFINE s == CopyStates(b, i1, i2, count, byte)
             ok(i) == LoopInv(i1, reach, count, byte, s[i], i)
             T == {i \in i1 .. i2 : ok(i)}
  <1>0. b \in Buffers(Nat) /\ N \in Nat /\ i1 \in 0 .. N /\ i2 \in i1 .. N /\ i1 \in Int /\ i2 \in Int
    BY CapacityAssumption DEF Adjacent
  <1>1. /\ \A i \in i1 .. i2 : s[i] \in CopyState
        /\ s[i1] = [data |-> << >>, k |-> byte, broke |-> FALSE]
        /\ \A i \in i1 .. i2 - 1 : s[i + 1] = CopyEntry(b.entry[i], s[i], count, byte)
    BY <1>0, CopyStatesDef
  <1>2. d = s[i2].data
    BY DEF read_helper
  <1> HIDE DEF s
  <1>3. i1 \in T
    <2>1. i1 \in i1 .. i2
      BY <1>0
    <2>2. s[i1].k = byte /\ s[i1].data = << >> /\ s[i1].broke = FALSE
      BY <1>1
    <2>3. Len(s[i1].data) = 0 /\ Numbered(s[i1].data, reach[i1] + byte)
      BY <2>2 DEF Numbered
    <2>4. ok(i1)
      BY <2>2, <2>3 DEF LoopInv
    <2> QED BY <2>1, <2>4
  <1>4. ASSUME NEW i \in i1 .. i2 - 1, i \in T PROVE i + 1 \in T
    <2>1. i \in i1 .. i2 /\ i + 1 \in i1 .. i2
      BY <1>0
    <2>2. s[i] \in CopyState /\ ok(i) /\ s[i + 1] = CopyEntry(b.entry[i], s[i], count, byte)
      BY <1>1, <1>4, <2>1
    <2>3. ok(i + 1)
      BY <2>2, LoopStep
    <2> HIDE DEF ok
    <2> QED BY <2>1, <2>3
  <1>5. ok(i2)
    <2>1. \A i \in i1 .. i2 : i \in T
      <3> HIDE DEF T
      <3> QED BY <1>0, <1>3, <1>4, FromTo, Zenon
    <2>2. i2 \in i1 .. i2
      BY <1>0
    <2> HIDE DEF ok
    <2> QED BY <2>1, <2>2
  <1>6. i2 # i1
    BY <1>0
  <1> QED BY <1>2, <1>5, <1>6 DEF LoopInv

(* The slots one aesd_read can copy, from the k-th entry on: the entries   *)
(* up to the newest one, or up to the last slot of a full ring.            *)
LEMMA SectionOf ==
  ASSUME NEW b, NEW end, HoldsStream(b, end), NEW k \in 0 .. Held(b) - 1,
         NEW i1, i1 = SlotAfter(b.out_offs, k), NEW i2, i2 = section_end(b, i1)
  PROVE  \E m \in k + 1 .. Held(b) :
           /\ i1 \in Slots /\ i2 \in 0 .. N /\ i2 = i1 + (m - k)
           /\ \A i \in i1 .. i2 - 1 : SlotAfter(b.out_offs, k + (i - i1)) = i
           /\ IF b.full /\ i2 = N THEN b.out_offs + m = N ELSE m = Held(b)
  <1>0. /\ b \in Buffers(Nat) /\ N \in Nat /\ N > 0 /\ b.out_offs \in 0 .. N - 1 /\ b.in_offs \in 0 .. N - 1
        /\ Slots = 0 .. N - 1 /\ b.full \in BOOLEAN
        /\ IF b.full THEN b.in_offs = b.out_offs ELSE b.out_offs = 0
    BY CapacityAssumption DEF HoldsStream, Buffers, Slots
  <1> DEFINE o == b.out_offs
             q == b.in_offs
  <1>4. i1 \in Slots
    <2>1. k \in Slots /\ b.out_offs \in Slots
      BY <1>0 DEF Held
    <2> QED BY <2>1, SlotAfterSlot
  <1>1. CASE ~b.full
    <2>1. o = 0 /\ Held(b) = q /\ i2 = q
      BY <1>0, <1>1 DEF Held, section_end
    <2>2. i1 = k
      BY <2>1, <1>0 DEF SlotAfter
    <2>3. q \in k + 1 .. Held(b) /\ i2 = i1 + (q - k) /\ i1 \in Slots /\ i2 \in 0 .. N
      BY <2>1, <2>2, <1>0
    <2>4. \A i \in i1 .. i2 - 1 : SlotAfter(o, k + (i - i1)) = i
      BY <2>1, <2>2, <1>0 DEF SlotAfter
    <2> QED BY <1>1, <2>1, <2>3, <2>4
  <1>2. CASE b.full /\ o <= i1
    <2>1. Held(b) = N /\ i2 = N
      BY <1>0, <1>2 DEF Held, section_end
    <2>2. i1 = o + k
      BY <2>1, <1>0, <1>2 DEF SlotAfter
    <2>3. N - o \in k + 1 .. Held(b) /\ i2 = i1 + ((N - o) - k) /\ i1 \in Slots /\ i2 \in 0 .. N
      BY <2>1, <2>2, <1>0, <1>4
    <2>4. \A i \in i1 .. i2 - 1 : SlotAfter(o, k + (i - i1)) = i
      BY <2>1, <2>2, <1>0 DEF SlotAfter
    <2>5. o + (N - o) = N
      BY <1>0
    <2> QED BY <1>2, <2>1, <2>3, <2>4, <2>5
  <1>3. CASE b.full /\ ~(o <= i1)
    <2>1. Held(b) = N /\ i2 = o
      BY <1>0, <1>3 DEF Held, section_end
    <2>2. i1 = o + k - N
      BY <2>1, <1>0, <1>3 DEF SlotAfter
    <2>3. N \in k + 1 .. Held(b) /\ i2 = i1 + (N - k) /\ i1 \in Slots /\ i2 \in 0 .. N /\ i2 # N
      BY <2>1, <2>2, <1>0, <1>4
    <2>4. \A i \in i1 .. i2 - 1 : SlotAfter(o, k + (i - i1)) = i
      BY <2>1, <2>2, <1>0 DEF SlotAfter
    <2> QED BY <1>3, <2>1, <2>3, <2>4
  <1> QED BY <1>0, <1>1, <1>2, <1>3

(* They lie next to each other in the stream too. *)
LEMMA SectionAdjacent ==
  ASSUME NEW b, NEW end, HoldsStream(b, end), NEW k \in 0 .. Held(b) - 1, NEW m \in k + 1 .. Held(b),
         NEW i1 \in Slots, NEW i2 \in 0 .. N, i2 = i1 + (m - k),
         \A i \in i1 .. i2 - 1 : SlotAfter(b.out_offs, k + (i - i1)) = i,
         NEW reach, \A i \in i1 .. i2 : reach[i] = StartOf(b, end, k + (i - i1))
  PROVE  /\ Adjacent(b, i1, i2, reach) /\ i1 < i2
         /\ reach[i1] = StartOf(b, end, k) /\ reach[i2] = StartOf(b, end, m)
         /\ b.entry[i1] = Nth(b, k) /\ b.entry[i2 - 1] = Nth(b, m - 1)
  <1>0. /\ b \in Buffers(Nat) /\ N \in Nat /\ Slots = 0 .. N - 1 /\ Held(b) \in 0 .. N
        /\ i1 \in 0 .. N /\ i2 \in i1 .. N /\ i1 < i2 /\ i1 \in Int /\ i2 \in Int /\ k \in Int /\ m \in Int
    BY HeldTypes DEF HoldsStream, Slots
  <1>1. ASSUME NEW i \in i1 .. i2
        PROVE  reach[i] = StartOf(b, end, k + (i - i1)) /\ reach[i] \in Nat
    <2>1. k + (i - i1) \in 0 .. N
      BY <1>0
    <2> QED BY <2>1, HeldTypes
  <1>2. ASSUME NEW i \in i1 .. i2 - 1
        PROVE  /\ b.entry[i].buffptr = reach[i] /\ b.entry[i].size > 0
               /\ reach[i + 1] = reach[i] + b.entry[i].size
               /\ b.entry[i] = Nth(b, k + (i - i1))
    <2> DEFINE j == k + (i - i1)
    <2>1. j \in 0 .. Held(b) - 1 /\ i \in i1 .. i2 /\ i + 1 \in i1 .. i2 /\ j + 1 = k + ((i + 1) - i1)
      BY <1>0
    <2>2. b.entry[i] = Nth(b, j)
      BY DEF Nth
    <2> HIDE DEF j
    <2>3. Nth(b, j).size > 0 /\ StartOf(b, end, j) + Nth(b, j).size = StartOf(b, end, j + 1)
      BY <2>1 DEF HoldsStream
    <2>4. StartOf(b, end, j) = Nth(b, j).buffptr
      BY <2>1, <1>0 DEF StartOf
    <2>5. reach[i] = StartOf(b, end, j) /\ reach[i + 1] = StartOf(b, end, j + 1)
      BY <2>1, <1>1 DEF j
    <2> QED BY <2>2, <2>3, <2>4, <2>5 DEF j
  <1>3. Adjacent(b, i1, i2, reach)
    BY <1>0, <1>1, <1>2 DEF Adjacent
  <1>4. i1 \in i1 .. i2 /\ i2 \in i1 .. i2 /\ i1 \in i1 .. i2 - 1 /\ i2 - 1 \in i1 .. i2 - 1
    BY <1>0
  <1>5. k + (i1 - i1) = k /\ k + (i2 - i1) = m /\ k + ((i2 - 1) - i1) = m - 1
    BY <1>0
  <1>6. reach[i1] = StartOf(b, end, k) /\ reach[i2] = StartOf(b, end, m)
    BY <1>1, <1>4, <1>5
  <1>7. b.entry[i1] = Nth(b, k) /\ b.entry[i2 - 1] = Nth(b, m - 1)
    <2>1. b.entry[i1] = Nth(b, k + (i1 - i1)) /\ b.entry[i2 - 1] = Nth(b, k + ((i2 - 1) - i1))
      BY <1>2, <1>4
    <2> QED BY <2>1, <1>5
  <1> QED BY <1>0, <1>3, <1>6, <1>7

(* Where in the stream one aesd_read from position x has to stop. *)
StopOf(b, end, x) ==
  LET i == section_end(b, start_entry(b, x).index)
  IN  IF b.full /\ i = N THEN b.entry[N - 1].buffptr + b.entry[N - 1].size ELSE end

(* A byte of the stream that lies inside an entry the ring holds. *)
InHeld(b, byte) ==
  \E k \in 0 .. Held(b) - 1 : byte[1] = Nth(b, k).buffptr /\ byte[2] < Nth(b, k).size

(* What one aesd_read copies. *)
ReadsStream(b, end, x, count) ==
  LET d == read_entries(b, x, count)
      start == StartOf(b, end, 0) + x
      stop == StopOf(b, end, x)
  IN  /\ d \in Seq(Nat \X Nat)
      /\ Len(d) = IF stop - start < count THEN stop - start ELSE count
      /\ \A j \in 1 .. Len(d) : d[j][1] + d[j][2] = start + j - 1 /\ InHeld(b, d[j])

(* Whatever the count, what it copies is numbered without a gap, and is    *)
(* not empty unless the count is.                                          *)
ReadsOn(b, end, x, count) ==
  LET d == read_entries(b, x, count)
  IN  Numbered(d, StartOf(b, end, 0) + x) /\ (count > 0 => Len(d) > 0)

(* The numbers of one aesd_read: it starts in the k-th entry and stops     *)
(* before the m-th.                                                        *)
ReadsEntries(b, end, x, k, m) ==
  /\ k \in 0 .. Held(b) - 1 /\ m \in k + 1 .. Held(b)
  /\ IsByteOf(b, end, x, start_entry(b, x), k)
  /\ b.entry[start_entry(b, x).index] = Nth(b, k)
  /\ StopOf(b, end, x) = StartOf(b, end, m)
  /\ StopOf(b, end, x) \in Nat /\ StopOf(b, end, x) <= end
  /\ StartOf(b, end, 0) + x < StopOf(b, end, x)
  /\ m = Held(b) \/ (b.full /\ b.out_offs + m = N)

(* An aesd_read at a position inside the data starts in an entry and stops *)
(* at the end of the ring's data or of the array; what it returns is       *)
(* numbered from there, and is exactly the stream when the copy is exact.  *)
LEMMA ReadInStream ==
  ASSUME NEW b, NEW end, HoldsStream(b, end), NEW x \in Nat, x < b.total_size
  PROVE  \E k, m \in 0 .. N :
           /\ ReadsEntries(b, end, x, k, m)
           /\ \A count \in Nat \ {0} :
                Exact(Nth(b, k).size, start_entry(b, x).byte, count,
                      StopOf(b, end, x) - (StartOf(b, end, 0) + x))
                  => ReadsStream(b, end, x, count)
           /\ \A count \in Nat : ReadsOn(b, end, x, count)
  <1> DEFINE s == start_entry(b, x)
             i1 == s.index
             i2 == section_end(b, i1)
             start == StartOf(b, end, 0) + x
             stop == StopOf(b, end, x)
  <1>0. /\ Held(b) \in 0 .. N /\ N \in Nat /\ N > 0 /\ \A k \in 0 .. N : StartOf(b, end, k) \in Nat
        /\ end \in Nat /\ b \in Buffers(Nat)
    BY HeldTypes DEF HoldsStream
  <1>1. PICK k \in 0 .. Held(b) - 1 : IsByteOf(b, end, x, s, k)
    BY StartInStream
  <1>2. /\ i1 = SlotAfter(b.out_offs, k) /\ s.byte \in Nat /\ s.byte < Nth(b, k).size
        /\ StartOf(b, end, k) + s.byte = start
    BY <1>1 DEF IsByteOf
  <1>3. PICK m \in k + 1 .. Held(b) :
           /\ i1 \in Slots /\ i2 \in 0 .. N /\ i2 = i1 + (m - k)
           /\ \A i \in i1 .. i2 - 1 : SlotAfter(b.out_offs, k + (i - i1)) = i
           /\ IF b.full /\ i2 = N THEN b.out_offs + m = N ELSE m = Held(b)
    BY <1>2, SectionOf
  <1>4. stop = IF b.full /\ i2 = N THEN b.entry[N - 1].buffptr + b.entry[N - 1].size ELSE end
    BY DEF StopOf
  <1>5. \A c : read_entries(b, x, c) = read_helper(b, i1, i2, c, s.byte)
    BY DEF read_entries
  <1> HIDE DEF s, i2, stop
  <1> DEFINE reach == [i \in i1 .. i2 |-> StartOf(b, end, k + (i - i1))]
  <1>6. /\ Adjacent(b, i1, i2, reach) /\ i1 < i2
        /\ reach[i1] = StartOf(b, end, k) /\ reach[i2] = StartOf(b, end, m)
        /\ b.entry[i1] = Nth(b, k) /\ b.entry[i2 - 1] = Nth(b, m - 1)
    <2> HIDE DEF i1
    <2>1. \A i \in i1 .. i2 : reach[i] = StartOf(b, end, k + (i - i1))
      OBVIOUS
    <2> HIDE DEF reach
    <2> QED BY <1>3, <2>1, SectionAdjacent
  <1> HIDE DEF reach, i1
  <1>7. k \in 0 .. N /\ m \in 0 .. N /\ k \in 0 .. Held(b) /\ m \in 0 .. Held(b) /\ m - 1 \in 0 .. Held(b) - 1
        /\ k + 1 \in 0 .. Held(b) /\ m \in k + 1 .. Held(b) /\ Held(b) \in m .. Held(b) /\ k \in 0 .. N - 1
    BY <1>0
  <1>8. stop = StartOf(b, end, m)
    <2>1. CASE b.full /\ i2 = N
      <3>1. stop = Nth(b, m - 1).buffptr + Nth(b, m - 1).size
        BY <2>1, <1>4, <1>6
      <3>2. StartOf(b, end, m - 1) + Nth(b, m - 1).size = StartOf(b, end, (m - 1) + 1)
        BY <1>7 DEF HoldsStream
      <3>3. StartOf(b, end, m - 1) = Nth(b, m - 1).buffptr /\ (m - 1) + 1 = m
        BY <1>7, <1>0 DEF StartOf
      <3> QED BY <3>1, <3>2, <3>3
    <2>2. CASE ~(b.full /\ i2 = N)
      <3>1. m = Held(b) /\ stop = end
        BY <2>2, <1>3, <1>4
      <3> QED BY <3>1, <1>0 DEF StartOf
    <2> QED BY <2>1, <2>2
  <1>9. stop \in Nat /\ stop <= end /\ start < stop
    <2>1. StartOf(b, end, m) <= StartOf(b, end, Held(b)) /\ StartOf(b, end, Held(b)) = end
      <3>1. StartOf(b, end, m) <= StartOf(b, end, Held(b))
        BY <1>7, StartsGoUp
      <3> QED BY <3>1, <1>0 DEF StartOf
    <2>2. StartOf(b, end, k + 1) <= StartOf(b, end, m)
      BY <1>7, StartsGoUp
    <2>3. StartOf(b, end, k) + Nth(b, k).size = StartOf(b, end, k + 1)
      BY DEF HoldsStream
    <2>4. /\ StartOf(b, end, m) \in Nat /\ StartOf(b, end, k) \in Nat /\ StartOf(b, end, k + 1) \in Nat
          /\ Nth(b, k).size \in Nat /\ StartOf(b, end, 0) \in Nat
      BY <1>0, <1>7, HeldTypes
    <2>5. start < StartOf(b, end, k + 1)
      BY <1>2, <2>3, <2>4
    <2> HIDE DEF start
    <2>6. start \in Int
      BY <2>4 DEF start
    <2> QED BY <1>8, <2>1, <2>2, <2>4, <2>5, <2>6, <1>0
  <1>10. ReadsEntries(b, end, x, k, m)
    <2>1. m = Held(b) \/ (b.full /\ b.out_offs + m = N)
      BY <1>3
    <2> QED BY <1>1, <1>6, <1>8, <1>9, <2>1 DEF ReadsEntries, s, i1, stop
  <1>11. ASSUME NEW count \in Nat \ {0}, Exact(Nth(b, k).size, s.byte, count, stop - start)
         PROVE  ReadsStream(b, end, x, count)
    <2> DEFINE d == read_entries(b, x, count)
    <2>1. d = read_helper(b, i1, i2, count, s.byte)
      BY <1>5
    <2>2. reach[i1] + s.byte = start /\ reach[i2] = stop
      BY <1>2, <1>6, <1>8
    <2> HIDE DEF d, start
    <2>3. /\ d \in Seq(Nat \X Nat)
          /\ Len(d) = IF reach[i2] - (reach[i1] + s.byte) < count
                      THEN reach[i2] - (reach[i1] + s.byte) ELSE count
          /\ Copied(b, i1, i2, reach[i1] + s.byte, d)
      <3>1. count \in Nat /\ count > 0
        OBVIOUS
      <3>2. s.byte < b.entry[i1].size
        BY <1>2, <1>6
      <3>3. Exact(b.entry[i1].size, s.byte, count, reach[i2] - (reach[i1] + s.byte))
        BY <1>6, <2>2, <1>11
      <3> QED BY <3>1, <3>2, <3>3, <1>2, <1>6, <2>1, ReadHelperExact
    <2>4. ASSUME NEW j \in 1 .. Len(d)
          PROVE  d[j][1] + d[j][2] = start + j - 1 /\ InHeld(b, d[j])
      <3>1. PICK i \in i1 .. i2 - 1 : d[j][1] = b.entry[i].buffptr /\ d[j][2] < b.entry[i].size
        BY <2>3 DEF Copied
      <3>2. k + (i - i1) \in 0 .. Held(b) - 1
        BY <1>3, <1>0 DEF Slots
      <3>3. b.entry[i] = Nth(b, k + (i - i1))
        BY <1>3 DEF Nth
      <3>4. InHeld(b, d[j])
        BY <3>1, <3>2, <3>3 DEF InHeld
      <3>5. d[j][1] + d[j][2] = start + j - 1
        BY <2>2, <2>3 DEF Copied
      <3> QED BY <3>4, <3>5
    <2> QED BY <2>2, <2>3, <2>4 DEF ReadsStream, d, start, stop
  <1>12. ASSUME NEW count \in Nat PROVE ReadsOn(b, end, x, count)
    <2> DEFINE d == read_entries(b, x, count)
    <2>1. d = read_helper(b, i1, i2, count, s.byte)
      BY <1>5
    <2>2. reach[i1] + s.byte = start /\ s.byte < b.entry[i1].size
      BY <1>2, <1>6
    <2> HIDE DEF d, start
    <2>3. Numbered(d, reach[i1] + s.byte) /\ (count > 0 => Len(d) > 0)
      BY <1>2, <1>6, <2>1, <2>2, ReadHelperNumbered
    <2> QED BY <2>2, <2>3 DEF ReadsOn, d, start
  <1> QED BY <1>7, <1>10, <1>11, <1>12 DEF s, stop

(* The position at which an entry starts is byte 0 of that entry. *)
LEMMA StartIsByteZero ==
  ASSUME NEW b, NEW end, HoldsStream(b, end), NEW x \in Nat, NEW r, NEW k, IsByteOf(b, end, x, r, k),
         NEW m \in 0 .. Held(b) - 1, StartOf(b, end, 0) + x = StartOf(b, end, m)
  PROVE  k = m /\ r.byte = 0
  <1>0. Held(b) \in 0 .. N /\ N \in Nat /\ \A i \in 0 .. N : StartOf(b, end, i) \in Nat
    BY HeldTypes
  <1>1. /\ k \in 0 .. Held(b) - 1 /\ r.byte \in Nat /\ r.byte < Nth(b, k).size
        /\ StartOf(b, end, k) + r.byte = StartOf(b, end, m)
    BY DEF IsByteOf
  <1>2. StartOf(b, end, k) + Nth(b, k).size = StartOf(b, end, k + 1) /\ Nth(b, k).size \in Nat
    BY <1>0, <1>1, HeldTypes DEF HoldsStream
  <1>3. StartOf(b, end, k) \in Nat /\ StartOf(b, end, m) \in Nat /\ StartOf(b, end, k + 1) \in Nat
    BY <1>0, <1>1
  <1>4. ~(m < k)
    <2> SUFFICES ASSUME m < k PROVE FALSE
      OBVIOUS
    <2>1. k \in m .. Held(b) /\ m \in 0 .. Held(b)
      BY <1>0, <1>1
    <2>2. StartOf(b, end, m) < StartOf(b, end, k)
      BY <2>1, StartsGoUp
    <2> QED BY <2>2, <1>1, <1>3
  <1>5. ~(k < m)
    <2> SUFFICES ASSUME k < m PROVE FALSE
      OBVIOUS
    <2>1. m \in k + 1 .. Held(b) /\ k + 1 \in 0 .. Held(b)
      BY <1>0, <1>1
    <2>2. StartOf(b, end, k + 1) <= StartOf(b, end, m)
      BY <2>1, StartsGoUp
    <2> QED BY <2>2, <1>1, <1>2, <1>3
  <1>6. k = m
    BY <1>0, <1>1, <1>4, <1>5
  <1> QED BY <1>1, <1>3, <1>6

(* d is n bytes of the stream, from first on. *)
StreamPart(d, first, n) ==
  /\ d \in Seq(Nat \X Nat) /\ Len(d) = n
  /\ \A j \in 1 .. n : d[j][1] + d[j][2] = first + j - 1

(* Two parts of the stream that follow each other. *)
LEMMA OneAfterTheOther ==
  ASSUME NEW d1, NEW d2, NEW first \in Nat, NEW n1 \in Nat, NEW n2 \in Nat,
         StreamPart(d1, first, n1), StreamPart(d2, first + n1, n2)
  PROVE  StreamPart(d1 \o d2, first, n1 + n2)
  <1> DEFINE d == d1 \o d2
  <1>0. d1 \in Seq(Nat \X Nat) /\ d2 \in Seq(Nat \X Nat) /\ Len(d1) = n1 /\ Len(d2) = n2
    BY DEF StreamPart
  <1>1. /\ d \in Seq(Nat \X Nat) /\ Len(d) = n1 + n2
        /\ \A j \in 1 .. n1 + n2 : d[j] = IF j <= n1 THEN d1[j] ELSE d2[j - n1]
    BY <1>0, ConcatProperties
  <1> HIDE DEF d
  <1>2. ASSUME NEW j \in 1 .. n1 + n2 PROVE d[j][1] + d[j][2] = first + j - 1
    <2>1. CASE j <= n1
      <3>1. j \in 1 .. n1 /\ d[j] = d1[j]
        BY <2>1, <1>1
      <3> QED BY <3>1 DEF StreamPart
    <2>2. CASE ~(j <= n1)
      <3> DEFINE i == j - n1
      <3>1. i \in 1 .. n2 /\ n1 + i = j /\ d[j] = d2[i]
        BY <2>2, <1>1
      <3>2. d2[i][1] + d2[i][2] = first + n1 + i - 1
        BY <3>1 DEF StreamPart
      <3>3. first + n1 + i - 1 = first + j - 1
        BY <3>1
      <3> QED BY <3>1, <3>2, <3>3
    <2> QED BY <2>1, <2>2
  <1> QED BY <1>1, <1>2 DEF d, StreamPart

(* Two reads with a large buffer return everything the ring holds. *)
LEMMA CatInStream ==
  ASSUME NEW b, NEW end, HoldsStream(b, end), b.total_size > 0,
         NEW big, big = b.total_size + 1,
         NEW d1, d1 = read_entries(b, 0, big),
         NEW d2, Len(d1) < b.total_size => d2 = read_entries(b, Len(d1), big),
         ~(Len(d1) < b.total_size) => d2 = << >>
  PROVE  d1 # << >> /\ StreamPart(d1 \o d2, StartOf(b, end, 0), b.total_size)
  <1> DEFINE first == StartOf(b, end, 0)
  <1>0. /\ Held(b) \in 0 .. N /\ N \in Nat /\ N > 0 /\ first \in Nat
        /\ end \in Nat /\ b \in Buffers(Nat) /\ b.total_size = end - first
        /\ b.total_size \in Nat /\ big \in Nat \ {0} /\ b.out_offs \in 0 .. N - 1
    <2>1. end \in Nat /\ b \in Buffers(Nat) /\ b.total_size = end - first
      BY DEF HoldsStream
    <2>2. Held(b) \in 0 .. N /\ N \in Nat /\ N > 0 /\ first \in Nat
      <3>1. 0 \in 0 .. N
        BY CapacityAssumption
      <3> QED BY <3>1, HeldTypes
    <2>3. b.out_offs \in 0 .. N - 1
      BY <2>1 DEF Buffers, Slots
    <2> HIDE DEF first
    <2> QED BY <2>1, <2>2, <2>3
  <1>1. \A k \in 0 .. N : StartOf(b, end, k) \in Nat
    BY HeldTypes
  <1>2. PICK k1, m1 \in 0 .. N :
           /\ ReadsEntries(b, end, 0, k1, m1)
           /\ \A count \in Nat \ {0} :
                Exact(Nth(b, k1).size, start_entry(b, 0).byte, count, StopOf(b, end, 0) - (first + 0))
                  => ReadsStream(b, end, 0, count)
    <2>1. 0 \in Nat /\ 0 < b.total_size
      BY <1>0
    <2> QED BY <2>1, ReadInStream
  <1> DEFINE stop1 == StopOf(b, end, 0)
  <1>3. /\ m1 \in 0 .. Held(b) /\ stop1 = StartOf(b, end, m1) /\ stop1 \in Nat /\ stop1 <= end
        /\ first + 0 < stop1 /\ (m1 = Held(b) \/ (b.full /\ b.out_offs + m1 = N))
    <2>1. k1 \in 0 .. Held(b) - 1 /\ m1 \in k1 + 1 .. Held(b)
      BY <1>2 DEF ReadsEntries
    <2> QED BY <1>0, <1>2, <2>1 DEF ReadsEntries
  <1>4. ReadsStream(b, end, 0, big)
    <2>1. start_entry(b, 0).byte = 0
      BY DEF start_entry
    <2> QED BY <2>1, <1>0, <1>2 DEF Exact
  <1> HIDE DEF first, stop1
  <1>5. /\ d1 \in Seq(Nat \X Nat)
        /\ Len(d1) = IF stop1 - (first + 0) < big THEN stop1 - (first + 0) ELSE big
        /\ \A j \in 1 .. Len(d1) : d1[j][1] + d1[j][2] = (first + 0) + j - 1
    BY <1>4 DEF ReadsStream, first, stop1
  <1>6. Len(d1) = stop1 - first /\ Len(d1) \in Nat \ {0} /\ Len(d1) <= b.total_size
    BY <1>0, <1>3, <1>5
  <1>7. \A j \in 1 .. Len(d1) : d1[j][1] + d1[j][2] = first + j - 1
    <2>1. first + 0 = first
      BY <1>0
    <2> QED BY <2>1, <1>5
  <1>8. d1 # << >>
    BY <1>6
  <1>9. /\ d2 \in Seq(Nat \X Nat) /\ Len(d2) = b.total_size - Len(d1)
        /\ \A j \in 1 .. Len(d2) : d2[j][1] + d2[j][2] = first + Len(d1) + j - 1
    <2>1. CASE ~(Len(d1) < b.total_size)
      <3>1. d2 = << >>
        BY <2>1
      <3>2. Len(d2) = 0 /\ d2 \in Seq(Nat \X Nat)
        BY <3>1
      <3>3. Len(d2) = b.total_size - Len(d1)
        BY <3>2, <2>1, <1>0, <1>6
      <3>4. 1 .. Len(d2) = {}
        BY <3>2
      <3> QED BY <3>2, <3>3, <3>4
    <2>2. CASE Len(d1) < b.total_size
      <3> DEFINE x == Len(d1)
      <3>1. x \in Nat /\ x < b.total_size /\ first + x = stop1
        BY <2>2, <1>0, <1>3, <1>6
      <3>2. d2 = read_entries(b, x, big)
        BY <2>2
      <3> HIDE DEF x
      <3>3. PICK k2, m2 \in 0 .. N :
               /\ ReadsEntries(b, end, x, k2, m2)
               /\ \A count \in Nat \ {0} :
                    Exact(Nth(b, k2).size, start_entry(b, x).byte, count, StopOf(b, end, x) - (first + x))
                      => ReadsStream(b, end, x, count)
        BY <3>1, ReadInStream DEF first
      <3>4. m1 # Held(b) /\ b.full /\ b.out_offs + m1 = N /\ m1 \in 0 .. Held(b) - 1
        <4>1. m1 # Held(b)
          <5> SUFFICES ASSUME m1 = Held(b) PROVE FALSE
            OBVIOUS
          <5>1. stop1 = end
            BY <1>0, <1>3 DEF StartOf
          <5> QED BY <5>1, <3>1, <1>0
        <4> QED BY <4>1, <1>0, <1>3
      <3>5. k2 = m1 /\ start_entry(b, x).byte = 0
        <4>1. IsByteOf(b, end, x, start_entry(b, x), k2)
          BY <3>3 DEF ReadsEntries
        <4>2. StartOf(b, end, 0) + x = StartOf(b, end, m1)
          BY <3>1, <1>3 DEF first
        <4> QED BY <3>1, <3>4, <4>1, <4>2, StartIsByteZero
      <3>6. m2 = Held(b) /\ StopOf(b, end, x) = end
        <4>1. k2 \in 0 .. Held(b) - 1 /\ m2 \in k2 + 1 .. Held(b)
          BY <3>3 DEF ReadsEntries
        <4>2. m2 = Held(b) \/ b.out_offs + m2 = N
          BY <3>3 DEF ReadsEntries
        <4>3. m2 = Held(b)
          BY <4>1, <4>2, <3>4, <3>5, <1>0
        <4>4. StopOf(b, end, x) = StartOf(b, end, m2)
          BY <3>3 DEF ReadsEntries
        <4> QED BY <4>3, <4>4, <1>0 DEF StartOf
      <3>7. ReadsStream(b, end, x, big)
        BY <3>3, <3>5, <1>0 DEF Exact
      <3>8. /\ d2 \in Seq(Nat \X Nat)
            /\ Len(d2) = IF end - (first + x) < big THEN end - (first + x) ELSE big
            /\ \A j \in 1 .. Len(d2) : d2[j][1] + d2[j][2] = (first + x) + j - 1
        BY <3>2, <3>6, <3>7 DEF ReadsStream, first
      <3>9. Len(d2) = b.total_size - x
        <4>1. end - (first + x) = b.total_size - x /\ b.total_size - x < big
          BY <3>1, <1>0
        <4> QED BY <4>1, <3>8
      <3> QED BY <3>8, <3>9 DEF x
    <2> QED BY <2>1, <2>2
  <1>10. StreamPart(d1, first, Len(d1))
    BY <1>5, <1>7 DEF StreamPart
  <1>11. StreamPart(d2, first + Len(d1), b.total_size - Len(d1))
    <2>1. first + Len(d1) \in Nat /\ Len(d2) = b.total_size - Len(d1)
      BY <1>0, <1>6, <1>9
    <2> QED BY <1>9, <2>1 DEF StreamPart
  <1>12. Len(d1) \in Nat /\ b.total_size - Len(d1) \in Nat /\ Len(d1) + (b.total_size - Len(d1)) = b.total_size
    BY <1>0, <1>6
  <1>13. StreamPart(d1 \o d2, first, b.total_size)
    <2>1. StreamPart(d1 \o d2, first, Len(d1) + (b.total_size - Len(d1)))
      BY <1>0, <1>10, <1>11, <1>12, OneAfterTheOther
    <2> QED BY <2>1, <1>12
  <1> QED BY <1>8, <1>13 DEF first

(* The seek ioctl's sum, while the oldest entry is in slot 0. *)
LEMMA SeekInStream ==
  ASSUME NEW b, NEW end, HoldsStream(b, end), b.out_offs = 0
  PROVE  \A k \in 0 .. Held(b) : SizesBefore(b)[k] = StartOf(b, end, k) - StartOf(b, end, 0)
  <1> DEFINE S == SizesBefore(b)
             T == {k \in 0 .. Held(b) : S[k] = StartOf(b, end, k) - StartOf(b, end, 0)}
  <1>0. Held(b) \in 0 .. N /\ N \in Nat /\ 0 \in 0 .. N /\ \A k \in 0 .. N : StartOf(b, end, k) \in Nat
    BY HeldTypes
  <1>1. S[0] = 0 /\ \A k \in 0 .. N - 1 : S[k + 1] = S[k] + b.entry[k].size
    BY SizesBeforeDef DEF HoldsStream, Slots
  <1> HIDE DEF S
  <1>2. 0 \in T
    <2>1. StartOf(b, end, 0) - StartOf(b, end, 0) = 0
      BY <1>0
    <2> QED BY <2>1, <1>0, <1>1
  <1>3. ASSUME NEW k \in 0 .. Held(b) - 1, k \in T PROVE k + 1 \in T
    <2>1. k \in 0 .. N - 1 /\ k \in 0 .. N /\ k + 1 \in 0 .. N /\ k + 1 \in 0 .. Held(b)
      BY <1>0
    <2>2. b.entry[k] = Nth(b, k)
      BY <2>1, <1>0 DEF Nth, SlotAfter
    <2>3. StartOf(b, end, k) + Nth(b, k).size = StartOf(b, end, k + 1)
      BY DEF HoldsStream
    <2>4. /\ StartOf(b, end, k) \in Nat /\ StartOf(b, end, k + 1) \in Nat /\ StartOf(b, end, 0) \in Nat
          /\ Nth(b, k).size \in Nat
      BY <1>0, <2>1, HeldTypes
    <2>5. S[k + 1] = S[k] + Nth(b, k).size /\ S[k] = StartOf(b, end, k) - StartOf(b, end, 0)
      BY <1>1, <1>3, <2>1, <2>2
    <2>6. S[k + 1] = StartOf(b, end, k + 1) - StartOf(b, end, 0)
      BY <2>3, <2>4, <2>5
    <2> QED BY <2>1, <2>6
  <1>4. \A k \in 0 .. Held(b) : k \in T
    <2> HIDE DEF T
    <2>1. 0 \in Int /\ Held(b) \in Int
      BY <1>0
    <2> QED BY <2>1, <1>2, <1>3, FromTo
  <1> QED BY <1>4 DEF S

(* From a position that is not inside the data aesd_read copies nothing,   *)
(* or the bytes of the first slots, which are inside the stream.           *)
LEMMA ReadBeyond ==
  ASSUME NEW b, NEW end, HoldsStream(b, end), NEW x \in Nat, x >= b.total_size, NEW count \in Nat,
         NEW d, d = read_entries(b, x, count), Len(d) > 0
  PROVE  d[Len(d)][1] + d[Len(d)][2] < end
  <1> DEFINE s == start_entry(b, x)
             r == find_entry_offset_for_fpos(b, x, 0)
             i1 == s.index
             i2 == section_end(b, i1)
  <1>0. /\ Held(b) \in 0 .. N /\ N \in Nat /\ N > 0 /\ \A k \in 0 .. N : StartOf(b, end, k) \in Nat
        /\ end \in Nat /\ b \in Buffers(Nat)
        /\ b.out_offs \in 0 .. N - 1 /\ b.in_offs \in 0 .. N - 1
    BY HeldTypes DEF HoldsStream, Buffers, Slots
  <1>1. d = read_helper(b, i1, i2, count, s.byte)
    BY DEF read_entries
  <1>2. i1 < i2
    <2> HIDE DEF i1, i2, s
    <2> QED BY <1>1 DEF read_helper
  <1>3. ~b.full => i2 = Held(b) /\ b.out_offs = 0
    <2> HIDE DEF i1
    <2> QED BY DEF section_end, Held, HoldsStream
  <1>4. i1 = 0 /\ s.byte = 0
    <2>1. CASE x = 0
      <3>1. s = [index |-> b.out_offs, byte |-> 0]
        BY <2>1 DEF start_entry
      <3>2. Held(b) = 0
        <4>1. end <= StartOf(b, end, 0)
          BY <2>1, <1>0 DEF HoldsStream
        <4>2. 0 \in 0 .. Held(b) /\ Held(b) \in 0 .. Held(b)
          BY <1>0
        <4>3. StartOf(b, end, Held(b)) = end
          BY <1>0 DEF StartOf
        <4>4. 0 < Held(b) => StartOf(b, end, 0) < StartOf(b, end, Held(b))
          BY <4>2, StartsGoUp
        <4>5. StartOf(b, end, 0) \in Nat
          BY <1>0
        <4> QED BY <4>1, <4>3, <4>4, <4>5, <1>0
      <3>3. ~b.full
        BY <3>2, <1>0 DEF Held
      <3>4. i1 = 0 /\ s.byte = 0
        BY <3>1, <3>3, <1>3
      <3> QED BY <3>4
    <2>2. CASE x # 0
      <3>1. s = CASE x = 0              -> [index |-> b.out_offs, byte |-> 0]
                  [] x # 0 /\ r.found   -> [index |-> r.index, byte |-> r.byte]
                  [] OTHER              -> [index |-> 0, byte |-> 0]
        BY DEF start_entry
      <3>2. CASE r.found
        <4>1. \E k \in Held(b) .. N - 1 : r.index = SlotAfter(b.out_offs, k) /\ r.byte \in Nat
          <5> HIDE DEF s
          <5>1. x >= b.total_size /\ r.found =>
                  \E k \in Held(b) .. N - 1 : r.index = SlotAfter(b.out_offs, k) /\ r.byte \in Nat
            BY <2>2, FindInStream
          <5> QED BY <5>1, <3>2
        <4> HIDE DEF r
        <4>2. PICK k \in Held(b) .. N - 1 : r.index = SlotAfter(b.out_offs, k)
          BY <4>1
        <4>3. s = [index |-> r.index, byte |-> r.byte]
          BY <2>2, <3>1, <3>2
        <4>4. i1 = SlotAfter(b.out_offs, k)
          BY <4>2, <4>3
        <4> HIDE DEF i1, i2, s
        <4>5. ~b.full
          BY <1>0 DEF Held
        <4>6. i1 = k
          BY <4>4, <4>5, <1>0, <1>3 DEF SlotAfter
        <4> QED BY <4>5, <4>6, <1>0, <1>2, <1>3
      <3>3. CASE ~r.found
        <4> HIDE DEF r
        <4>1. s = [index |-> 0, byte |-> 0]
          BY <2>2, <3>1, <3>3
        <4> QED BY <4>1
      <3> QED BY <3>2, <3>3
    <2> QED BY <2>1, <2>2
  <1> HIDE DEF s, i1, i2, r
  <1>5. PICK k \in 0 .. Held(b) - 1 : i1 = SlotAfter(b.out_offs, k)
    <2>1. CASE ~b.full
      <3>1. 0 \in 0 .. Held(b) - 1 /\ SlotAfter(b.out_offs, 0) = 0
        BY <2>1, <1>0, <1>2, <1>3, <1>4 DEF SlotAfter
      <3> QED BY <3>1, <1>4
    <2>2. CASE b.full /\ b.out_offs = 0
      <3>1. 0 \in 0 .. Held(b) - 1 /\ SlotAfter(b.out_offs, 0) = 0
        BY <2>2, <1>0 DEF SlotAfter, Held
      <3> QED BY <3>1, <1>4
    <2>3. CASE b.full /\ b.out_offs # 0
      <3>1. N - b.out_offs \in 0 .. Held(b) - 1 /\ SlotAfter(b.out_offs, N - b.out_offs) = 0
        <4> DEFINE o == b.out_offs
        <4>1. o \in 0 .. N - 1 /\ o # 0 /\ N \in Nat /\ Held(b) = N
          BY <2>3, <1>0 DEF Held
        <4> HIDE DEF o
        <4>2. N - o \in 0 .. N - 1 /\ SlotAfter(o, N - o) = 0
          BY <4>1 DEF SlotAfter
        <4> QED BY <4>1, <4>2 DEF o
      <3> QED BY <3>1, <1>4
    <2> QED BY <2>1, <2>2, <2>3
  <1>6. PICK m \in k + 1 .. Held(b) :
           /\ i1 \in Slots /\ i2 \in 0 .. N /\ i2 = i1 + (m - k)
           /\ \A i \in i1 .. i2 - 1 : SlotAfter(b.out_offs, k + (i - i1)) = i
    <2>1. \E m \in k + 1 .. Held(b) :
           /\ i1 \in Slots /\ i2 \in 0 .. N /\ i2 = i1 + (m - k)
           /\ \A i \in i1 .. i2 - 1 : SlotAfter(b.out_offs, k + (i - i1)) = i
           /\ IF b.full /\ i2 = N THEN b.out_offs + m = N ELSE m = Held(b)
      BY <1>5, SectionOf DEF i2
    <2> QED BY <2>1
  <1> DEFINE reach == [i \in i1 .. i2 |-> StartOf(b, end, k + (i - i1))]
  <1>7. /\ Adjacent(b, i1, i2, reach) /\ i1 < i2
        /\ reach[i1] = StartOf(b, end, k) /\ reach[i2] = StartOf(b, end, m)
        /\ b.entry[i1] = Nth(b, k)
    <2>1. \A i \in i1 .. i2 : reach[i] = StartOf(b, end, k + (i - i1))
      OBVIOUS
    <2> HIDE DEF reach
    <2> QED BY <1>6, <2>1, SectionAdjacent
  <1> HIDE DEF reach
  <1>8. k \in 0 .. N /\ m \in 0 .. N /\ m \in 0 .. Held(b) /\ Held(b) \in m .. Held(b) /\ k \in 0 .. N - 1
    <2> DEFINE h == Held(b)
    <2>1. h \in 0 .. N /\ N \in Nat /\ k \in 0 .. h - 1 /\ m \in k + 1 .. h
      BY <1>0
    <2> HIDE DEF h
    <2>2. k \in 0 .. N /\ m \in 0 .. N /\ m \in 0 .. h /\ h \in m .. h /\ k \in 0 .. N - 1
      BY <2>1
    <2> QED BY <2>2 DEF h
  <1>9. Nth(b, k).size > 0 /\ Nth(b, k).size \in Nat
    BY <1>8, HeldTypes DEF HoldsStream
  <1>10. count > 0
    <2>1. count = 0 => Len(d) = 0
      BY <1>1, <1>4, <1>7, <1>9, ReadHelperNumbered
    <2> QED BY <2>1
  <1>11. /\ d \in Seq(Nat \X Nat)
         /\ Len(d) = IF reach[i2] - (reach[i1] + 0) < count THEN reach[i2] - (reach[i1] + 0) ELSE count
         /\ Copied(b, i1, i2, reach[i1] + 0, d)
    <2>1. Exact(b.entry[i1].size, 0, count, reach[i2] - (reach[i1] + 0))
      BY DEF Exact
    <2>2. d = read_helper(b, i1, i2, count, 0)
      BY <1>1, <1>4
    <2>3. 0 \in Nat /\ 0 < b.entry[i1].size
      BY <1>7, <1>9
    <2> QED BY <1>7, <1>10, <2>1, <2>2, <2>3, ReadHelperExact
  <1>12. Len(d) \in 1 .. Len(d) /\ Len(d) \in Nat
    BY <1>11
  <1>13. d[Len(d)][1] + d[Len(d)][2] = (reach[i1] + 0) + Len(d) - 1
    BY <1>11, <1>12 DEF Copied
  <1>14. reach[i2] <= end /\ reach[i1] \in Nat /\ reach[i2] \in Nat
    <2>1. StartOf(b, end, m) <= StartOf(b, end, Held(b)) /\ StartOf(b, end, Held(b)) = end
      <3>1. StartOf(b, end, m) <= StartOf(b, end, Held(b))
        BY <1>8, StartsGoUp
      <3> QED BY <3>1, <1>0 DEF StartOf
    <2> QED BY <2>1, <1>0, <1>7, <1>8
  <1>15. Len(d) <= reach[i2] - reach[i1]
    BY <1>11, <1>12, <1>14, <1>10
  <1> DEFINE l == Len(d)
             v == d[Len(d)][1] + d[Len(d)][2]
             a == reach[i1]
             z == reach[i2]
  <1>16. l \in Nat /\ v = (a + 0) + l - 1 /\ a \in Nat /\ z \in Nat /\ z <= end /\ l <= z - a
    BY <1>12, <1>13, <1>14, <1>15
  <1> HIDE DEF l, v, a, z
  <1>17. v < end
    BY <1>16, <1>0
  <1> QED BY <1>17 DEF v
=============================================================================
