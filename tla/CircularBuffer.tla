-------------------------- MODULE CircularBuffer --------------------------
(***************************************************************************)
(* struct aesd_circular_buffer and its functions                           *)
(* (aesd-char-driver/aesd-circular-buffer.[ch]) as operators on a buffer   *)
(* value, with the part of aesd_read and of the seek ioctl                 *)
(* (aesd-char-driver/main.c) that walks the entries.                       *)
(*                                                                         *)
(* An entry is [buffptr, size].  buffptr is never dereferenced by the ring *)
(* itself, so it is left uninterpreted: byte k of the memory it points to  *)
(* is the pair <<buffptr, k>>.  A copy that runs past an entry's end shows *)
(* up as a pair whose k is not below the entry's size.                     *)
(***************************************************************************)
EXTENDS Integers, Sequences, Functions

CONSTANT N   \* AESDCHAR_MAX_WRITE_OPERATIONS_SUPPORTED, 10 in the build

(* in_offs and out_offs are uint8_t: a slot number has to fit in one. *)
ASSUME CapacityAssumption == N \in 1..256

Slots == 0 .. N - 1

(* struct aesd_buffer_entry and struct aesd_circular_buffer, for pointers  *)
(* taken from P.  total_size is signed.                                    *)
Entries(P) == [buffptr : P, size : Nat]
Buffers(P) == [entry : [Slots -> Entries(P)], in_offs : Slots, out_offs : Slots,
               full : BOOLEAN, total_size : Int]

(* The wrap-around increment of in_offs and out_offs.                      *)
(*                                                                         *)
(* Operators named X_Fault, here and in the other modules, are X with a    *)
(* mistake in it; nothing uses them.  PROJECT.json pairs each with the     *)
(* property that notices when it takes the place of X.                     *)
Succ_NoWrap(i) == i + 1
Succ(i) == IF i + 1 = N THEN 0 ELSE i + 1

(***************************************************************************)
(* aesd_circular_buffer_init, followed (in aesd_init_module) by the copy   *)
(* of a freshly kmalloc'ed, uninitialised entry into every slot.           *)
(***************************************************************************)
aesd_circular_buffer_init(junk) ==
  [entry |-> junk, in_offs |-> 0, out_offs |-> 0, full |-> FALSE, total_size |-> 0]

(***************************************************************************)
(* aesd_circular_buffer_add_entry, in the order of its assignments.  Which *)
(* branch is taken is decided once, by the value of full on entry.         *)
(***************************************************************************)
DropOldSize_Missing(b) == b
DropOldSize(b)   == [b EXCEPT !.total_size = @ - b.entry[b.in_offs].size]
AddNewSize(b, e) == [b EXCEPT !.total_size = @ + e.size]
StoreEntry_AtOut(b, e) == [b EXCEPT !.entry[b.out_offs] = e]
StoreEntry(b, e) == [b EXCEPT !.entry[b.in_offs] = e]
AdvanceIn_NeverFull(b, was_full) == [b EXCEPT !.in_offs = Succ(@)]
AdvanceIn(b, was_full) ==
  [b EXCEPT !.in_offs = Succ(@), !.full = @ \/ (~was_full /\ b.in_offs + 1 = N)]
AdvanceOut_Missing(b) == b
AdvanceOut(b) == [b EXCEPT !.out_offs = Succ(@)]

aesd_circular_buffer_add_entry(b, e) ==
  IF b.full
  THEN AdvanceOut(AdvanceIn(StoreEntry(AddNewSize(DropOldSize(b), e), e), TRUE))
  ELSE AdvanceIn(StoreEntry(AddNewSize(b, e), e), FALSE)

(* The four assignments with which aesd_flush empties the ring.  The       *)
(* entries themselves keep their stale pointers and sizes.                 *)
ResetOffsets(b) ==
  [entry |-> b.entry, in_offs |-> 0, out_offs |-> 0, full |-> FALSE, total_size |-> 0]

(* The slot k places after slot i. *)
SlotAfter(i, k) == IF i + k < N THEN i + k ELSE i + k - N

(* The search stops when the rest of the offset lies inside the entry. *)
LiesInside_OneTooFar(rest, e) == rest <= e.size
LiesInside(rest, e) == rest < e.size

(* The loops over the slots: SizesBefore(b)[k] is the sum of the sizes of  *)
(* the slots below k, Remaining(b, char_offset)[k] what is left of         *)
(* char_offset when the search has passed k slots.                         *)
SizesBefore(b) ==
  LET sum[k \in 0 .. N] == IF k = 0 THEN 0 ELSE sum[k - 1] + b.entry[k - 1].size
  IN  sum

Remaining(b, char_offset) ==
  LET rest[k \in 0 .. N] ==
        IF k = 0 THEN char_offset
                 ELSE rest[k - 1] - b.entry[SlotAfter(b.out_offs, k - 1)].size
  IN  rest

(***************************************************************************)
(* aesd_circular_buffer_find_entry_offset_for_fpos.  The size check sums   *)
(* every slot, the unoccupied ones too.  The search loop then subtracts    *)
(* sizes from the oldest slot on until the rest lies inside an entry; as   *)
(* the sum exceeds char_offset it stops within one turn of the ring.       *)
(* rtn is what *entry_offset_byte_rtn held: for offset 0 the function      *)
(* assigns its local pointer and leaves the caller's value as it was.      *)
(***************************************************************************)
find_entry_offset_for_fpos(b, char_offset, rtn) ==
  LET total_chars == SizesBefore(b)[N]
      remaining == Remaining(b, char_offset)
      inside(k) == LiesInside(remaining[k], b.entry[SlotAfter(b.out_offs, k)])
      stop == CHOOSE k \in Slots : inside(k) /\ \A j \in 0 .. k - 1 : ~inside(j)
  IN  CASE char_offset = 0 -> [found |-> TRUE, index |-> b.out_offs, byte |-> rtn]
        [] char_offset # 0 /\ total_chars <= char_offset ->
             [found |-> FALSE, index |-> 0, byte |-> rtn]
        [] OTHER -> [found |-> TRUE, index |-> SlotAfter(b.out_offs, stop), byte |-> remaining[stop]]

(* Where the copy of an entry ends when n of count bytes are there. *)
CopyEnd_NoOffset(e, n, count, byte_offset) == IF n + e.size < count THEN e.size ELSE count - n
CopyEnd(e, n, count, byte_offset) ==
  IF n + e.size < count THEN e.size ELSE count - n + byte_offset

(***************************************************************************)
(* aesd_circular_buffer_read_helper: copy the entries index1 .. index2-1   *)
(* to data until count bytes are there.  byte_offset is the start inside   *)
(* the first entry, and is also added to the end of whichever entry is     *)
(* copied in part.  CopyStates[i] is the loop's state before iteration i:  *)
(* the bytes copied, where in entry i to start, and whether it broke off.  *)
(***************************************************************************)
Section(e, from, to) ==
  [j \in 1 .. (IF to > from THEN to - from ELSE 0) |-> <<e.buffptr, from + j - 1>>]

CopyEntry(e, s, count, byte_offset) ==
  LET n == Len(s.data)
  IN  IF s.broke \/ e.size = 0 \/ count - n = 0
      THEN [s EXCEPT !.broke = TRUE]
      ELSE [s EXCEPT !.data = @ \o Section(e, s.k, CopyEnd(e, n, count, byte_offset)), !.k = 0]

CopyStates(b, index1, index2, count, byte_offset) ==
  LET copied[i \in index1 .. index2] ==
        IF i = index1 THEN [data |-> << >>, k |-> byte_offset, broke |-> FALSE]
                      ELSE CopyEntry(b.entry[i - 1], copied[i - 1], count, byte_offset)
  IN  copied

read_helper(b, index1, index2, count, byte_offset) ==
  IF index1 < index2 THEN CopyStates(b, index1, index2, count, byte_offset)[index2].data ELSE << >>

(* Where aesd_read starts: the slot and the byte inside it. *)
start_entry(b, f_pos) ==
  LET r == find_entry_offset_for_fpos(b, f_pos, 0)
  IN  CASE f_pos = 0              -> [index |-> b.out_offs, byte |-> 0]
        [] f_pos # 0 /\ r.found   -> [index |-> r.index, byte |-> r.byte]
        [] OTHER                  -> [index |-> 0, byte |-> 0]

(* Where aesd_read stops: one call never crosses the physical end of a     *)
(* full ring.                                                              *)
section_end_Strict(b, index) ==
  CASE ~b.full                       -> b.in_offs
    [] b.full /\ b.out_offs < index  -> N
    [] OTHER                         -> b.out_offs
section_end(b, index) ==
  CASE ~b.full                        -> b.in_offs
    [] b.full /\ b.out_offs <= index  -> N
    [] OTHER                          -> b.out_offs

(* The bytes aesd_read copies for a file position inside the data. *)
read_entries(b, f_pos, count) ==
  LET s == start_entry(b, f_pos)
  IN  read_helper(b, s.index, section_end(b, s.index), count, s.byte)

(* aesd_adjust_file_offset: the position of byte write_cmd_offset of write *)
(* command write_cmd, summed from slot 0 on.                               *)
seekto_fpos_Inclusive(b, write_cmd, write_cmd_offset) ==
  SizesBefore(b)[write_cmd + 1] + write_cmd_offset
seekto_fpos(b, write_cmd, write_cmd_offset) ==
  SizesBefore(b)[write_cmd] + write_cmd_offset
=============================================================================
