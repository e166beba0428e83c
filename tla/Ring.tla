------------------------------- MODULE Ring -------------------------------
(***************************************************************************)
(* The circular buffer driven by one caller at a time, as its functions    *)
(* require ("Any necessary locking must be handled by the caller"):        *)
(* entries are added, the offsets are reset by a flush, and the module is  *)
(* loaded again with a new buffer.                                         *)
(*                                                                         *)
(* The history variable appended counts the bytes ever added; the memory   *)
(* an entry points to is named by the value appended had when the entry    *)
(* was added, so that byte k of an entry is byte buffptr + k of the stream *)
(* of everything ever written.  "The ring holds the most recent writes in  *)
(* order, with no gap and no overlap" is then a fact about numbers, which  *)
(* needs no sum over the entries and can be proved for every N.            *)
(***************************************************************************)
EXTENDS CircularBuffer

CONSTANTS Sizes,      \* the sizes of the entries the caller adds
          Counts,     \* the counts passed to read
          Junk        \* what an uninitialised slot may hold

ASSUME RingAssumption ==
  /\ Sizes \subseteq Nat \ {0}        \* aesd_write adds no empty entry
  /\ Counts \subseteq Nat
  /\ Junk \subseteq Entries(Nat)

VARIABLES buffer, appended

vars == <<buffer, appended>>

TypeOK ==
  /\ buffer \in Buffers(Nat)
  /\ appended \in Nat

(* aesd_init_module: every slot is a copy of an uninitialised entry. *)
FreshBuffers == {aesd_circular_buffer_init(junk) : junk \in [Slots -> Junk]}

Init ==
  /\ buffer \in FreshBuffers
  /\ appended = 0

Add(n) ==
  /\ buffer' = aesd_circular_buffer_add_entry(buffer, [buffptr |-> appended, size |-> n])
  /\ appended' = appended + n

Flush ==
  /\ buffer' = ResetOffsets(buffer)
  /\ UNCHANGED appended

(* The module is loaded again. *)
Load ==
  /\ buffer' \in FreshBuffers
  /\ UNCHANGED appended

Next == (\E n \in Sizes : Add(n)) \/ Flush \/ Load

Spec == Init /\ [][Next]_vars

(* The same steps, with the size of the entry that was added computed      *)
(* instead of guessed: what TLC evaluates when Sizes is infinite.          *)
Grow == LET n == appended' - appended IN n \in Sizes /\ Add(n)

StepSpec == Init /\ [][Grow \/ Flush \/ Load]_vars

-----------------------------------------------------------------------------
(* What the ring holds: the occupied slots from the oldest to the newest.  *)

Count == IF buffer.full THEN N ELSE buffer.in_offs

EntryAt(k) == buffer.entry[SlotAfter(buffer.out_offs, k)]

Stored == [k \in 1 .. Count |-> EntryAt(k - 1)]

(* The stream position of the oldest byte still held. *)
Oldest == IF Count = 0 THEN appended ELSE EntryAt(0).buffptr

-----------------------------------------------------------------------------
(* Safety *)

(* The offsets agree with the full flag: the ring starts to move out_offs  *)
(* only once it is full, and from then on reads start where writes land.   *)
OffsetsAgree ==
  IF buffer.full THEN buffer.in_offs = buffer.out_offs ELSE buffer.out_offs = 0

(* add_entry keeps the most recent writes, oldest first: every stored      *)
(* entry ends where the next one begins and the newest ends at the end of  *)
(* the stream, across any number of wrap-arounds and flushes.              *)
MostRecentWrites ==
  \A k \in 0 .. Count - 1 :
    EntryAt(k).buffptr + EntryAt(k).size
      = IF k + 1 < Count THEN EntryAt(k + 1).buffptr ELSE appended

(* total_size ("total bytes stored in buffer") is exactly the length of    *)
(* the stored part of the stream: the subtract-then-add accounting of      *)
(* add_entry never drifts when entries of different sizes replace another. *)
TotalSizeExact == buffer.total_size = appended - Oldest

RingInv == TypeOK /\ OffsetsAgree /\ MostRecentWrites /\ TotalSizeExact

-----------------------------------------------------------------------------
(* Reading: what aesd_read and the seek ioctl find in the ring. *)

(* Stream byte s, as the pair <<buffptr, k>> read_helper copies. *)
StreamBytes(from, to) == [j \in 1 .. (to - from) |-> from + j - 1]
AsStream(data) == [j \in DOMAIN data |-> data[j][1] + data[j][2]]

(* Every byte copied lies inside an entry that the ring holds. *)
InsideStored(data) ==
  \A j \in DOMAIN data :
    \E k \in 1 .. Count : data[j][1] = Stored[k].buffptr /\ data[j][2] < Stored[k].size

Positions == 0 .. buffer.total_size - 1

(* The stream position at which one aesd_read from f_pos has to stop: the  *)
(* newest byte, or the physical end of a full ring.                        *)
SectionEnd(f_pos) ==
  LET i == section_end(buffer, start_entry(buffer, f_pos).index)
  IN  IF buffer.full /\ i = N
      THEN buffer.entry[N - 1].buffptr + buffer.entry[N - 1].size
      ELSE appended

(* The byte at position p of all entries concatenated end to end, in the   *)
(* form find_entry_offset_for_fpos returns it.                             *)
NamesByte(r, p) ==
  LET e == buffer.entry[r.index]
  IN  /\ InsideStored(<< <<e.buffptr, r.byte>> >>)
      /\ e.buffptr + r.byte = Oldest + p

(* Positions the data does not reach, up to the sum of all slot sizes.     *)
Beyond == buffer.total_size .. SizesBefore(buffer)[N]

(* find_entry_offset_for_fpos inverts concatenation: for every position    *)
(* inside the data after the first it names the stored entry and the byte  *)
(* in it, whatever *entry_offset_byte_rtn held before.  For position 0 it  *)
(* names the oldest entry but leaves *entry_offset_byte_rtn as the caller  *)
(* had it, although its comment says that the value is set when a position *)
(* is found.  For a position beyond the data a full ring answers that      *)
(* there is none, and one that is not full never a stored entry, only a    *)
(* slot that is not occupied.                                              *)
FindCorrect ==
  /\ \A p, rtn \in Positions :
       LET r == find_entry_offset_for_fpos(buffer, p, rtn)
       IN  /\ r.found
           /\ p # 0 => NamesByte(r, p)
           /\ p = 0 => NamesByte([r EXCEPT !.byte = 0], 0) /\ r.byte = rtn
  /\ \A p \in Beyond \ {0} :
       LET r == find_entry_offset_for_fpos(buffer, p, 0)
       IN  r.found => \E k \in Count .. N - 1 : r.index = SlotAfter(buffer.out_offs, k)

(* When the copy of read_helper is exact: it starts at the beginning of an *)
(* entry, or stays inside the first entry, or runs out of data first.      *)
ExactCopy(p, c) ==
  LET s == start_entry(buffer, p)
      size == buffer.entry[s.index].size
  IN  \/ s.byte = 0
      \/ s.byte + c <= size
      \/ size < c /\ SectionEnd(p) - (Oldest + p) < c

(* In all those cases a read returns exactly the next bytes of the stream: *)
(* as many as asked for, short only at the end of the data or at the       *)
(* physical end of a full ring.                                            *)
ReadExact ==
  \A p \in Positions, c \in Counts \ {0} :
    ExactCopy(p, c) =>
      LET d == read_entries(buffer, p, c)
          start == Oldest + p
      IN  /\ InsideStored(d)
          /\ AsStream(d) = StreamBytes(start, IF start + c < SectionEnd(p) THEN start + c ELSE SectionEnd(p))

(* A reader that keeps reading with a large buffer ("cat ${device}" in     *)
(* dev.sh) gets everything the ring holds, each byte once and in order, in *)
(* at most two reads, the first of which is never empty.                   *)
CatReturnsAll ==
  buffer.total_size > 0 =>
    LET big == buffer.total_size + 1
        d1  == read_entries(buffer, 0, big)
        d2  == IF Len(d1) < buffer.total_size
               THEN read_entries(buffer, Len(d1), big) ELSE << >>
    IN  /\ d1 # << >>
        /\ AsStream(d1 \o d2) = StreamBytes(Oldest, appended)

(* Until the ring first wraps, the seek ioctl finds the requested byte of  *)
(* the requested write command.                                            *)
SeekFindsCommand ==
  buffer.out_offs = 0 =>
    \A cmd \in 0 .. Count - 1 :
      \A off \in 0 .. EntryAt(cmd).size - 1 :
        Oldest + seekto_fpos(buffer, cmd, off) = EntryAt(cmd).buffptr + off

-----------------------------------------------------------------------------
(* The ring implements the bounded command log. *)
Log == INSTANCE CommandLog WITH log <- Stored, recorded <- appended
ImplementsLog == Log!Spec
=============================================================================
