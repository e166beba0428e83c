------------------------------ MODULE MCRing ------------------------------
(***************************************************************************)
(* TLC instances of Ring.  The properties of the read path are evaluated   *)
(* for every file position and every count in every reachable ring.        *)
(***************************************************************************)
EXTENDS Ring

CONSTANT MaxBytes   \* bound on appended

(* Ring!Spec with appended bounded. *)
BoundedNext ==
  \/ \E n \in Sizes : appended + n <= MaxBytes /\ Add(n)
  \/ Flush
  \/ Load

BoundedSpec == Init /\ [][BoundedNext]_vars

MCZeroJunk == {[buffptr |-> 90, size |-> 0]}
MCJunk == {[buffptr |-> 90, size |-> s] : s \in {0, 2}}

-----------------------------------------------------------------------------
(* What the repository says of these functions and the code does not do.   *)

(* "Going to partially read %zu from entry %i", count - read_count: a      *)
(* partial read takes what is left of count, so a read returns no more     *)
(* than count bytes.                                                       *)
ReadWithinCount ==
  \A p \in Positions, c \in Counts : Len(read_entries(buffer, p, c)) <= c
=============================================================================
