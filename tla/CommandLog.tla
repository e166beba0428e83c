---------------------------- MODULE CommandLog ----------------------------
(***************************************************************************)
(* What the aesdchar device promises its users, without any ring, offset   *)
(* or lock: a log that keeps the most recent N completed write commands in *)
(* the order in which they were completed.  Recording one more command in  *)
(* a full log drops the oldest one; a flush forgets them all.              *)
(*                                                                         *)
(* A command is [buffptr, size]: its place in the stream of all commands   *)
(* ever recorded and its length.  Counting the stream keeps a lost command *)
(* from passing for a flush.                                               *)
(*                                                                         *)
(* Ring implements this specification, and the driver (AesdChar)           *)
(* implements Ring.                                                        *)
(***************************************************************************)
EXTENDS Naturals, Sequences

CONSTANTS N,      \* AESDCHAR_MAX_WRITE_OPERATIONS_SUPPORTED
          Sizes   \* the lengths a command can have

VARIABLES log, recorded

Init == log = << >> /\ recorded = 0

(* One completed write command of length n reaches the log. *)
Record(n) ==
  LET e == [buffptr |-> recorded, size |-> n]
  IN  /\ log' = Append(IF Len(log) = N THEN Tail(log) ELSE log, e)
      /\ recorded' = recorded + n

(* AESDCHAR_FLUSH, or the module is loaded again. *)
Forget == log' = << >> /\ UNCHANGED recorded

Next == (\E n \in Sizes : Record(n)) \/ Forget

Spec == Init /\ [][Next]_<<log, recorded>>
=============================================================================
