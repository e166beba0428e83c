--------------------------- MODULE MCAesdSocket ---------------------------
(***************************************************************************)
(* TLC instances of AesdSocket.                                            *)
(***************************************************************************)
EXTENDS AesdSocket, TLC

MCJunk == {[buffptr |-> 90, size |-> 0], [buffptr |-> 90, size |-> 1]}
MCZeroJunk == {[buffptr |-> 90, size |-> 0]}

Chunk(n, has_nl, ends_nl) == [kind |-> "chunk", size |-> n, has_nl |-> has_nl, ends_nl |-> ends_nl]

(* Clients that send a command in one or more chunks, a newline in the     *)
(* middle of a chunk, a seek, or that break off.                           *)
MCAnything == {Chunk(1, TRUE, TRUE), Chunk(1, FALSE, FALSE), Chunk(2, TRUE, FALSE),
               [kind |-> "seek", cmd |-> 1, off |-> 0], [kind |-> "close"]}

(* Clients that finish what they send. *)
MCCommands == {Chunk(2, TRUE, TRUE), Chunk(2, FALSE, FALSE)}
MCCommandsAndSeeks == MCCommands \cup {[kind |-> "seek", cmd |-> 1, off |-> 0]}

MCSymmetry == Permutations(Clients)
=============================================================================
