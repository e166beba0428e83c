---------------------------- MODULE MCAesdChar ----------------------------
(***************************************************************************)
(* TLC instances of AesdChar.                                              *)
(***************************************************************************)
EXTENDS AesdChar, TLC

CONSTANTS p1, p2

MCJunk == {[buffptr |-> 90, size |-> 0], [buffptr |-> 90, size |-> 1]}
MCZeroJunk == {[buffptr |-> 90, size |-> 0]}

(* Every write is one whole command. *)
MCCommands == [count : {1, 2}, nl : {TRUE}]
(* Commands may arrive in pieces. *)
MCPieces == [count : {1, 2}, nl : BOOLEAN]

(* Also writes of no bytes. *)
MCPiecesOrNothing == MCPieces \cup {[count |-> 0, nl |-> FALSE]}

MCOffsets == {-1, 0, 1}
MCSeeks == {[cmd |-> 0, off |-> 1], [cmd |-> 1, off |-> 0], [cmd |-> 3, off |-> 0]}

MCTwoWriters == p1 :> {"write"} @@ p2 :> {"write", "read"}
MCWriterReader == p1 :> {"write"} @@ p2 :> {"read", "reopen", "llseek", "seekto"}
MCOneUser == p1 :> {"write", "read", "seekto", "flush", "reopen", "rmmod"}
MCFlusher == p1 :> {"write"} @@ p2 :> {"flush"}
=============================================================================
