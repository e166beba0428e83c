------------------------- MODULE AesdSocketProofs -------------------------
(***************************************************************************)
(* Theorems about AesdSocket, for any number of clients, any messages,     *)
(* capacities and buffer sizes and any number of restarts: the mutex, the  *)
(* thread list and the descriptors, the order in which commands reach the  *)
(* device, the ring under the server, and the replies read from it.        *)
(***************************************************************************)
EXTENDS AesdSocket, CircularBufferProofs, TLAPS, SequenceTheorems

(* ServerMutex with the type it needs; inductive. *)
ServerLockInv == thread \in [Clients -> ThreadLabels] /\ ServerMutex

(* A step of one thread that leaves the mutex and the other threads alone  *)
(* and does not cross the border of the critical section.                  *)
LEMMA MoveKeepsInv ==
  ASSUME ServerLockInv, Running, NEW c \in Clients, NEW to \in ThreadLabels,
         thread' = [thread EXCEPT ![c] = to], UNCHANGED mutex,
         \/ thread[c] \in Critical /\ to \in Critical \cup {"cancelled"}
         \/ thread[c] \notin Critical \cup {"cancelled"} /\ to \notin Critical
  PROVE  ServerLockInv'
  BY DEF ServerLockInv, ServerMutex, Critical, ThreadLabels

(* A step of the main thread that leaves the threads and the mutex alone. *)
LEMMA StayKeepsInv ==
  ASSUME ServerLockInv, Running \/ ~Running', UNCHANGED <<thread, mutex>>
  PROVE  ServerLockInv'
  BY DEF ServerLockInv, ServerMutex

(* Every step of a thread keeps the invariant. *)
LEMMA ThreadStep ==
  ASSUME ServerLockInv, NEW c \in Clients, Thread(c)
  PROVE  ServerLockInv'
  <1>1. CASE Lock(c)
    BY <1>1, ServerAssumption DEF Lock, Lockable, Goto, Running, ServerLockInv, ServerMutex, Critical, ThreadLabels
  <1>2. CASE Receive(c)
    <2>1. PICK m \in Messages : ReceiveChunk(c, m) \/ ReceiveSeek(c, m) \/ ReceiveClose(c, m)
      BY <1>2 DEF Receive
    <2>2. CASE ReceiveChunk(c, m)
      <3>1. /\ Running /\ thread[c] = "recv" /\ UNCHANGED mutex
            /\ \/ thread' = [thread EXCEPT ![c] = "open"]
               \/ thread' = thread
        BY <2>2 DEF ReceiveChunk, Goto
      <3>2. CASE thread' = thread
        BY <3>1, <3>2, StayKeepsInv
      <3>3. CASE thread' = [thread EXCEPT ![c] = "open"]
        BY <3>1, <3>3, MoveKeepsInv DEF Critical, ThreadLabels
      <3> QED BY <3>1, <3>2, <3>3
    <2>3. CASE ReceiveSeek(c, m)
      BY <2>3, MoveKeepsInv DEF ReceiveSeek, Goto, Critical, ThreadLabels
    <2>4. CASE ReceiveClose(c, m)
      BY <2>4, StayKeepsInv DEF ReceiveClose, threads
    <2> QED BY <2>1, <2>2, <2>3, <2>4
  <1>3. CASE ReturnData(c)
    <2>1. /\ Running /\ thread[c] = "send" /\ UNCHANGED mutex
          /\ \E to \in {"send", "unlock"} : thread' = [thread EXCEPT ![c] = to]
      BY <1>3 DEF ReturnData, Goto
    <2> QED BY <2>1, MoveKeepsInv DEF Critical, ThreadLabels
  <1>4. CASE Unlock(c)
    BY <1>4, ServerAssumption DEF Unlock, Unlocked, Goto, Running, ServerLockInv, ServerMutex, Critical, ThreadLabels
  <1>5. CASE Close(c)
    BY <1>5, MoveKeepsInv DEF Close, Goto, Critical, ThreadLabels
  <1>6. CASE ThreadFails(c)
    BY <1>6, StayKeepsInv DEF ThreadFails, threads
  <1>7. CASE ThreadCancelled(c)
    BY <1>7, MoveKeepsInv DEF ThreadCancelled, Goto, Critical, ThreadLabels
  <1>8. CASE OpenReply(c)
    BY <1>8, MoveKeepsInv DEF OpenReply, Goto, Critical, ThreadLabels
  <1>9. CASE ThreadExhausts(c)
    BY <1>9, StayKeepsInv DEF ThreadExhausts, threads
  <1> QED BY <1>1, <1>2, <1>3, <1>4, <1>5, <1>6, <1>7, <1>8, <1>9 DEF Thread

(* Every step of the main thread keeps the invariant. *)
LEMMA MainStep ==
  ASSUME ServerLockInv, Main
  PROVE  ServerLockInv'
  <1>1. CASE \E c \in Clients : Accept(c)
    BY <1>1, MoveKeepsInv DEF Accept, Goto, Running, Critical, ThreadLabels
  <1>2. CASE Listen
    BY <1>2, StayKeepsInv DEF Listen, threads, Running
  <1>3. CASE JoinTest
    BY <1>3, StayKeepsInv DEF JoinTest, Running
  <1>4. CASE Join
    BY <1>4, StayKeepsInv DEF Join, threads, Running
  <1>5. CASE LoopTest
    BY <1>5, StayKeepsInv DEF LoopTest, threads, Running
  <1>6. CASE AfterLoop
    BY <1>6, StayKeepsInv DEF AfterLoop, threads, Running
  <1>7. CASE MainFails
    BY <1>7, StayKeepsInv DEF MainFails, MainOpens, threads, Running
  <1>8. CASE graceful_socket_shutdown
    BY <1>8, StayKeepsInv DEF graceful_socket_shutdown, Running
  <1>9. CASE set_signal_handling \/ open_socket \/ StartFails
    BY <1>9, StayKeepsInv DEF set_signal_handling, open_socket, StartFails, threads, Running
  <1> QED BY <1>1, <1>2, <1>3, <1>4, <1>5, <1>6, <1>7, <1>8, <1>9 DEF Main

(* Every step keeps the invariant. *)
LEMMA ServerLockStep ==
  ASSUME ServerLockInv, [Next]_vars
  PROVE  ServerLockInv'
  <1>1. CASE Main
    BY <1>1, MainStep
  <1>2. CASE Restart
    BY <1>2, ServerAssumption DEF Restart, ServerLockInv, ServerMutex, Critical, ThreadLabels
  <1>3. CASE \E s \in Signals : Signal(s)
    BY <1>3, StayKeepsInv DEF Signal, threads
  <1>4. ASSUME NEW c \in Clients, Connect(c) PROVE ServerLockInv'
    BY <1>4, MoveKeepsInv DEF Connect, Goto, Running, Critical, ThreadLabels
  <1>5. ASSUME NEW c \in Clients, Thread(c) PROVE ServerLockInv'
    BY <1>5, ThreadStep
  <1>6. CASE UNCHANGED vars
    BY <1>6 DEF vars, threads, ServerLockInv, ServerMutex, Running
  <1>7. CASE Outsiders
    <2>1. UNCHANGED <<main, thread, mutex>>
      BY <1>7 DEF Outsiders, OutsideWrite, OutsideRead, OutsideFlush, threads
    <2> QED BY <2>1 DEF ServerLockInv, ServerMutex, Running
  <1> QED BY <1>1, <1>2, <1>3, <1>4, <1>5, <1>6, <1>7 DEF Next

(* The connection threads of aesdsocket exclude one another from the       *)
(* device, on every path through accept_connection_thread, through the     *)
(* shutdown and through restarts of the server.                            *)
THEOREM ServerLockInvariant == Spec => []ServerLockInv
  <1>1. Init => ServerLockInv
    BY ServerAssumption DEF Init, ServerLockInv, ServerMutex, Critical, ThreadLabels
  <1>2. ServerLockInv /\ [Next]_vars => ServerLockInv'
    BY ServerLockStep
  <1> QED BY <1>1, <1>2, PTL DEF Spec

(* The mutex is held by exactly the thread between lock and unlock. *)
THEOREM ServerMutexHolds == Spec => []ServerMutex
  <1>1. ServerLockInv => ServerMutex
    BY DEF ServerLockInv
  <1> QED BY <1>1, ServerLockInvariant, PTL

-----------------------------------------------------------------------------
(* The thread list, the joins, the descriptors and the order of arrivals.  *)

(* Threads that serve a connection. *)
Active == {"start", "close"} \cup Critical

InList(c) == \E i \in 1 .. Len(list) : list[i] = c

(* The list has two entries only while it is walked, at most one while the *)
(* main thread accepts, and what is left to visit is what is left in it.   *)
ListInv ==
  /\ counter \in Nat /\ list \in Seq(Clients) /\ cancelled \subseteq Clients
  /\ counter = 0 => list = << >>
  /\ Len(list) <= (IF main \in {"joins", "join"} THEN 2 ELSE 1)
  /\ Len(list) = 2 => list[1] # list[2]
  /\ main \in {"joins", "join"} => todo = list
  /\ main = "join" => list # << >>
  /\ cancelled # {} => main = "shutdown" /\ list = << >>
  /\ \A c, d \in cancelled : c = d

(* A thread that serves is in the list, or was cancelled. *)
ServedInv ==
  /\ \A c \in Clients : thread[c] \in Active \cup {"cancelled"} => InList(c) \/ c \in cancelled
  /\ \A c \in Clients : InList(c) => thread[c] \in Active \cup {"done"} /\ c \notin joined

(* The descriptors a thread has open: its connection, and the device while *)
(* it receives or returns data.  A cancelled thread closes nothing.        *)
Weight(l) == CASE l \in {"recv", "send", "cancelled"} -> 2
               [] l \in {"start", "open", "unlock", "close"} -> 1
               [] OTHER -> 0

(* Weight, label by label. *)
LEMMA Weights ==
  /\ Weight("start") = 1 /\ Weight("recv") = 2 /\ Weight("open") = 1 /\ Weight("send") = 2
  /\ Weight("unlock") = 1 /\ Weight("close") = 1 /\ Weight("done") = 0 /\ Weight("cancelled") = 2
  BY DEF Weight

FilesInv ==
  /\ list = << >> /\ cancelled = {} => files <= seeks
  /\ list = << >> => \A c \in cancelled : files <= seeks + Weight(thread[c])
  /\ Len(list) = 1 => files <= seeks + Weight(thread[list[1]])
  /\ Len(list) = 2 => files <= seeks + Weight(thread[list[1]]) + Weight(thread[list[2]])

(* All of it, with the mutex; inductive. *)
ThreadsInv ==
  /\ ServerLockInv
  /\ main \in MainLabels /\ files \in Int /\ seeks \in Nat
  /\ joined \subseteq Clients /\ \A c \in joined : thread[c] = "done"
  /\ Running => ListInv /\ ServedInv /\ FilesInv

-----------------------------------------------------------------------------
(* The list has no, one or two entries. *)
LEMMA SmallList ==
  ASSUME ListInv
  PROVE  /\ Len(list) \in {0, 1, 2} /\ (list = << >> <=> Len(list) = 0)
         /\ \A i \in 1 .. Len(list) : list[i] \in Clients
         /\ \A c : InList(c) <=> \/ Len(list) = 1 /\ c = list[1]
                                 \/ Len(list) = 2 /\ (c = list[1] \/ c = list[2])
  <1>1. list \in Seq(Clients) /\ Len(list) <= 2
    BY DEF ListInv
  <1>2. Len(list) \in Nat /\ (list # << >> => Len(list) \in Nat \ {0}) /\ Len(<< >>) = 0
    BY <1>1, EmptySeq, LenProperties
  <1>6. \A n \in Nat : n <= 2 => n \in {0, 1, 2}
    OBVIOUS
  <1>3. \A i \in 1 .. Len(list) : list[i] \in Clients
    BY <1>1, ElementOfSeq
  <1>4. Len(list) \in {0, 1, 2} /\ (list = << >> <=> Len(list) = 0)
    <2>1. Len(list) \in {0, 1, 2}
      BY <1>1, <1>2, <1>6
    <2>2. list = << >> => Len(list) = 0
      BY <1>2
    <2>3. list # << >> => Len(list) # 0
      BY <1>2
    <2> QED BY <2>1, <2>2, <2>3
  <1>5. \A c : InList(c) <=> \/ Len(list) = 1 /\ c = list[1]
                             \/ Len(list) = 2 /\ (c = list[1] \/ c = list[2])
    BY <1>4 DEF InList
  <1> QED BY <1>3, <1>4, <1>5

(* A step of the thread of client c, which changes the number of open      *)
(* descriptors as its label says.                                          *)
Moves(c, from, to) ==
  /\ Running /\ thread[c] = from /\ thread' = [thread EXCEPT ![c] = to]
  /\ UNCHANGED <<main, loop, cancelled, joined>>
  /\ files' \in Int /\ seeks' \in Nat
  /\ files' - seeks' <= files - seeks + Weight(to) - Weight(from)

(* A step of one connection thread preserves ThreadsInv. *)
LEMMA ThreadMoves ==
  ASSUME ThreadsInv, ServerLockInv', NEW c \in Clients,
         NEW from \in Active, NEW to \in Active \cup {"done", "cancelled"}, Moves(c, from, to),
         to = "cancelled" => c \in cancelled
  PROVE  ThreadsInv'
  <1>0. /\ Running /\ thread[c] = from /\ thread' = [thread EXCEPT ![c] = to]
        /\ UNCHANGED <<main, loop, cancelled, joined>>
        /\ files' \in Int /\ seeks' \in Nat
        /\ files' - seeks' <= files - seeks + Weight(to) - Weight(thread[c])
    BY DEF Moves
  <1>1. /\ Running' /\ UNCHANGED <<counter, list, todo, cancelled, joined, main>>
        /\ ListInv /\ ServedInv /\ FilesInv /\ thread \in [Clients -> ThreadLabels]
    BY <1>0 DEF ThreadsInv, ServerLockInv, Running, loop
  <1>2. \A d \in Clients : thread'[d] = IF d = c THEN to ELSE thread[d]
    BY <1>0, <1>1
  <1>3. c \notin joined /\ (InList(c) \/ c \in cancelled)
    BY <1>0, <1>1 DEF ThreadsInv, ServedInv, Active, Critical
  <1>4. ListInv'
    BY <1>1 DEF ListInv
  <1>5. \A d \in Clients : InList(d)' <=> InList(d)
    BY <1>1 DEF InList
  <1>6. to = "cancelled" => ~InList(c)
    BY <1>1 DEF ListInv, InList
  <1>7. ServedInv'
    BY <1>1, <1>2, <1>3, <1>5, <1>6 DEF ServedInv, Active, Critical
  <1>8. /\ Len(list) \in {0, 1, 2} /\ (list = << >> <=> Len(list) = 0)
        /\ \A i \in 1 .. Len(list) : list[i] \in Clients
        /\ \A d : InList(d) <=> \/ Len(list) = 1 /\ d = list[1]
                                \/ Len(list) = 2 /\ (d = list[1] \/ d = list[2])
    BY <1>1, SmallList
  <1>9. FilesInv'
    <2> DEFINE w(d) == Weight(thread[d])
               v(d) == Weight(thread'[d])
    <2>1. \A l : Weight(l) \in Nat
      BY DEF Weight
    <2>2. /\ \A d \in Clients : w(d) \in Nat /\ v(d) \in Nat
          /\ \A d \in Clients : d # c => v(d) = w(d)
          /\ v(c) = Weight(to) /\ w(c) = Weight(thread[c])
      BY <1>0, <1>2, <2>1
    <2>3. /\ files \in Int /\ seeks \in Nat /\ files' \in Int /\ seeks' \in Nat
          /\ files' - seeks' <= files - seeks + v(c) - w(c)
      BY <1>0, <2>2 DEF ThreadsInv
    <2>4. CASE list = << >>
      <3>1. c \in cancelled
        BY <1>3, <1>8, <2>4
      <3>2. files <= seeks + w(c)
        BY <1>1, <2>4, <3>1 DEF FilesInv
      <3>3. files' <= seeks' + v(c)
        BY <2>2, <2>3, <3>2
      <3>4. \A d \in cancelled : d = c
        BY <1>1, <3>1 DEF ListInv
      <3> QED BY <1>1, <2>4, <3>1, <3>3, <3>4 DEF FilesInv
    <2>5. CASE Len(list) = 1
      <3>1. list[1] = c
        BY <1>1, <1>3, <1>8, <2>5 DEF ListInv
      <3>2. files <= seeks + w(c)
        BY <1>1, <2>5, <3>1 DEF FilesInv
      <3>3. files' <= seeks' + v(c)
        BY <2>2, <2>3, <3>2
      <3> QED BY <1>1, <1>8, <2>5, <3>1, <3>3 DEF FilesInv
    <2>6. CASE Len(list) = 2
      <3>1. list[1] \in Clients /\ list[2] \in Clients /\ list[1] # list[2]
        BY <1>1, <1>8, <2>6 DEF ListInv
      <3>2. c \in {list[1], list[2]}
        BY <1>1, <1>3, <1>8, <2>6 DEF ListInv
      <3>3. files <= seeks + w(list[1]) + w(list[2])
        BY <1>1, <2>6 DEF FilesInv
      <3>4. files' <= seeks' + v(list[1]) + v(list[2])
        BY <2>2, <2>3, <3>1, <3>2, <3>3
      <3> QED BY <1>1, <1>8, <2>6, <3>4 DEF FilesInv
    <2> QED BY <1>8, <2>4, <2>5, <2>6
  <1> QED BY <1>0, <1>1, <1>2, <1>3, <1>4, <1>7, <1>9 DEF ThreadsInv

(* A step that leaves the list and the threads alone: at most the main     *)
(* thread moves on, without entering or leaving the walk half-way.         *)
LEMMA MainMoves ==
  ASSUME ThreadsInv, ServerLockInv', main' \in MainLabels,
         UNCHANGED <<counter, list, todo, cancelled, joined, thread, files, seeks>>,
         Running \/ ~Running',
         main' # main =>
           \/ main' = "exited"
           \/ /\ main \notin {"join", "shutdown"}
              /\ main' \notin {"joins", "join"}
              /\ main = "joins" => list = << >>
           \/ main = "joins" /\ main' = "join" /\ list # << >>
  PROVE  ThreadsInv'
  <1> SUFFICES ASSUME Running, Running' PROVE ListInv' /\ ServedInv' /\ FilesInv'
    BY DEF ThreadsInv, Running
  <1>1. ListInv /\ ServedInv /\ FilesInv
    BY DEF ThreadsInv
  <1>2. ServedInv' /\ FilesInv'
    BY <1>1 DEF ServedInv, FilesInv, InList
  <1>3. ListInv'
    BY <1>1 DEF ListInv, Running
  <1> QED BY <1>2, <1>3

(* accept, pthread_create and SLIST_INSERT_HEAD: the list grows by a       *)
(* thread that was not in it.                                              *)
LEMMA AcceptKeepsInv ==
  ASSUME ThreadsInv, ServerLockInv', NEW c \in Clients, Accept(c)
  PROVE  ThreadsInv'
  <1>1. /\ main = "accept" /\ thread[c] = "waiting"
        /\ thread' = [thread EXCEPT ![c] = "start"]
        /\ list' = <<c>> \o list /\ counter' = counter + 1 /\ files' = files + 1
        /\ \/ counter + 1 > 1 /\ main' = "joins" /\ todo' = list'
           \/ ~(counter + 1 > 1) /\ main' = "test"
        /\ UNCHANGED <<cancelled, joined, seeks>>
    BY DEF Accept, Goto, Open, Inserted, WalksList
  <1>2. /\ ListInv /\ ServedInv /\ FilesInv /\ thread \in [Clients -> ThreadLabels]
        /\ files \in Int /\ seeks \in Nat
    BY <1>1 DEF ThreadsInv, ServerLockInv, Running
  <1>3. /\ Len(list) \in {0, 1} /\ (list = << >> <=> Len(list) = 0) /\ list \in Seq(Clients)
        /\ Len(list) = 1 => list[1] \in Clients
        /\ \A d : InList(d) <=> Len(list) = 1 /\ d = list[1]
    <2>1. Len(list) <= 1
      BY <1>1, <1>2 DEF ListInv
    <2> QED BY <1>2, <2>1, SmallList DEF ListInv
  <1>4. /\ list' \in Seq(Clients) /\ Len(list') = Len(list) + 1
        /\ list'[1] = c /\ (Len(list) = 1 => list'[2] = list[1])
    <2>1. <<c>> \in Seq(Clients) /\ Len(<<c>>) = 1 /\ <<c>>[1] = c
      OBVIOUS
    <2>2. /\ <<c>> \o list \in Seq(Clients) /\ Len(<<c>> \o list) = 1 + Len(list)
          /\ \A i \in 1 .. 1 + Len(list) :
               (<<c>> \o list)[i] = IF i <= 1 THEN <<c>>[i] ELSE list[i - 1]
      BY <1>3, <2>1, ConcatProperties
    <2> QED BY <1>1, <1>3, <2>1, <2>2
  <1> DEFINE n == Len(list)
             m == Len(list')
  <1>13. (n = 0 /\ m = 1) \/ (n = 1 /\ m = 2)
    <2>1. n \in Nat /\ n \in {0, 1} /\ m = n + 1
      BY <1>3, <1>4, LenProperties
    <2> HIDE DEF n, m
    <2> QED BY <2>1
  <1>5. cancelled = {} /\ ~InList(c) /\ c \notin joined
    BY <1>1, <1>2 DEF ListInv, ServedInv, ThreadsInv, Active, Critical
  <1>6. counter \in Nat /\ (Len(list) = 1 => counter + 1 > 1)
    BY <1>2, <1>3 DEF ListInv
  <1>7. ListInv'
    <2>1. Len(list') = 2 => Len(list) = 1
      BY <1>13
    <2>2. Len(list') <= (IF main' \in {"joins", "join"} THEN 2 ELSE 1)
      BY <1>1, <1>3, <1>4, <1>6
    <2>3. Len(list') = 2 => list'[1] # list'[2]
      BY <1>3, <1>4, <1>5, <2>1
    <2>4. counter' \in Nat /\ counter' # 0
      BY <1>1, <1>6
    <2> QED BY <1>1, <1>2, <1>4, <1>5, <2>2, <2>3, <2>4 DEF ListInv
  <1>8. \A d : InList(d)' <=> d = c \/ InList(d)
    <2>1. \A d : InList(d)' <=> \/ Len(list') = 1 /\ d = list'[1]
                                \/ Len(list') = 2 /\ (d = list'[1] \/ d = list'[2])
      BY <1>13 DEF InList
    <2> QED BY <1>3, <1>4, <1>13, <2>1
  <1>9. \A d \in Clients : thread'[d] = IF d = c THEN "start" ELSE thread[d]
    BY <1>1, <1>2
  <1>10. ServedInv'
    BY <1>1, <1>2, <1>5, <1>8, <1>9 DEF ServedInv, Active
  <1>11. FilesInv'
    <2>1. Weight("start") = 1 /\ thread'[c] = "start"
      BY <1>9 DEF Weight
    <2>2. CASE list = << >>
      <3>1. files <= seeks
        BY <1>2, <1>5, <2>2 DEF FilesInv
      <3>2. files' <= seeks' + 1 /\ Len(list') = 1 /\ list' # << >>
        BY <1>1, <1>2, <1>3, <1>4, <2>2, <3>1, EmptySeq
      <3>3. Weight(thread'[list'[1]]) = 1
        BY <1>4, <2>1
      <3> QED BY <3>2, <3>3 DEF FilesInv
    <2>3. CASE Len(list) = 1
      <3>1. files <= seeks + Weight(thread[list[1]])
        BY <1>2, <2>3 DEF FilesInv
      <3>2. list[1] \in Clients /\ list[1] # c
        BY <1>3, <1>5, <2>3
      <3>3. thread'[list'[2]] = thread[list[1]] /\ Weight(thread[list[1]]) \in Nat
        BY <1>4, <1>9, <2>3, <3>2 DEF Weight
      <3>6. Weight(thread'[list'[1]]) = 1
        BY <1>4, <2>1
      <3>7. files' = files + 1 /\ seeks' = seeks /\ files \in Int /\ seeks \in Int
        BY <1>1, <1>2
      <3>8. Weight(thread'[list'[2]]) = Weight(thread[list[1]]) /\ Weight(thread[list[1]]) \in Int
        BY <3>3
      <3>4. files' <= seeks' + Weight(thread'[list'[1]]) + Weight(thread'[list'[2]])
        BY <3>1, <3>6, <3>7, <3>8
      <3>5. Len(list') = 2 /\ list' # << >>
        BY <1>4, <2>3, EmptySeq
      <3> QED BY <3>4, <3>5 DEF FilesInv
    <2> QED BY <1>3, <2>2, <2>3
  <1>12. /\ joined' \subseteq Clients /\ main' \in MainLabels
         /\ \A d \in joined' : thread'[d] = "done"
    BY <1>1, <1>5, <1>9 DEF ThreadsInv, MainLabels
  <1> QED BY <1>1, <1>2, <1>7, <1>10, <1>11, <1>12 DEF ThreadsInv

(* pthread_join and SLIST_REMOVE of the entry the walk is at: the first.   *)
LEMMA JoinKeepsInv ==
  ASSUME ThreadsInv, ServerLockInv', Join
  PROVE  ThreadsInv'
  <1> DEFINE c == Head(list)
  <1>1. /\ main = "join" /\ main' = "joins" /\ ListInv /\ ServedInv /\ FilesInv
        /\ todo = list /\ list # << >> /\ list \in Seq(Clients)
        /\ files \in Int /\ seeks \in Nat
    BY DEF Join, ThreadsInv, Running, ListInv
  <1>2. /\ thread[c] = "done" /\ todo' = Tail(list) /\ list' = Removed(list, c)
        /\ joined' = joined \cup {c}
        /\ UNCHANGED <<counter, thread, cancelled, files, seeks>>
    BY <1>1 DEF Join, threads, flags
  <1>3. /\ Len(list) \in {1, 2} /\ c = list[1] /\ c \in Clients
        /\ Len(list) = 2 => list[2] \in Clients /\ list[1] # list[2]
        /\ \A d : InList(d) <=> \/ Len(list) = 1 /\ d = list[1]
                                \/ Len(list) = 2 /\ (d = list[1] \/ d = list[2])
    BY <1>1, SmallList DEF ListInv
  <1>4. /\ Tail(list) \in Seq(Clients) /\ Len(Tail(list)) = Len(list) - 1
        /\ Len(list) = 2 => Tail(list)[1] = list[2]
    BY <1>1, <1>3, HeadTailProperties
  <1>5. list' = Tail(list)
    <2>1. (CHOOSE i \in DOMAIN list : list[i] = c) = 1
      <3>1. 1 \in DOMAIN list /\ list[1] = c
        BY <1>1, <1>3, LenProperties
      <3>2. \A i \in DOMAIN list : list[i] = c => i = 1
        BY <1>1, <1>3, LenProperties
      <3> QED BY <3>1, <3>2
    <2>2. list' = SubSeq(list, 1, 1 - 1) \o SubSeq(list, 1 + 1, Len(list))
      BY <1>2, <2>1, Zenon DEF Removed
    <2>3. SubSeq(list, 1, 1 - 1) = << >> /\ Tail(list) = SubSeq(list, 1 + 1, Len(list))
      BY <1>1, SubSeqEmpty, TailIsSubSeq
    <2> QED BY <1>4, <2>2, <2>3, ConcatEmptySeq
  <1>6. list' \in Seq(Clients) /\ Len(list') \in {0, 1} /\ (list' = << >> <=> Len(list') = 0)
    BY <1>3, <1>4, <1>5, EmptySeq
  <1>7. \A d : InList(d)' <=> InList(d) /\ d # c
    BY <1>3, <1>4, <1>5, <1>6 DEF InList
  <1>8. ListInv'
    BY <1>1, <1>2, <1>5, <1>6 DEF ListInv
  <1>9. ServedInv'
    BY <1>1, <1>2, <1>7 DEF ServedInv, Active, Critical
  <1>10. FilesInv'
    <2>1. Weight(thread[c]) = 0 /\ \A l : Weight(l) \in Nat
      BY <1>2 DEF Weight
    <2>2. cancelled = {}
      BY <1>1 DEF ListInv
    <2>3. CASE Len(list) = 1
      <3>1. files <= seeks
        BY <1>1, <1>3, <2>1, <2>3 DEF FilesInv
      <3> QED BY <1>2, <1>4, <1>5, <1>6, <2>2, <2>3, <3>1 DEF FilesInv
    <2>4. CASE Len(list) = 2
      <3>1. files <= seeks + Weight(thread[list[1]]) + Weight(thread[list[2]])
        BY <1>1, <2>4 DEF FilesInv
      <3>2. files <= seeks + Weight(thread[list[2]])
        BY <1>1, <1>3, <2>1, <3>1
      <3> QED BY <1>2, <1>4, <1>5, <1>6, <2>4, <3>2 DEF FilesInv
    <2> QED BY <1>3, <2>3, <2>4
  <1>11. joined' \subseteq Clients /\ main' \in MainLabels /\ \A d \in joined' : thread'[d] = "done"
    BY <1>1, <1>2, <1>3 DEF ThreadsInv, MainLabels
  <1> QED BY <1>1, <1>2, <1>8, <1>9, <1>10, <1>11 DEF ThreadsInv

(* One turn of the loop in graceful_socket_shutdown. *)
LEMMA ShutdownKeepsInv ==
  ASSUME ThreadsInv, ServerLockInv', graceful_socket_shutdown
  PROVE  ThreadsInv'
  <1>1. /\ main = "shutdown" /\ ListInv /\ ServedInv /\ FilesInv
        /\ UNCHANGED <<counter, thread, files, seeks, joined>>
    BY DEF graceful_socket_shutdown, ThreadsInv, Running, history
  <1>2. CASE list = << >>
    <2>1. ~Running' /\ main' \in MainLabels
      BY <1>2 DEF graceful_socket_shutdown, Exit, Running, MainLabels
    <2> QED BY <1>1, <2>1 DEF ThreadsInv
  <1>3. CASE list # << >>
    <2> DEFINE c == Head(list)
    <2>1. cancelled' = cancelled \cup {c} /\ list' = Tail(list) /\ main' = main
      BY <1>3 DEF graceful_socket_shutdown, RestOfList
    <2>2. /\ Len(list) = 1 /\ c = list[1] /\ c \in Clients /\ list \in Seq(Clients)
          /\ \A d : InList(d) <=> d = c
      BY <1>1, <1>3, SmallList DEF ListInv
    <2>3. list' = << >>
      <3>1. Tail(list) \in Seq(Clients) /\ Len(Tail(list)) = 1 - 1
        BY <1>3, <2>2, HeadTailProperties
      <3>2. Len(Tail(list)) = 0
        BY <3>1
      <3>3. Tail(list) = << >>
        BY <3>1, <3>2, EmptySeq
      <3> QED BY <2>1, <3>3
    <2>4. cancelled = {} /\ cancelled' = {c}
      BY <1>1, <1>3, <2>1 DEF ListInv
    <2>9. list' \in Seq(Clients) /\ Len(list') = 0
      BY <2>3, EmptySeq
    <2>10. counter' \in Nat /\ main' = "shutdown"
      BY <1>1, <2>1 DEF ListInv
    <2>5. ListInv'
      BY <2>2, <2>3, <2>4, <2>9, <2>10 DEF ListInv
    <2>6. \A d : ~InList(d)'
      BY <2>3, EmptySeq DEF InList
    <2>7. ServedInv'
      <3>1. \A d \in Clients : thread'[d] \in Active \cup {"cancelled"} => d = c
        BY <1>1, <2>2, <2>4 DEF ServedInv
      <3> QED BY <2>4, <2>6, <3>1 DEF ServedInv
    <2>8. FilesInv'
      <3>1. files <= seeks + Weight(thread[c])
        BY <1>1, <2>2 DEF FilesInv
      <3>2. Len(list') = 0
        BY <2>3, EmptySeq
      <3> QED BY <1>1, <2>3, <2>4, <3>1, <3>2 DEF FilesInv
    <2> QED BY <1>1, <2>1, <2>5, <2>7, <2>8 DEF ThreadsInv
  <1> QED BY <1>2, <1>3

(* A connection thread's step. *)
LEMMA ThreadKeepsInv ==
  ASSUME ThreadsInv, ServerLockInv', NEW c \in Clients, Thread(c)
  PROVE  ThreadsInv'
  <1> USE DEF Active, Critical, history, others
  <1>1. files \in Int /\ seeks \in Nat /\ main \in MainLabels
    BY DEF ThreadsInv
  <1>2. CASE Lock(c)
    <2>1. Moves(c, "start", "recv")
      BY <1>1, <1>2, Weights DEF Lock, Goto, Open, flags, Moves
    <2> QED BY <2>1, ThreadMoves
  <1>3. CASE Receive(c)
    <2>1. PICK m \in Messages : ReceiveChunk(c, m) \/ ReceiveSeek(c, m) \/ ReceiveClose(c, m)
      BY <1>3 DEF Receive
    <2>2. CASE ReceiveChunk(c, m)
      <3>1. /\ Running /\ thread[c] = "recv" /\ UNCHANGED <<main, loop, cancelled, joined, seeks>>
            /\ \/ thread' = [thread EXCEPT ![c] = "open"] /\ files' = files - 1
               \/ UNCHANGED <<thread, files>>
        BY <2>2 DEF ReceiveChunk, Goto, flags
      <3>2. CASE thread' = [thread EXCEPT ![c] = "open"] /\ files' = files - 1
        <4>1. Moves(c, "recv", "open")
          BY <1>1, <3>1, <3>2, Weights DEF Moves
        <4> QED BY <4>1, ThreadMoves
      <3>3. CASE UNCHANGED <<thread, files>>
        BY <1>1, <3>1, <3>3, MainMoves DEF loop
      <3> QED BY <3>1, <3>2, <3>3
    <2>3. CASE ReceiveSeek(c, m)
      <3>1. Moves(c, "recv", "open")
        BY <1>1, <2>3, Weights DEF ReceiveSeek, Goto, flags, Moves
      <3> QED BY <3>1, ThreadMoves
    <2>4. CASE ReceiveClose(c, m)
      BY <1>1, <2>4, MainMoves DEF ReceiveClose, Exit, loop, threads, flags, MainLabels
    <2> QED BY <2>1, <2>2, <2>3, <2>4
  <1>4. CASE OpenReply(c)
    <2>1. Moves(c, "open", "send")
      BY <1>1, <1>4, Weights DEF OpenReply, Goto, Open, flags, Moves
    <2> QED BY <2>1, ThreadMoves
  <1>5. CASE ReturnData(c)
    <2>1. /\ Running /\ thread[c] = "send" /\ UNCHANGED <<main, loop, cancelled, joined, seeks>>
          /\ \/ thread' = [thread EXCEPT ![c] = "send"] /\ files' = files
             \/ thread' = [thread EXCEPT ![c] = "unlock"] /\ files' = files - 1
      BY <1>5 DEF ReturnData, Goto, ClosesFile, flags
    <2>2. Moves(c, "send", "send") \/ Moves(c, "send", "unlock")
      BY <1>1, <2>1, Weights DEF Moves
    <2> QED BY <2>2, ThreadMoves
  <1>6. CASE Unlock(c)
    <2>1. Moves(c, "unlock", "close")
      BY <1>1, <1>6, Weights DEF Unlock, Goto, flags, Moves
    <2> QED BY <2>1, ThreadMoves
  <1>7. CASE Close(c)
    <2>1. Moves(c, "close", "done")
      BY <1>1, <1>7, Weights DEF Close, Goto, flags, Moves
    <2> QED BY <2>1, ThreadMoves
  <1>8. CASE ThreadFails(c)
    BY <1>1, <1>8, MainMoves DEF ThreadFails, Exit, loop, threads, flags, MainLabels
  <1>9. CASE ThreadExhausts(c)
    BY <1>1, <1>9, MainMoves DEF ThreadExhausts, Exit, loop, threads, flags, MainLabels
  <1>10. CASE ThreadCancelled(c)
    <2>1. \E from \in Active : Moves(c, from, "cancelled")
      <3>1. \A l \in Active : Weight(l) \in {1, 2}
        BY DEF Weight
      <3> QED BY <1>1, <1>10, <3>1, Weights DEF ThreadCancelled, Goto, flags, Moves
    <2> QED BY <1>10, <2>1, ThreadMoves DEF ThreadCancelled
  <1> QED BY <1>2, <1>3, <1>4, <1>5, <1>6, <1>7, <1>8, <1>9, <1>10 DEF Thread

(* A step of the main thread. *)
LEMMA MainKeepsInv ==
  ASSUME ThreadsInv, ServerLockInv', Main
  PROVE  ThreadsInv'
  <1> USE DEF loop, threads, flags, history, MainLabels, Running
  <1>1. CASE \E c \in Clients : Accept(c)
    BY <1>1, AcceptKeepsInv
  <1>2. CASE set_signal_handling \/ open_socket \/ Listen
    BY <1>2, MainMoves DEF set_signal_handling, open_socket, Listen
  <1>3. CASE JoinTest
    <2>1. main = "joins" /\ todo = list
      BY <1>3 DEF JoinTest, ThreadsInv, ListInv
    <2> QED BY <1>3, <2>1, MainMoves DEF JoinTest
  <1>4. CASE Join
    BY <1>4, JoinKeepsInv
  <1>5. CASE LoopTest
    BY <1>5, MainMoves DEF LoopTest, AfterTest
  <1>6. CASE AfterLoop
    BY <1>6, MainMoves DEF AfterLoop
  <1>7. CASE StartFails
    BY <1>7, MainMoves DEF StartFails, Exit
  <1>8. CASE MainFails
    <2>1. main \in {"listen", "accept"} /\ main' = "shutdown"
      BY <1>8 DEF MainFails, MainOpens
    <2> QED BY <1>8, <2>1, MainMoves DEF MainFails
  <1>9. CASE graceful_socket_shutdown
    BY <1>9, ShutdownKeepsInv
  <1> QED BY <1>1, <1>2, <1>3, <1>4, <1>5, <1>6, <1>7, <1>8, <1>9 DEF Main

(* A new server starts with an empty list and nothing open. *)
LEMMA RestartKeepsInv ==
  ASSUME ThreadsInv, ServerLockInv', Restart
  PROVE  ThreadsInv'
  <1>1. /\ main' = "signals" /\ counter' = 0 /\ list' = << >> /\ cancelled' = {}
        /\ files' = 0 /\ seeks' = 0 /\ joined' = joined
        /\ thread' = [c \in Clients |-> IF thread[c] \in {"away", "done"} THEN thread[c] ELSE "gone"]
    BY DEF Restart
  <1>2. list' \in Seq(Clients) /\ Len(list') = 0 /\ \A c : ~InList(c)'
    BY <1>1, EmptySeq DEF InList
  <1>3. ListInv'
    BY <1>1, <1>2 DEF ListInv
  <1>4. ServedInv'
    BY <1>1, <1>2 DEF ServedInv, Active, Critical
  <1>5. FilesInv'
    BY <1>1, <1>2 DEF FilesInv
  <1>6. \A c \in joined' : thread'[c] = "done"
    BY <1>1 DEF ThreadsInv
  <1> QED BY <1>1, <1>3, <1>4, <1>5, <1>6 DEF ThreadsInv, MainLabels

(* A client that connects is in no list yet. *)
LEMMA ConnectKeepsInv ==
  ASSUME ThreadsInv, ServerLockInv', NEW c \in Clients, Connect(c)
  PROVE  ThreadsInv'
  <1>1. /\ Running /\ thread[c] = "away" /\ thread' = [thread EXCEPT ![c] = "waiting"]
        /\ UNCHANGED <<main, counter, list, todo, cancelled, files, seeks, joined>>
    BY DEF Connect, Goto, Running, loop, flags, history
  <1>2. ListInv /\ ServedInv /\ FilesInv /\ thread \in [Clients -> ThreadLabels]
    BY <1>1 DEF ThreadsInv, ServerLockInv
  <1>3. \A d \in Clients : thread'[d] = IF d = c THEN "waiting" ELSE thread[d]
    BY <1>1, <1>2
  <1>4. ListInv'
    BY <1>1, <1>2 DEF ListInv
  <1>5. ~InList(c) /\ \A d : InList(d)' <=> InList(d)
    BY <1>1, <1>2 DEF ServedInv, InList, Active, Critical
  <1>6. ServedInv'
    BY <1>1, <1>2, <1>3, <1>5 DEF ServedInv, Active, Critical
  <1>7. FilesInv'
    <2>1. Weight("waiting") = 0 /\ Weight("away") = 0
      BY DEF Weight
    <2>2. \A d \in Clients : Weight(thread'[d]) = Weight(thread[d])
      BY <1>1, <1>3, <2>1
    <2>3. \A i \in 1 .. Len(list) : list[i] \in Clients
      BY <1>2, SmallList
    <2>4. cancelled \subseteq Clients
      BY <1>2 DEF ListInv
    <2> QED BY <1>1, <1>2, <2>2, <2>3, <2>4 DEF FilesInv
  <1>8. c \notin joined /\ \A d \in joined' : thread'[d] = "done"
    BY <1>1, <1>3 DEF ThreadsInv
  <1> QED BY <1>1, <1>4, <1>6, <1>7, <1>8 DEF ThreadsInv

(* The thread list, the joins and the descriptors of aesdsocket, through   *)
(* accepts, joins, the shutdown, failures, signals and restarts.           *)
THEOREM ThreadsInvariant == Spec => []ThreadsInv
  <1>1. ASSUME Init PROVE ThreadsInv
    <2>1. list = << >> /\ Len(list) = 0 /\ list \in Seq(Clients) /\ \A c : ~InList(c)
      BY <1>1, EmptySeq DEF Init, InList
    <2>2. ListInv /\ ServedInv /\ FilesInv
      BY <1>1, <2>1 DEF Init, ListInv, ServedInv, FilesInv, Active, Critical
    <2>3. ServerLockInv
      BY <1>1, ServerAssumption DEF Init, ServerLockInv, ServerMutex, Critical, ThreadLabels
    <2> QED BY <1>1, <2>2, <2>3 DEF Init, ThreadsInv, MainLabels
  <1>2. ASSUME ThreadsInv, [Next]_vars PROVE ThreadsInv'
    <2>1. ServerLockInv'
      BY <1>2, ServerLockStep DEF ThreadsInv
    <2>2. CASE Main
      BY <1>2, <2>1, <2>2, MainKeepsInv
    <2>3. CASE Restart
      BY <1>2, <2>1, <2>3, RestartKeepsInv
    <2>4. CASE Outsiders
      <3>1. UNCHANGED <<main, loop, thread, cancelled, joined, files, seeks>>
        BY <2>4 DEF Outsiders, OutsideWrite, OutsideRead, OutsideFlush, threads, flags
      <3> QED BY <1>2, <2>1, <3>1, MainMoves DEF loop, Running, ThreadsInv
    <2>5. CASE \E s \in Signals : Signal(s)
      <3>1. /\ Running /\ UNCHANGED <<counter, list, todo, thread, cancelled, joined, files, seeks>>
            /\ main' \in {main, "after", "exited"} /\ (main' = "after" => main \in {"accept", "after"})
        BY <2>5 DEF Signal, AfterSignal, threads, flags, history
      <3> QED BY <1>2, <2>1, <3>1, MainMoves DEF Running, ThreadsInv, MainLabels
    <2>6. CASE \E c \in Clients : Connect(c)
      BY <1>2, <2>1, <2>6, ConnectKeepsInv
    <2>7. CASE \E c \in Clients : Thread(c)
      BY <1>2, <2>1, <2>7, ThreadKeepsInv
    <2>8. CASE UNCHANGED vars
      BY <1>2, <2>1, <2>8, MainMoves DEF vars, loop, threads, flags, history, Running, ThreadsInv
    <2> QED BY <1>2, <2>2, <2>3, <2>4, <2>5, <2>6, <2>7, <2>8 DEF Next
  <1> QED BY <1>1, <1>2, PTL DEF Spec

(* No third connection is served: however many clients there are, the      *)
(* join loop of main runs before the next accept.                          *)
THEOREM AtMostTwoThreadsHolds == Spec => []AtMostTwoThreads
  <1>1. ASSUME ThreadsInv PROVE AtMostTwoThreads
    <2> SUFFICES ASSUME NEW a \in Clients, NEW b \in Clients, NEW c \in Clients, Running,
                        thread[a] \in Active, thread[b] \in Active, thread[c] \in Active
                 PROVE  a = b \/ b = c \/ a = c
      BY DEF AtMostTwoThreads, Active
    <2>1. ListInv /\ ServedInv
      BY <1>1 DEF ThreadsInv
    <2>2. /\ InList(a) \/ a \in cancelled
          /\ InList(b) \/ b \in cancelled
          /\ InList(c) \/ c \in cancelled
      BY <2>1 DEF ServedInv
    <2>3. CASE cancelled = {}
      BY <2>1, <2>2, <2>3, SmallList
    <2>4. CASE cancelled # {}
      <3>1. list = << >> /\ \A d : ~InList(d)
        BY <2>1, <2>4, SmallList DEF ListInv
      <3> QED BY <2>1, <2>2, <3>1 DEF ListInv
    <2> QED BY <2>3, <2>4
  <1> QED BY <1>1, ThreadsInvariant, PTL

(* pthread_join is called at most once for a thread, and never for one     *)
(* that the shutdown then cancels.                                         *)
THEOREM JoinedOnceHolds == Spec => []JoinedOnce
  <1>1. ASSUME ThreadsInv PROVE JoinedOnce
    <2>1. ASSUME main = "join" PROVE Head(todo) \notin joined
      <3>1. ListInv /\ ServedInv /\ todo = list /\ list # << >> /\ list \in Seq(Clients)
        BY <1>1, <2>1 DEF ThreadsInv, Running, ListInv
      <3>2. InList(list[1]) /\ list[1] \in Clients
        BY <3>1, SmallList
      <3> QED BY <3>1, <3>2 DEF ServedInv
    <2>2. ASSUME main = "shutdown" PROVE \A i \in DOMAIN list : list[i] \notin joined
      <3>1. ListInv /\ ServedInv /\ list \in Seq(Clients)
        BY <1>1, <2>2 DEF ThreadsInv, Running, ListInv
      <3>2. \A i \in DOMAIN list : list[i] \in Clients /\ InList(list[i])
        BY <3>1, LenProperties, ElementOfSeq DEF InList
      <3> QED BY <3>1, <3>2 DEF ServedInv
    <2> QED BY <2>1, <2>2 DEF JoinedOnce
  <1> QED BY <1>1, ThreadsInvariant, PTL

(* The server has at most two connections and one device file open, and    *)
(* one more for every seek command: two threads never both have the device *)
(* open, by the mutex.                                                     *)
THEOREM OnlySeeksLeakHolds == Spec => []OnlySeeksLeak
  <1>1. ASSUME ThreadsInv PROVE OnlySeeksLeak
    <2> SUFFICES ASSUME Running PROVE files <= 3 + seeks
      BY DEF OnlySeeksLeak
    <2>1. ListInv /\ ServedInv /\ FilesInv /\ ServerMutex /\ files \in Int /\ seeks \in Nat
      BY <1>1 DEF ThreadsInv, ServerLockInv
    <2>2. \A l : Weight(l) \in {0, 1, 2}
      BY DEF Weight
    <2>3. CASE list = << >> /\ cancelled = {}
      BY <2>1, <2>3 DEF FilesInv
    <2>4. CASE list = << >> /\ cancelled # {}
      <3>1. PICK c \in cancelled : files <= seeks + Weight(thread[c])
        BY <2>1, <2>4 DEF FilesInv
      <3> QED BY <2>1, <2>2, <3>1
    <2>5. CASE Len(list) = 1
      BY <2>1, <2>2, <2>5 DEF FilesInv
    <2>6. CASE Len(list) = 2
      <3>1. /\ list[1] \in Clients /\ list[2] \in Clients /\ list[1] # list[2]
            /\ InList(list[1]) /\ InList(list[2])
        BY <2>1, <2>6, SmallList DEF ListInv
      <3>2. thread[list[1]] \notin Critical \/ thread[list[2]] \notin Critical
        BY <2>1, <3>1 DEF ServerMutex
      <3>3. thread[list[1]] # "cancelled" /\ thread[list[2]] # "cancelled"
        BY <2>1, <3>1 DEF ServedInv, Active, Critical
      <3>4. \A l : l \notin Critical /\ l # "cancelled" => Weight(l) \in {0, 1}
        BY DEF Weight, Critical
      <3>5. Weight(thread[list[1]]) \in {0, 1} \/ Weight(thread[list[2]]) \in {0, 1}
        BY <3>2, <3>3, <3>4
      <3>6. files <= seeks + Weight(thread[list[1]]) + Weight(thread[list[2]])
        BY <2>1, <2>6 DEF FilesInv
      <3> QED BY <2>1, <2>2, <3>5, <3>6
    <2> QED BY <2>1, <2>3, <2>4, <2>5, <2>6, SmallList
  <1> QED BY <1>1, ThreadsInvariant, PTL

-----------------------------------------------------------------------------
(* A connection accepted after a signal is the last: the main thread finds *)
(* the flag set before it is at accept again.                              *)
LateInv ==
  /\ late \in {0, 1} /\ caught_a_signal \in BOOLEAN
  /\ late = 1 => caught_a_signal /\ main \notin {"signals", "socket", "listen", "accept"}

(* After SIGINT or SIGTERM at most one more connection is accepted, with   *)
(* any number of clients, signals and restarts.                            *)
THEOREM AtMostOneMoreHolds == Spec => []AtMostOneMore
  <1>1. ASSUME Init PROVE LateInv
    <2>1. late = 0 /\ late # 1
      BY <1>1 DEF Init
    <2>2. caught_a_signal \in BOOLEAN
      BY <1>1, Zenon DEF Init
    <2> QED BY <2>1, <2>2 DEF LateInv
  <1>2. ASSUME LateInv, [Next]_vars PROVE LateInv'
    <2> USE DEF loop, threads, flags, history, LateInv
    <2>1. CASE \E c \in Clients : Accept(c)
      <3>1. late = 0 /\ UNCHANGED caught_a_signal /\ main' \in {"joins", "test"}
            /\ late' = late + (IF caught_a_signal THEN 1 ELSE 0)
        BY <1>2, <2>1 DEF Accept
      <3> QED BY <1>2, <3>1
    <2>2. CASE Restart
      <3>1. late' = 0 /\ late' # 1
        BY <2>2 DEF Restart
      <3>2. caught_a_signal' \in BOOLEAN
        BY <2>2, Zenon DEF Restart
      <3> QED BY <3>1, <3>2
    <2>3. CASE \E s \in Signals : Signal(s)
      <3>1. UNCHANGED late /\ caught_a_signal' \in BOOLEAN /\ (caught_a_signal => caught_a_signal')
        BY <2>3 DEF Signal
      <3>2. main' \in {main, "after", "exited"}
        BY <2>3 DEF Signal, AfterSignal
      <3> QED BY <1>2, <3>1, <3>2
    <2>4. ASSUME UNCHANGED <<late, caught_a_signal>>,
                 main' \in {main, "joins", "join", "test", "after", "shutdown", "exited"}
          PROVE LateInv'
      BY <1>2, <2>4
    <2>5. CASE LoopTest
      BY <1>2, <2>5 DEF LoopTest, AfterTest
    <2>6. CASE set_signal_handling \/ open_socket \/ Listen
      BY <1>2, <2>6 DEF set_signal_handling, open_socket, Listen
    <2>7. CASE JoinTest \/ Join \/ AfterLoop \/ StartFails \/ MainFails \/ graceful_socket_shutdown
      BY <2>4, <2>7 DEF JoinTest, Join, AfterLoop, StartFails, MainFails, graceful_socket_shutdown, Exit
    <2>8. CASE Outsiders
      BY <2>4, <2>8 DEF Outsiders, OutsideWrite, OutsideRead, OutsideFlush
    <2>9. ASSUME NEW c \in Clients, Connect(c) PROVE LateInv'
      BY <2>4, <2>9 DEF Connect
    <2>10. ASSUME NEW c \in Clients, Thread(c) PROVE LateInv'
      <3>1. CASE Lock(c) \/ OpenReply(c) \/ ReturnData(c) \/ Unlock(c) \/ Close(c)
        BY <2>4, <3>1 DEF Lock, OpenReply, ReturnData, Unlock, Close
      <3>2. CASE ThreadFails(c) \/ ThreadExhausts(c) \/ ThreadCancelled(c)
        BY <2>4, <3>2 DEF ThreadFails, ThreadExhausts, ThreadCancelled, Exit
      <3>3. CASE Receive(c)
        BY <2>4, <3>3 DEF Receive, ReceiveChunk, ReceiveSeek, ReceiveClose, Exit
      <3> QED BY <2>10, <3>1, <3>2, <3>3 DEF Thread
    <2>11. CASE UNCHANGED vars
      BY <2>4, <2>11 DEF vars
    <2> QED BY <1>2, <2>1, <2>2, <2>3, <2>5, <2>6, <2>7, <2>8, <2>9, <2>10, <2>11 DEF Next, Main
  <1>3. LateInv => AtMostOneMore
    BY DEF LateInv, AtMostOneMore
  <1> QED BY <1>1, <1>2, <1>3, PTL DEF Spec

-----------------------------------------------------------------------------
(* Nothing has arrived from a client that does not hold the mutex yet, and *)
(* what arrived last came from the client that is receiving, if anything   *)
(* came from it.                                                           *)
Early == {"away", "waiting", "start"}
ArrivalsInv ==
  /\ ServerLockInv /\ arrivals \in Seq(Clients) /\ ChunksTogether
  /\ \A i \in 1 .. Len(arrivals) : thread[arrivals[i]] \notin Early
  /\ \A i \in 1 .. Len(arrivals) : thread[arrivals[i]] = "recv" => arrivals[Len(arrivals)] = arrivals[i]

(* A step that writes nothing: a thread enters recv only from start. *)
LEMMA ArrivalsStay ==
  ASSUME ArrivalsInv, ServerLockInv', UNCHANGED arrivals,
         \A c \in Clients : /\ thread'[c] \in Early => thread[c] \in Early
                            /\ thread'[c] = "recv" => thread[c] \in {"start", "recv"}
  PROVE  ArrivalsInv'
  <1>1. \A i \in 1 .. Len(arrivals) : arrivals[i] \in Clients
    BY ElementOfSeq DEF ArrivalsInv
  <1>2. ChunksTogether'
    BY DEF ArrivalsInv, ChunksTogether
  <1> QED BY <1>1, <1>2 DEF ArrivalsInv, Early

(* One thread moves on, without a write. *)
LEMMA ArrivalsMove ==
  ASSUME ArrivalsInv, ServerLockInv', UNCHANGED arrivals, NEW c \in Clients, NEW to,
         thread' = [thread EXCEPT ![c] = to],
         to \in Early => thread[c] \in Early,
         to = "recv" => thread[c] \in {"start", "recv"}
  PROVE  ArrivalsInv'
  <1>1. \A d \in Clients : thread'[d] = IF d = c THEN to ELSE thread[d]
    BY DEF ArrivalsInv, ServerLockInv
  <1> QED BY <1>1, ArrivalsStay

(* The write of a chunk: the thread holds the mutex, so what came before   *)
(* is its own or it has written nothing yet.                               *)
LEMMA ArrivalsGrow ==
  ASSUME ArrivalsInv, ServerLockInv', Running, NEW c \in Clients, thread[c] = "recv",
         arrivals' = Append(arrivals, c),
         thread' = thread \/ thread' = [thread EXCEPT ![c] = "open"]
  PROVE  ArrivalsInv'
  <1> DEFINE n == Len(arrivals)
  <1>1. n \in Nat /\ arrivals \in Seq(Clients) /\ \A i \in 1 .. n : arrivals[i] \in Clients
    BY LenProperties, ElementOfSeq DEF ArrivalsInv
  <1>2. /\ arrivals' \in Seq(Clients) /\ Len(arrivals') = n + 1
        /\ \A i \in 1 .. n : arrivals'[i] = arrivals[i]
        /\ arrivals'[n + 1] = c
        /\ DOMAIN arrivals' = 1 .. n + 1 /\ DOMAIN arrivals = 1 .. n
    <2>1. Append(arrivals, c) \in Seq(Clients) /\ Len(Append(arrivals, c)) = n + 1
      BY <1>1, AppendProperties
    <2>2. /\ \A i \in 1 .. n : Append(arrivals, c)[i] = arrivals[i]
          /\ Append(arrivals, c)[n + 1] = c
      BY <1>1, AppendProperties
    <2> QED BY <1>1, <2>1, <2>2, LenProperties
  <1>3. \A d \in Clients : thread'[d] = IF d = c THEN thread'[c] ELSE thread[d]
    BY DEF ArrivalsInv, ServerLockInv
  <1>4. thread'[c] \in {"recv", "open"}
    BY DEF ArrivalsInv, ServerLockInv
  <1>5. \A d \in Clients : thread[d] = "recv" => d = c
    BY DEF ArrivalsInv, ServerLockInv, ServerMutex, Critical
  <1> HIDE DEF n
  <1>6. \A i \in 1 .. n : arrivals[i] = c => arrivals[n] = c
    BY DEF ArrivalsInv, n
  <1>10. \A i \in 1 .. n + 1 : i \in 1 .. n \/ i = n + 1
    BY <1>1
  <1>7. ChunksTogether'
    <2>1. SUFFICES ASSUME NEW i \in 1 .. n + 1, NEW j \in 1 .. n + 1, i < j,
                          arrivals'[i] = arrivals'[j], NEW k \in i .. j
                   PROVE  arrivals'[k] = arrivals'[i]
      BY <1>2 DEF ChunksTogether
    <2>2. i \in 1 .. n /\ k \in 1 .. n + 1
      BY <1>1, <2>1
    <2>3. CASE j # n + 1
      <3>1. j \in 1 .. n /\ k \in 1 .. n
        BY <1>1, <2>1, <2>3
      <3> QED BY <1>2, <2>1, <2>2, <3>1 DEF ArrivalsInv, ChunksTogether
    <2>4. CASE j = n + 1 /\ k # n + 1
      <3>1. k \in 1 .. n /\ k \in i .. n /\ n \in 1 .. n /\ (i = n \/ i < n)
        BY <1>1, <2>1, <2>2, <2>4
      <3>2. arrivals[i] = c /\ arrivals[n] = c
        BY <1>2, <1>6, <2>1, <2>2, <2>4
      <3>3. CASE i < n
        BY <1>2, <2>2, <3>1, <3>2, <3>3 DEF ArrivalsInv, ChunksTogether
      <3>4. CASE i = n
        <4>1. k = i
          BY <1>1, <3>1, <3>4
        <4> QED BY <4>1
      <3> QED BY <3>1, <3>3, <3>4
    <2>5. CASE j = n + 1 /\ k = n + 1
      BY <2>1, <2>5
    <2> QED BY <2>3, <2>4, <2>5
  <1>8. \A i \in 1 .. n + 1 : thread'[arrivals'[i]] \notin Early
    BY <1>1, <1>2, <1>3, <1>4, <1>10 DEF ArrivalsInv, Early, n
  <1>9. \A i \in 1 .. n + 1 : thread'[arrivals'[i]] = "recv" => arrivals'[n + 1] = arrivals'[i]
    BY <1>1, <1>2, <1>3, <1>5, <1>10
  <1> QED BY <1>2, <1>7, <1>8, <1>9 DEF ArrivalsInv

(* Every step keeps it. *)
LEMMA ArrivalsStep ==
  ASSUME ArrivalsInv, [Next]_vars
  PROVE  ArrivalsInv'
  <1> USE DEF device, threads, Critical
  <1>1. ServerLockInv'
    BY ServerLockStep DEF ArrivalsInv
  <1>2. ASSUME UNCHANGED <<thread, arrivals>> PROVE ArrivalsInv'
    BY <1>1, <1>2, ArrivalsStay
  <1>3. CASE Main
    <2>1. CASE \E c \in Clients : Accept(c)
      BY <1>1, <2>1, ArrivalsMove DEF Accept, Goto, Early
    <2>2. CASE set_signal_handling \/ open_socket \/ Listen \/ JoinTest \/ Join \/ LoopTest
      BY <1>2, <2>2 DEF set_signal_handling, open_socket, Listen, JoinTest, Join, LoopTest
    <2>3. CASE AfterLoop \/ StartFails \/ MainFails \/ graceful_socket_shutdown
      BY <1>2, <2>3 DEF AfterLoop, StartFails, MainFails, graceful_socket_shutdown
    <2> QED BY <1>3, <2>1, <2>2, <2>3 DEF Main
  <1>4. CASE Restart
    BY <1>1, <1>4, ArrivalsStay DEF Restart, Early
  <1>5. CASE Outsiders
    BY <1>2, <1>5 DEF Outsiders, OutsideWrite, OutsideRead, OutsideFlush
  <1>6. CASE \E s \in Signals : Signal(s)
    BY <1>2, <1>6 DEF Signal
  <1>7. ASSUME NEW c \in Clients, Connect(c) PROVE ArrivalsInv'
    BY <1>1, <1>7, ArrivalsMove DEF Connect, Goto, Early
  <1>8. ASSUME NEW c \in Clients, Thread(c) PROVE ArrivalsInv'
    <2> USE DEF Early, Goto
    <2>1. CASE Lock(c)
      BY <1>1, <2>1, ArrivalsMove DEF Lock
    <2>2. ASSUME NEW m \in Messages, ReceiveChunk(c, m) PROVE ArrivalsInv'
      <3>1. /\ Running /\ thread[c] = "recv" /\ arrivals' = Append(arrivals, c)
            /\ thread' = thread \/ thread' = [thread EXCEPT ![c] = "open"]
        BY <2>2 DEF ReceiveChunk
      <3> QED BY <1>1, <3>1, ArrivalsGrow
    <2>3. ASSUME NEW m \in Messages, ReceiveSeek(c, m) PROVE ArrivalsInv'
      BY <1>1, <2>3, ArrivalsMove DEF ReceiveSeek
    <2>4. ASSUME NEW m \in Messages, ReceiveClose(c, m) PROVE ArrivalsInv'
      BY <1>2, <2>4 DEF ReceiveClose
    <2>5. CASE OpenReply(c)
      BY <1>1, <2>5, ArrivalsMove DEF OpenReply
    <2>6. CASE ReturnData(c)
      <3>1. \E to \in {"send", "unlock"} : thread' = [thread EXCEPT ![c] = to]
        BY <2>6 DEF ReturnData
      <3>2. UNCHANGED arrivals
        BY <2>6 DEF ReturnData
      <3> QED BY <1>1, <3>1, <3>2, ArrivalsMove
    <2>7. CASE Unlock(c)
      BY <1>1, <2>7, ArrivalsMove DEF Unlock
    <2>8. CASE Close(c)
      BY <1>1, <2>8, ArrivalsMove DEF Close
    <2>9. CASE ThreadFails(c) \/ ThreadExhausts(c)
      BY <1>2, <2>9 DEF ThreadFails, ThreadExhausts
    <2>10. CASE ThreadCancelled(c)
      BY <1>1, <2>10, ArrivalsMove DEF ThreadCancelled
    <2> QED BY <1>8, <2>1, <2>2, <2>3, <2>4, <2>5, <2>6, <2>7, <2>8, <2>9, <2>10 DEF Thread, Receive
  <1>9. CASE UNCHANGED vars
    BY <1>2, <1>9 DEF vars
  <1> QED BY <1>3, <1>4, <1>5, <1>6, <1>7, <1>8, <1>9 DEF Next

(* What a client sends in one connection enters the device in one piece,   *)
(* however its chunks are cut and however many connections overlap.        *)
THEOREM ChunksTogetherHolds == Spec => []ChunksTogether
  <1>1. Init => ArrivalsInv
    <2> SUFFICES ASSUME Init PROVE ArrivalsInv
      OBVIOUS
    <2>1. arrivals = << >> /\ arrivals \in Seq(Clients) /\ Len(arrivals) = 0 /\ DOMAIN arrivals = {}
      BY EmptySeq DEF Init
    <2>2. ServerLockInv
      BY ServerAssumption DEF Init, ServerLockInv, ServerMutex, Critical, ThreadLabels
    <2> QED BY <2>1, <2>2 DEF ArrivalsInv, ChunksTogether
  <1>2. ArrivalsInv /\ [Next]_vars => ArrivalsInv'
    BY ArrivalsStep
  <1>3. ArrivalsInv => ChunksTogether
    BY DEF ArrivalsInv
  <1> QED BY <1>1, <1>2, <1>3, PTL DEF Spec

-----------------------------------------------------------------------------
(* The device under the server.                                            *)

DeviceInv == dev \in Devices /\ committed \in Nat

(* What a step does to the device: nothing, one write, a seek command, a   *)
(* read that takes a pending seek or not, or a flush from outside.         *)
WriteCall == \E m \in Messages, ends \in BOOLEAN : m.kind = "chunk" /\ WriteDevice(m, ends)
SeekCall  == \E m \in Messages : m.kind = "seek" /\ SeekDevice(m) /\ UNCHANGED committed
ReadCall  == \E v \in BOOLEAN : dev' = [dev EXCEPT !.seek = v] /\ UNCHANGED committed
FlushCall ==
  /\ dev' = [dev EXCEPT !.buffer = ResetOffsets(@), !.partial = FALSE, !.partial_size = 0,
                        !.seek = FALSE, !.seekto_position = 0]
  /\ UNCHANGED committed
DeviceCall == UNCHANGED <<dev, committed>> \/ WriteCall \/ SeekCall \/ ReadCall \/ FlushCall

(* What a write sees at the end of its command is yes or no. *)
LEMMA EndsBoolean ==
  ASSUME NEW m \in Messages, m.kind = "chunk"
  PROVE  EndsCommand(m) \subseteq BOOLEAN /\ m.size \in Nat \ {0}
  BY ServerAssumption DEF MessageTypes, EndsCommand

(* Every step is one of these. *)
LEMMA DeviceCalls ==
  ASSUME DeviceInv, [Next]_vars
  PROVE  DeviceCall
  <1>1. dev.seek \in BOOLEAN
    BY DEF DeviceInv, Devices
  <1>2. CASE Main
    <2>1. UNCHANGED <<dev, committed>>
      BY <1>2 DEF Main, set_signal_handling, open_socket, Listen, Accept, JoinTest, Join, LoopTest,
                  AfterLoop, StartFails, MainFails, graceful_socket_shutdown, device
    <2> QED BY <2>1 DEF DeviceCall
  <1>3. CASE Restart
    BY <1>3 DEF Restart, DeviceCall
  <1>4. CASE Outsiders
    <2>1. CASE OutsideWrite
      <3>1. PICK m \in Messages : m.kind = "chunk" /\ \E ends \in EndsCommand(m) : WriteDevice(m, ends)
        BY <2>1 DEF OutsideWrite
      <3> QED BY <3>1, EndsBoolean DEF DeviceCall, WriteCall
    <2>2. CASE OutsideRead
      <3>1. (dev.seek /\ ~ReadDevice(0, BufSize).applied) \in BOOLEAN
        OBVIOUS
      <3> QED BY <2>2, <3>1 DEF OutsideRead, DeviceCall, ReadCall
    <2>3. CASE OutsideFlush
      BY <2>3 DEF OutsideFlush, DeviceCall, FlushCall
    <2> QED BY <1>4, <2>1, <2>2, <2>3 DEF Outsiders
  <1>5. CASE \E s \in Signals : Signal(s)
    BY <1>5 DEF Signal, DeviceCall, device
  <1>6. CASE \E c \in Clients : Connect(c)
    BY <1>6 DEF Connect, DeviceCall, device
  <1>7. ASSUME NEW c \in Clients, Thread(c) PROVE DeviceCall
    <2>1. CASE Receive(c)
      <3>1. PICK m \in Messages : ReceiveChunk(c, m) \/ ReceiveSeek(c, m) \/ ReceiveClose(c, m)
        BY <2>1 DEF Receive
      <3>2. CASE ReceiveChunk(c, m)
        <4>1. m.kind = "chunk" /\ \E ends \in EndsCommand(m) : WriteDevice(m, ends)
          BY <3>2 DEF ReceiveChunk
        <4> QED BY <4>1, EndsBoolean DEF DeviceCall, WriteCall
      <3>3. CASE ReceiveSeek(c, m)
        BY <3>3 DEF ReceiveSeek, DeviceCall, SeekCall
      <3>4. CASE ReceiveClose(c, m)
        BY <3>4 DEF ReceiveClose, DeviceCall, device
      <3> QED BY <3>1, <3>2, <3>3, <3>4
    <2>2. CASE ReturnData(c)
      <3>1. (dev.seek /\ ~ReadDevice(f_pos[c], BufSize).applied) \in BOOLEAN
        OBVIOUS
      <3> QED BY <2>2, <3>1 DEF ReturnData, DeviceCall, ReadCall
    <2>3. CASE Lock(c) \/ OpenReply(c) \/ Unlock(c) \/ Close(c) \/ ThreadFails(c)
                 \/ ThreadExhausts(c) \/ ThreadCancelled(c)
      BY <2>3 DEF Lock, OpenReply, Unlock, Close, ThreadFails, ThreadExhausts, ThreadCancelled,
                  DeviceCall, device
    <2> QED BY <1>7, <2>1, <2>2, <2>3 DEF Thread
  <1>8. CASE UNCHANGED vars
    BY <1>8 DEF vars, device, DeviceCall
  <1> QED BY <1>2, <1>3, <1>4, <1>5, <1>6, <1>7, <1>8 DEF Next

(* The record of the device, field by field. *)
LEMMA DeviceFields ==
  ASSUME NEW d \in Devices
  PROVE  /\ d.buffer \in Buffers(Nat) /\ d.partial \in BOOLEAN /\ d.partial_size \in Nat
         /\ d.seek \in BOOLEAN /\ d.seekto_position \in Nat
         /\ d = [buffer |-> d.buffer, partial |-> d.partial, partial_size |-> d.partial_size,
                 seek |-> d.seek, seekto_position |-> d.seekto_position]
  BY DEF Devices

(* The ring after an add is a ring. *)
LEMMA AddIsBuffer ==
  ASSUME NEW b \in Buffers(Nat), NEW e \in Entries(Nat)
  PROVE  aesd_circular_buffer_add_entry(b, e) \in Buffers(Nat)
  BY AddToFull, AddToNotFull

(* The ring under the server: the ring of RingProofs. *)
Device == INSTANCE RingProofs WITH buffer <- dev.buffer, appended <- committed,
                                   Sizes <- Nat \ {0}, Counts <- {}

(* The constants of that ring are as it assumes. *)
LEMMA DeviceAssumed == Device!CapacityAssumption /\ Device!RingAssumption
  BY CapacityAssumption, ServerAssumption
     DEF Device!CapacityAssumption, Device!RingAssumption, Device!Entries, Entries

(* Its operations are those the server's device calls are made of. *)
LEMMA SameOperations ==
  /\ \A b, e : Device!aesd_circular_buffer_add_entry(b, e) = aesd_circular_buffer_add_entry(b, e)
  /\ \A b : Device!ResetOffsets(b) = ResetOffsets(b)
  /\ Device!FreshBuffers = {aesd_circular_buffer_init(junk) : junk \in [Slots -> Junk]}
  <1>1. \A junk : Device!aesd_circular_buffer_init(junk) = aesd_circular_buffer_init(junk)
    BY DEF Device!aesd_circular_buffer_init, aesd_circular_buffer_init
  <1>2. Device!FreshBuffers = {aesd_circular_buffer_init(junk) : junk \in [Slots -> Junk]}
    BY <1>1 DEF Device!FreshBuffers, Device!Slots, Slots
  <1>3. \A b : Device!ResetOffsets(b) = ResetOffsets(b)
    BY DEF Device!ResetOffsets, ResetOffsets
  <1>4. \A i : Device!Succ(i) = Succ(i)
    BY DEF Device!Succ, Succ
  <1>5. \A b : Device!DropOldSize(b) = DropOldSize(b) /\ Device!AdvanceOut(b) = AdvanceOut(b)
    BY <1>4 DEF Device!DropOldSize, DropOldSize, Device!AdvanceOut, AdvanceOut
  <1>6. \A b, e : Device!AddNewSize(b, e) = AddNewSize(b, e) /\ Device!StoreEntry(b, e) = StoreEntry(b, e)
    BY DEF Device!AddNewSize, AddNewSize, Device!StoreEntry, StoreEntry
  <1>7. \A b, f : Device!AdvanceIn(b, f) = AdvanceIn(b, f)
    BY <1>4 DEF Device!AdvanceIn, AdvanceIn
  <1>8. \A b, e : Device!aesd_circular_buffer_add_entry(b, e) = aesd_circular_buffer_add_entry(b, e)
    BY <1>5, <1>6, <1>7 DEF Device!aesd_circular_buffer_add_entry, aesd_circular_buffer_add_entry
  <1> QED BY <1>2, <1>3, <1>8

(* The seek ioctl's sum is a natural number. *)
LEMMA SeekIsNat ==
  ASSUME NEW b \in Buffers(Nat), NEW cmd \in 0 .. N, NEW off \in Nat
  PROVE  seekto_fpos(b, cmd, off) \in Nat
  <1>1. SizesBefore(b) \in [0 .. N -> Nat]
    BY SizesBeforeDef
  <1> QED BY <1>1 DEF seekto_fpos

(* A device call keeps the types, and is a step of the ring or none. *)
LEMMA CallStep ==
  ASSUME DeviceInv, DeviceCall
  PROVE  DeviceInv' /\ [Device!Next]_Device!vars
  <1>0. /\ dev.buffer \in Buffers(Nat) /\ dev.partial \in BOOLEAN /\ dev.partial_size \in Nat
        /\ dev.seek \in BOOLEAN /\ dev.seekto_position \in Nat /\ committed \in Nat
        /\ dev \in Devices
    BY DeviceFields DEF DeviceInv
  <1>1. CASE UNCHANGED <<dev, committed>>
    BY <1>1 DEF DeviceInv, Device!vars
  <1>2. CASE WriteCall
    <2>1. PICK m \in Messages, ends \in BOOLEAN : m.kind = "chunk" /\ WriteDevice(m, ends)
      BY <1>2 DEF WriteCall
    <2> DEFINE size == m.size + (IF dev.partial THEN dev.partial_size ELSE 0)
               e == [buffptr |-> committed, size |-> size]
    <2>2. size \in Nat \ {0} /\ e \in Entries(Nat)
      BY <1>0, <2>1, EndsBoolean DEF Entries
    <2>3. CASE ends
      <3>1. /\ dev' = [dev EXCEPT !.partial = FALSE, !.buffer = aesd_circular_buffer_add_entry(dev.buffer, e)]
            /\ committed' = committed + size
        BY <2>1, <2>3 DEF WriteDevice
      <3> HIDE DEF size
      <3>2. aesd_circular_buffer_add_entry(dev.buffer, e) \in Buffers(Nat)
        BY <1>0, <2>2, AddIsBuffer
      <3>3. dev' \in Devices /\ dev'.buffer = aesd_circular_buffer_add_entry(dev.buffer, e)
        BY <1>0, <3>1, <3>2 DEF Devices
      <3>4. Device!Add(size)
        BY <3>1, <3>3, SameOperations DEF Device!Add
      <3> QED BY <1>0, <2>2, <3>1, <3>3, <3>4 DEF DeviceInv, Device!Next
    <2>4. CASE ~ends
      <3>1. dev' = [dev EXCEPT !.partial = TRUE, !.partial_size = size] /\ committed' = committed
        BY <2>1, <2>4 DEF WriteDevice
      <3> HIDE DEF size
      <3>2. dev' \in Devices /\ dev'.buffer = dev.buffer
        BY <1>0, <2>2, <3>1 DEF Devices
      <3> QED BY <1>0, <3>1, <3>2 DEF DeviceInv, Device!vars
    <2> QED BY <2>1, <2>3, <2>4
  <1>3. CASE SeekCall
    <2>1. PICK m \in Messages : m.kind = "seek" /\ SeekDevice(m) /\ UNCHANGED committed
      BY <1>3 DEF SeekCall
    <2>2. m.cmd \in 0 .. N /\ m.off \in Nat
      BY <2>1, ServerAssumption DEF MessageTypes
    <2>3. seekto_fpos(dev.buffer, m.cmd, m.off) \in Nat
      BY <1>0, <2>2, SeekIsNat
    <2>4. dev' \in Devices /\ dev'.buffer = dev.buffer
      BY <1>0, <2>1, <2>3 DEF Devices, SeekDevice
    <2> QED BY <1>0, <2>1, <2>4 DEF DeviceInv, Device!vars
  <1>4. CASE ReadCall
    <2>1. dev' \in Devices /\ dev'.buffer = dev.buffer /\ committed' = committed
      BY <1>0, <1>4 DEF Devices, ReadCall
    <2> QED BY <1>0, <2>1 DEF DeviceInv, Device!vars
  <1>5. CASE FlushCall
    <2>1. ResetOffsets(dev.buffer) \in Buffers(Nat)
      BY <1>0, ResetOffsetsFields
    <2>2. dev' \in Devices /\ dev'.buffer = ResetOffsets(dev.buffer) /\ committed' = committed
      BY <1>0, <1>5, <2>1 DEF Devices, FlushCall
    <2> QED BY <1>0, <2>2, SameOperations DEF DeviceInv, Device!Next, Device!Flush
  <1> QED BY <1>1, <1>2, <1>3, <1>4, <1>5 DEF DeviceCall

(* The device starts as the module makes it. *)
LEMMA DeviceStarts == Init => DeviceInv /\ Device!Init
  <1> SUFFICES ASSUME Init PROVE DeviceInv /\ Device!Init
    OBVIOUS
  <1>1. PICK junk \in [Slots -> Junk] :
          dev = [buffer |-> aesd_circular_buffer_init(junk), partial |-> FALSE,
                 partial_size |-> 0, seek |-> FALSE, seekto_position |-> 0]
    BY DEF Init
  <1>2. aesd_circular_buffer_init(junk) \in Buffers(Nat)
    <2>1. junk \in [Slots -> Entries(Nat)] /\ 0 \in Slots
      BY ServerAssumption, CapacityAssumption DEF Slots
    <2> QED BY <2>1 DEF aesd_circular_buffer_init, Buffers
  <1>3. dev \in Devices /\ dev.buffer = aesd_circular_buffer_init(junk)
    BY <1>1, <1>2 DEF Devices
  <1>4. committed = 0
    BY DEF Init
  <1> QED BY <1>3, <1>4, SameOperations DEF DeviceInv, Device!Init

(* The device stays well-formed under the server and everybody else. *)
THEOREM DeviceInvariant == Spec => []DeviceInv
  <1>1. Init => DeviceInv
    BY DeviceStarts
  <1>2. DeviceInv /\ [Next]_vars => DeviceInv'
    BY DeviceCalls, CallStep
  <1> QED BY <1>1, <1>2, PTL DEF Spec

(* The calls of this specification, whole as they are, change the ring     *)
(* under the server by one operation of Ring at a time.                    *)
LEMMA ServerImplementsRing == Spec => Device!Spec
  <1>1. Init => Device!Init
    BY DeviceStarts
  <1>2. DeviceInv /\ [Next]_vars => [Device!Next]_Device!vars
    BY DeviceCalls, CallStep
  <1> QED BY <1>1, <1>2, DeviceInvariant, PTL DEF Spec, Device!Spec

(* What the server's clients and other programs sent is kept as a bounded  *)
(* log of the last N commands, across restarts of the server, when other   *)
(* programs read and write but do not flush the device.  aesd_read and     *)
(* aesd_write take its mutex; aesd_flush does not and can run inside a     *)
(* write of the server, which a step of this specification cannot show.    *)
THEOREM ServerImplementsLog == ASSUME "flush" \notin Outside PROVE Spec => Device!ImplementsLog
  BY ServerImplementsRing, DeviceAssumed, Device!RingRefinesLog, PTL

-----------------------------------------------------------------------------
(* Types.                                                                  *)

(* The descriptors a thread will close, seen from below: there are at      *)
(* least that many open for any two threads, and no three have any.        *)
Uses(l) == CASE l \in {"recv", "send"} -> 2
             [] l \in {"start", "open", "unlock", "close"} -> 1
             [] OTHER -> 0

Covered(n) ==
  \A c \in Clients :
    /\ Uses(thread[c]) <= n
    /\ \A d \in Clients : c # d => Uses(thread[c]) + Uses(thread[d]) <= n

OpenInv == files \in 0 .. MaxFiles /\ (Running => Covered(files))

(* Uses, label by label. *)
LEMMA UsesOf ==
  /\ Uses("recv") = 2 /\ Uses("send") = 2
  /\ Uses("start") = 1 /\ Uses("open") = 1 /\ Uses("unlock") = 1 /\ Uses("close") = 1
  /\ Uses("done") = 0 /\ Uses("cancelled") = 0 /\ Uses("waiting") = 0 /\ Uses("gone") = 0
  /\ Uses("away") = 0
  /\ \A l : Uses(l) \in 0 .. 2 /\ (Uses(l) > 0 => l \in Active)
  BY DEF Uses, Active, Critical

(* A thread moves and the descriptors change by at least the difference.   *)
LEMMA UsesMove ==
  ASSUME ThreadsInv, AtMostTwoThreads, OpenInv, Running, Running', NEW c \in Clients, NEW to \in ThreadLabels,
         thread' = [thread EXCEPT ![c] = to],
         files' \in Int, files' <= MaxFiles, files' >= files + Uses(to) - Uses(thread[c])
  PROVE  OpenInv'
  <1>0. /\ thread \in [Clients -> ThreadLabels] /\ files \in Nat /\ MaxFiles \in Nat
        /\ Covered(files)
    BY ServerAssumption DEF ThreadsInv, ServerLockInv, OpenInv
  <1>1. \A d \in Clients : thread'[d] = IF d = c THEN to ELSE thread[d]
    BY <1>0
  <1> DEFINE u(d) == Uses(thread[d])
             v(d) == Uses(thread'[d])
  <1>2. /\ \A d \in Clients : u(d) \in 0 .. 2 /\ v(d) \in 0 .. 2
        /\ \A d \in Clients : d # c => v(d) = u(d)
        /\ v(c) = Uses(to)
    BY <1>1, UsesOf
  <1>3. \A d \in Clients : u(d) <= files /\ \A e \in Clients : d # e => u(d) + u(e) <= files
    BY <1>0 DEF Covered
  <1>4. /\ \A d \in Clients : u(d) > 0 => thread[d] \in Active
        /\ files' >= files + v(c) - u(c)
    BY <1>2, UsesOf
  <1>5. \A d, e \in Clients : d # e /\ d # c /\ e # c /\ u(d) > 0 /\ u(e) > 0 => u(c) = 0
    <2> SUFFICES ASSUME NEW d \in Clients, NEW e \in Clients, d # e, d # c, e # c,
                        u(d) > 0, u(e) > 0, u(c) # 0
                 PROVE  FALSE
      OBVIOUS
    <2>1. thread[c] \in Active /\ thread[d] \in Active /\ thread[e] \in Active
      BY <1>2, <1>4
    <2> QED BY <2>1 DEF AtMostTwoThreads, Active
  <1> HIDE DEF u, v
  <1>6. \A d \in Clients : v(d) <= files' /\ \A e \in Clients : d # e => v(d) + v(e) <= files'
    <2> TAKE d \in Clients
    <2>1. \A e \in Clients : d # e => v(d) + v(e) <= files'
      <3> TAKE e \in Clients
      <3> SUFFICES ASSUME d # e PROVE v(d) + v(e) <= files'
        OBVIOUS
      <3>1. u(d) \in 0 .. 2 /\ v(d) \in 0 .. 2 /\ u(e) \in 0 .. 2 /\ v(e) \in 0 .. 2
            /\ u(c) \in 0 .. 2 /\ v(c) \in 0 .. 2
        BY <1>2
      <3>2. CASE d = c
        BY <1>0, <1>2, <1>3, <1>4, <3>1, <3>2
      <3>3. CASE e = c
        BY <1>0, <1>2, <1>3, <1>4, <3>1, <3>3
      <3>4. CASE d # c /\ e # c
        <4>1. v(d) = u(d) /\ v(e) = u(e)
          BY <1>2, <3>4
        <4>2. u(c) + u(d) <= files /\ u(c) + u(e) <= files /\ u(d) + u(e) <= files
          BY <1>3, <3>4
        <4>3. u(c) = 0 \/ u(d) = 0 \/ u(e) = 0
          BY <1>5, <3>1, <3>4
        <4> QED BY <1>0, <1>4, <3>1, <4>1, <4>2, <4>3
      <3> QED BY <3>2, <3>3, <3>4
    <2>2. v(d) <= files'
      <3>1. u(d) \in 0 .. 2 /\ v(d) \in 0 .. 2 /\ u(c) \in 0 .. 2 /\ v(c) \in 0 .. 2
        BY <1>2
      <3>2. CASE d = c
        BY <1>0, <1>3, <1>4, <3>1, <3>2
      <3>3. CASE d # c
        <4>1. v(d) = u(d) /\ u(c) + u(d) <= files
          BY <1>2, <1>3, <3>3
        <4> QED BY <1>0, <1>4, <3>1, <4>1
      <3> QED BY <3>2, <3>3
    <2> QED BY <2>1, <2>2
  <1>7. Covered(files)'
    BY <1>6 DEF Covered, u, v
  <1>8. files' >= 0
    BY <1>2, <1>6
  <1> QED BY <1>0, <1>7, <1>8 DEF OpenInv

(* A step that moves no thread and opens or closes nothing. *)
LEMMA UsesStay ==
  ASSUME OpenInv, UNCHANGED <<thread, files>>, Running \/ ~Running'
  PROVE  OpenInv'
  BY DEF OpenInv, Covered

(* No step closes more than is open. *)
LEMMA OpenStep ==
  ASSUME ThreadsInv, AtMostTwoThreads, OpenInv, [Next]_vars
  PROVE  OpenInv'
  <1>0. /\ files \in Nat /\ files <= MaxFiles /\ MaxFiles \in Nat
        /\ thread \in [Clients -> ThreadLabels]
    BY ServerAssumption DEF OpenInv, ThreadsInv, ServerLockInv
  <1>1. CASE Main
    <2>1. ASSUME NEW c \in Clients, Accept(c) PROVE OpenInv'
      <3>1. /\ Running /\ Running' /\ thread[c] = "waiting" /\ files < MaxFiles /\ files' = files + 1
            /\ thread' = [thread EXCEPT ![c] = "start"]
        BY <2>1 DEF Accept, Goto, Open, Running
      <3>2. files' \in Int /\ files' <= MaxFiles /\ files' >= files + Uses("start") - Uses(thread[c])
        BY <1>0, <3>1, UsesOf
      <3>3. "start" \in ThreadLabels
        BY DEF ThreadLabels
      <3> QED BY <3>1, <3>2, <3>3, UsesMove
    <2>2. CASE ~\E c \in Clients : Accept(c)
      <3>1. UNCHANGED <<thread, files>> /\ main # "exited"
        BY <1>1, <2>2 DEF Main, set_signal_handling, open_socket, Listen, JoinTest, Join, LoopTest,
             AfterLoop, StartFails, MainFails, MainOpens, graceful_socket_shutdown, threads
      <3> QED BY <3>1, UsesStay DEF Running
    <2> QED BY <2>1, <2>2
  <1>2. CASE Restart
    <2>1. /\ files' = 0
          /\ thread' = [c \in Clients |-> IF thread[c] \in {"away", "done"} THEN thread[c] ELSE "gone"]
      BY <1>2 DEF Restart
    <2>2. \A c \in Clients : Uses(thread'[c]) = 0
      BY <2>1, UsesOf
    <2> QED BY <1>0, <2>1, <2>2 DEF OpenInv, Covered
  <1>3. CASE Outsiders
    <2>1. UNCHANGED <<thread, files, main>>
      BY <1>3 DEF Outsiders, OutsideWrite, OutsideRead, OutsideFlush, threads
    <2> QED BY <2>1, UsesStay DEF Running
  <1>4. CASE \E s \in Signals : Signal(s)
    BY <1>4, UsesStay DEF Signal, threads
  <1>5. ASSUME NEW c \in Clients, Connect(c) PROVE OpenInv'
    <2>1. /\ Running /\ Running' /\ thread[c] = "away" /\ files' = files
          /\ thread' = [thread EXCEPT ![c] = "waiting"]
      BY <1>5 DEF Connect, Goto, Running
    <2>2. files' \in Int /\ files' <= MaxFiles /\ files' >= files + Uses("waiting") - Uses(thread[c])
      BY <1>0, <2>1, UsesOf
    <2>3. "waiting" \in ThreadLabels
      BY DEF ThreadLabels
    <2> QED BY <2>1, <2>2, <2>3, UsesMove
  <1>6. ASSUME NEW c \in Clients, Thread(c) PROVE OpenInv'
    <2>1. CASE (\E m \in Messages : ReceiveClose(c, m)) \/ ThreadFails(c) \/ ThreadExhausts(c)
      BY <2>1, UsesStay DEF ReceiveClose, ThreadFails, ThreadExhausts, threads
    <2>2. CASE \E m \in Messages : ReceiveChunk(c, m) /\ ~LoopEnds(m)
      BY <2>2, UsesStay DEF ReceiveChunk
    <2>3. ASSUME NEW from \in Active, NEW to \in Active \cup {"done", "cancelled"}, Running, main' = main,
                 thread[c] = from, thread' = [thread EXCEPT ![c] = to],
                 \/ files' = files + 1 /\ files < MaxFiles /\ Uses(to) = Uses(from) + 1
                 \/ files' = files - 1 /\ Uses(to) = Uses(from) - 1
                 \/ files' = files /\ Uses(to) <= Uses(from)
          PROVE  OpenInv'
      <3>1. Uses(to) \in 0 .. 2 /\ Uses(from) \in 0 .. 2 /\ to \in ThreadLabels /\ Running'
        BY <2>3, UsesOf DEF Active, ThreadLabels, Critical, Running
      <3>2. files' \in Int /\ files' <= MaxFiles /\ files' >= files + Uses(to) - Uses(thread[c])
        BY <1>0, <2>3, <3>1
      <3> QED BY <2>3, <3>1, <3>2, UsesMove
    <2>4. CASE Lock(c)
      BY <2>3, <2>4, UsesOf DEF Lock, Open, Goto, Active, Critical
    <2>5. CASE \E m \in Messages : ReceiveChunk(c, m) /\ LoopEnds(m)
      BY <2>3, <2>5, UsesOf DEF ReceiveChunk, Goto, Active, Critical
    <2>6. CASE \E m \in Messages : ReceiveSeek(c, m)
      BY <2>3, <2>6, UsesOf DEF ReceiveSeek, Goto, Active, Critical
    <2>7. CASE OpenReply(c)
      BY <2>3, <2>7, UsesOf DEF OpenReply, Open, Goto, Active, Critical
    <2>8. CASE ReturnData(c)
      <3>1. /\ Running /\ thread[c] = "send" /\ main' = main
            /\ \/ thread' = [thread EXCEPT ![c] = "send"] /\ files' = files
               \/ thread' = [thread EXCEPT ![c] = "unlock"] /\ files' = files - 1
        BY <2>8 DEF ReturnData, Goto, ClosesFile
      <3> QED BY <2>3, <3>1, UsesOf DEF Active, Critical
    <2>9. CASE Unlock(c)
      BY <2>3, <2>9, UsesOf DEF Unlock, Goto, Active, Critical
    <2>10. CASE Close(c)
      BY <2>3, <2>10, UsesOf DEF Close, Goto, Active, Critical
    <2>11. CASE ThreadCancelled(c)
      <3>1. Running /\ main' = main /\ thread[c] \in Active /\ thread' = [thread EXCEPT ![c] = "cancelled"]
            /\ files' = files
        BY <2>11 DEF ThreadCancelled, Goto, Active, Critical
      <3>2. Uses("cancelled") <= Uses(thread[c])
        BY UsesOf
      <3> QED BY <2>3, <3>1, <3>2
    <2> QED BY <1>6, <2>1, <2>2, <2>4, <2>5, <2>6, <2>7, <2>8, <2>9, <2>10, <2>11 DEF Thread, Receive
  <1>7. CASE UNCHANGED vars
    BY <1>7, UsesStay DEF vars, threads, Running
  <1> QED BY <1>1, <1>2, <1>3, <1>4, <1>5, <1>6, <1>7 DEF Next

(* A descriptor is closed only while it is open, and no more are open than *)
(* the process may have.                                                   *)
THEOREM OpenInvariant == Spec => []OpenInv
  <1>1. Init => OpenInv
    BY ServerAssumption, UsesOf DEF Init, OpenInv, Covered
  <1>2. ThreadsInv /\ AtMostTwoThreads /\ OpenInv /\ [Next]_vars => OpenInv'
    BY OpenStep
  <1> QED BY <1>1, <1>2, ThreadsInvariant, AtMostTwoThreadsHolds, PTL DEF Spec

(* The main thread's variables. *)
MainTypes ==
  /\ main \in MainLabels /\ counter \in Nat
  /\ list \in Seq(Clients) /\ todo \in Seq(Clients)
  /\ caught_a_signal \in BOOLEAN
  /\ thread_complete_success \in [Clients -> BOOLEAN]
  /\ cancelled \subseteq Clients
  /\ late \in Nat /\ joined \subseteq Clients /\ starts \in 1 .. MaxStarts

(* The connection threads' variables. *)
ThreadTypes ==
  /\ thread \in [Clients -> ThreadLabels]
  /\ mutex \in Clients \cup {Free}
  /\ parts \in [Clients -> 0 .. MaxParts] /\ f_pos \in [Clients -> Nat]
  /\ reply \in [Clients -> Seq(Nat)] /\ sought \in [Clients -> BOOLEAN]
  /\ arrivals \in Seq(Clients)

OutsideTypes == outside \in 0 .. MaxOutside /\ disturbed \in BOOLEAN

(* Every step but those of main keeps the main thread's types. *)
LEMMA MainTypesStep ==
  ASSUME ThreadsInv, ThreadsInv', MainTypes, [Next]_vars
  PROVE  MainTypes'
  <1>0. /\ main' \in MainLabels /\ joined' \subseteq Clients
        /\ Running' => counter' \in Nat /\ list' \in Seq(Clients) /\ cancelled' \subseteq Clients
    BY DEF ThreadsInv, ListInv
  <1>1. CASE \E c \in Clients : Accept(c)
    <2>1. PICK c \in Clients : Accept(c)
      BY <1>1
    <2>2. list' \in Seq(Clients) /\ todo' \in {todo, list'} /\ cancelled' \subseteq Clients /\ counter' \in Nat
      BY <1>0, <2>1 DEF Accept, Inserted, Running
    <2>3. thread_complete_success' = [thread_complete_success EXCEPT ![c] = FALSE]
          /\ late' \in Nat /\ UNCHANGED <<caught_a_signal, starts>>
      BY <2>1 DEF Accept, MainTypes
    <2>4. thread_complete_success' \in [Clients -> BOOLEAN]
      BY <2>3 DEF MainTypes
    <2> QED BY <1>0, <2>2, <2>3, <2>4 DEF MainTypes
  <1>2. CASE JoinTest
    <2>1. todo # << >> => Head(todo) \in Clients
      BY DEF MainTypes
    <2>2. thread_complete_success' \in [Clients -> BOOLEAN]
      BY <1>2, <2>1 DEF JoinTest, MainTypes
    <2>3. UNCHANGED <<loop, cancelled, late, joined, starts>>
      BY <1>2 DEF JoinTest, history
    <2> QED BY <1>0, <2>2, <2>3 DEF MainTypes, loop
  <1>3. CASE Join
    <2>1. main = "join" /\ main' = "joins" /\ todo' = Tail(todo)
          /\ UNCHANGED <<counter, caught_a_signal, thread_complete_success, cancelled, late, starts>>
      BY <1>3 DEF Join, threads, flags
    <2>2. todo # << >>
      BY <2>1 DEF ThreadsInv, Running, ListInv
    <2>3. todo' \in Seq(Clients)
      BY <2>1, <2>2 DEF MainTypes
    <2> QED BY <1>0, <2>1, <2>3 DEF MainTypes, Running
  <1>4. CASE set_signal_handling \/ open_socket \/ Listen \/ LoopTest \/ AfterLoop \/ StartFails \/ MainFails
    <2>1. UNCHANGED <<loop, thread_complete_success, cancelled, late, joined, starts>>
      BY <1>4 DEF set_signal_handling, open_socket, Listen, LoopTest, AfterLoop, StartFails, MainFails,
                  threads, flags, history
    <2> QED BY <1>0, <2>1 DEF MainTypes, loop
  <1>5. CASE graceful_socket_shutdown
    <2>1. UNCHANGED <<counter, todo, caught_a_signal, thread_complete_success, late, joined, starts>>
      BY <1>5 DEF graceful_socket_shutdown, history
    <2>2. CASE Running'
      BY <1>0, <2>1, <2>2 DEF MainTypes
    <2>3. CASE ~Running'
      <3>1. UNCHANGED <<list, cancelled>>
        BY <1>5, <2>3 DEF graceful_socket_shutdown, Exit, Running
      <3> QED BY <1>0, <2>1, <3>1 DEF MainTypes
    <2> QED BY <2>2, <2>3
  <1>6. CASE Restart
    <2>1. << >> \in Seq(Clients)
      OBVIOUS
    <2>2. starts' \in 1 .. MaxStarts
      BY <1>6, ServerAssumption DEF Restart, MainTypes
    <2>3. /\ counter' = 0 /\ list' = << >> /\ todo' = << >> /\ caught_a_signal' = FALSE
          /\ cancelled' = {} /\ late' = 0
          /\ UNCHANGED thread_complete_success
      BY <1>6 DEF Restart
    <2> QED BY <1>0, <2>1, <2>2, <2>3 DEF MainTypes
  <1>7. CASE Outsiders
    <2>1. UNCHANGED <<loop, thread_complete_success, cancelled, late, joined, starts>>
      BY <1>7 DEF Outsiders, OutsideWrite, OutsideRead, OutsideFlush, threads, flags
    <2> QED BY <1>0, <2>1 DEF MainTypes, loop
  <1>8. CASE \E s \in Signals : Signal(s)
    <2>1. UNCHANGED <<counter, list, todo, thread_complete_success, cancelled, late, joined, starts>>
          /\ caught_a_signal' \in BOOLEAN
      BY <1>8 DEF Signal, threads, flags, history
    <2> QED BY <1>0, <2>1 DEF MainTypes
  <1>9. CASE \E c \in Clients : Connect(c)
    <2>1. UNCHANGED <<loop, thread_complete_success, cancelled, late, joined, starts>>
      BY <1>9 DEF Connect, flags, history
    <2> QED BY <1>0, <2>1 DEF MainTypes, loop
  <1>10. ASSUME NEW c \in Clients, Thread(c) PROVE MainTypes'
    <2>1. UNCHANGED <<loop, cancelled, late, joined, starts>>
      BY <1>10 DEF Thread, Lock, Receive, ReceiveChunk, ReceiveSeek, ReceiveClose, OpenReply, ReturnData,
           Unlock, Close, ThreadFails, ThreadExhausts, ThreadCancelled, threads, flags, history
    <2>2. \/ UNCHANGED thread_complete_success
          \/ thread_complete_success' = [thread_complete_success EXCEPT ![c] = TRUE]
      BY <1>10 DEF Thread, Lock, Receive, ReceiveChunk, ReceiveSeek, ReceiveClose, OpenReply, ReturnData,
           Unlock, Close, ThreadFails, ThreadExhausts, ThreadCancelled, threads, flags
    <2>3. thread_complete_success' \in [Clients -> BOOLEAN]
      BY <2>2 DEF MainTypes
    <2> QED BY <1>0, <2>1, <2>3 DEF MainTypes, loop
  <1>11. CASE UNCHANGED vars
    <2>1. UNCHANGED <<loop, thread_complete_success, cancelled, late, joined, starts>>
      BY <1>11 DEF vars, threads, flags, history
    <2> QED BY <1>0, <2>1 DEF MainTypes, loop
  <1> QED BY <1>1, <1>2, <1>3, <1>4, <1>5, <1>6, <1>7, <1>8, <1>9, <1>10, <1>11 DEF Next, Main

(* What one buffer of a reply adds: a sequence of stream positions. *)
LEMMA ReadTypes ==
  ASSUME DeviceInv, NEW pos \in Nat
  PROVE  LET r == ReadDevice(pos, BufSize)
             p == [j \in DOMAIN r.data |-> r.data[j][1] + r.data[j][2]]
         IN  r.data \in Seq(Nat \X Nat) /\ r.pos \in Nat /\ r.applied \in BOOLEAN
             /\ p \in Seq(Nat) /\ Len(p) = Len(r.data)
  <1> DEFINE r == ReadDevice(pos, BufSize)
             from == IF dev.seek /\ pos < dev.buffer.total_size THEN dev.seekto_position ELSE pos
             d == IF pos < dev.buffer.total_size /\ from < dev.buffer.total_size
                  THEN read_entries(dev.buffer, from, BufSize) ELSE << >>
             p == [j \in DOMAIN r.data |-> r.data[j][1] + r.data[j][2]]
  <1>0. dev.buffer \in Buffers(Nat) /\ dev.seekto_position \in Nat /\ from \in Nat /\ BufSize \in Nat
    BY DeviceFields, ServerAssumption DEF DeviceInv
  <1>1. r.data = d /\ r.pos = from + Len(d) /\ r.applied = (dev.seek /\ pos < dev.buffer.total_size)
    BY DEF ReadDevice, NewPos
  <1>2. d \in Seq(Nat \X Nat)
    <2>1. read_entries(dev.buffer, from, BufSize) \in Seq(Nat \X Nat)
      <3> HIDE DEF from
      <3> QED BY <1>0, ReadEntriesType
    <2>2. << >> \in Seq(Nat \X Nat)
      OBVIOUS
    <2> QED BY <2>1, <2>2
  <1> HIDE DEF r, d, from
  <1>3. r.data \in Seq(Nat \X Nat) /\ Len(d) \in Nat
    BY <1>1, <1>2
  <1>4. r.pos \in Nat /\ r.applied \in BOOLEAN
    BY <1>0, <1>1, <1>3
  <1>5. DOMAIN r.data = 1 .. Len(r.data) /\ Len(r.data) \in Nat
        /\ \A j \in 1 .. Len(r.data) : r.data[j] \in Nat \X Nat
    BY <1>3, LenProperties, ElementOfSeq
  <1>6. \A j \in 1 .. Len(r.data) : r.data[j][1] + r.data[j][2] \in Nat
    BY <1>5
  <1>7. p \in Seq(Nat) /\ Len(p) = Len(r.data)
    BY <1>5, <1>6
  <1> QED BY <1>3, <1>4, <1>7 DEF r

(* Every step keeps the connection threads' types. *)
LEMMA ThreadTypesStep ==
  ASSUME ServerLockInv', DeviceInv, ThreadTypes, [Next]_vars
  PROVE  ThreadTypes'
  <1>0. thread' \in [Clients -> ThreadLabels]
    BY DEF ServerLockInv
  <1>1. CASE Main
    <2>1. UNCHANGED <<mutex, local, arrivals>>
      BY <1>1 DEF Main, set_signal_handling, open_socket, Listen, Accept, JoinTest, Join, LoopTest,
                  AfterLoop, StartFails, MainFails, graceful_socket_shutdown, threads, device
    <2> QED BY <1>0, <2>1 DEF ThreadTypes, local
  <1>2. CASE Restart
    <2>1. << >> \in Seq(Nat) /\ 0 \in 0 .. MaxParts
      BY ServerAssumption
    <2> QED BY <1>0, <1>2, <2>1 DEF Restart, ThreadTypes
  <1>3. CASE Outsiders \/ (\E s \in Signals : Signal(s)) \/ UNCHANGED vars \/ \E c \in Clients : Connect(c)
    <2>1. UNCHANGED <<mutex, local, arrivals>>
      BY <1>3 DEF Outsiders, OutsideWrite, OutsideRead, OutsideFlush, Signal, Connect, vars, threads, device
    <2> QED BY <1>0, <2>1 DEF ThreadTypes, local
  <1>4. ASSUME NEW c \in Clients, Thread(c) PROVE ThreadTypes'
    <2>1. CASE Lock(c)
      <3>1. mutex' = c /\ UNCHANGED <<local, arrivals>>
        BY <2>1 DEF Lock, device
      <3> QED BY <1>0, <3>1 DEF ThreadTypes, local
    <2>2. CASE Receive(c)
      <3>1. PICK m \in Messages : ReceiveChunk(c, m) \/ ReceiveSeek(c, m) \/ ReceiveClose(c, m)
        BY <2>2 DEF Receive
      <3>2. CASE ReceiveChunk(c, m)
        <4>1. /\ arrivals' = Append(arrivals, c) /\ UNCHANGED <<mutex, f_pos, reply, sought>>
              /\ \/ parts' = [parts EXCEPT ![c] = 0]
                 \/ ~m.has_nl /\ parts' = [parts EXCEPT ![c] = @ + 1]
              /\ m.has_nl \/ parts[c] < MaxParts
          BY <3>2 DEF ReceiveChunk, LoopEnds
        <4>2. arrivals' \in Seq(Clients)
          BY <4>1 DEF ThreadTypes
        <4>3. parts[c] \in 0 .. MaxParts /\ MaxParts \in Nat /\ parts \in [Clients -> 0 .. MaxParts]
          BY ServerAssumption DEF ThreadTypes
        <4>4. parts' \in [Clients -> 0 .. MaxParts]
          BY <4>1, <4>3
        <4> QED BY <1>0, <4>1, <4>2, <4>4 DEF ThreadTypes
      <3>3. CASE ReceiveSeek(c, m)
        <4>1. parts' = [parts EXCEPT ![c] = 0] /\ UNCHANGED <<mutex, f_pos, reply, sought, arrivals>>
          BY <3>3 DEF ReceiveSeek
        <4>2. parts' \in [Clients -> 0 .. MaxParts]
          BY <4>1, ServerAssumption DEF ThreadTypes
        <4> QED BY <1>0, <4>1, <4>2 DEF ThreadTypes
      <3>4. CASE ReceiveClose(c, m)
        <4>1. UNCHANGED <<mutex, local, arrivals>>
          BY <3>4 DEF ReceiveClose, threads, device
        <4> QED BY <1>0, <4>1 DEF ThreadTypes, local
      <3> QED BY <3>1, <3>2, <3>3, <3>4
    <2>3. CASE ReturnData(c)
      <3> DEFINE r == ReadDevice(f_pos[c], BufSize)
                 p == [j \in DOMAIN r.data |-> r.data[j][1] + r.data[j][2]]
      <3>1. f_pos[c] \in Nat /\ reply[c] \in Seq(Nat) /\ sought[c] \in BOOLEAN
        BY DEF ThreadTypes
      <3>2. r.pos \in Nat /\ r.applied \in BOOLEAN /\ p \in Seq(Nat)
        BY <3>1, ReadTypes
      <3>3. /\ f_pos' = [f_pos EXCEPT ![c] = r.pos]
            /\ reply' = [reply EXCEPT ![c] = reply[c] \o p]
            /\ sought' = [sought EXCEPT ![c] = sought[c] \/ r.applied]
            /\ UNCHANGED <<mutex, parts, arrivals>>
        BY <2>3 DEF ReturnData
      <3> HIDE DEF r, p
      <3>4. reply[c] \o p \in Seq(Nat)
        BY <3>1, <3>2
      <3>5. f_pos' \in [Clients -> Nat]
        BY <3>2, <3>3 DEF ThreadTypes
      <3>6. reply' \in [Clients -> Seq(Nat)]
        BY <3>3, <3>4 DEF ThreadTypes
      <3>7. sought' \in [Clients -> BOOLEAN]
        BY <3>1, <3>2, <3>3 DEF ThreadTypes
      <3> QED BY <1>0, <3>3, <3>5, <3>6, <3>7 DEF ThreadTypes
    <2>4. CASE Unlock(c)
      <3>1. << >> \in Seq(Nat)
        OBVIOUS
      <3>2. /\ mutex' = Free /\ UNCHANGED <<parts, arrivals>>
            /\ reply' = [reply EXCEPT ![c] = << >>]
            /\ f_pos' = [f_pos EXCEPT ![c] = 0]
            /\ sought' = [sought EXCEPT ![c] = FALSE]
        BY <2>4 DEF Unlock, Unlocked, device
      <3> QED BY <1>0, <3>1, <3>2 DEF ThreadTypes
    <2>5. CASE OpenReply(c) \/ Close(c) \/ ThreadFails(c) \/ ThreadExhausts(c) \/ ThreadCancelled(c)
      <3>1. UNCHANGED <<mutex, local, arrivals>>
        BY <2>5 DEF OpenReply, Close, ThreadFails, ThreadExhausts, ThreadCancelled, threads, device
      <3> QED BY <1>0, <3>1 DEF ThreadTypes, local
    <2> QED BY <1>4, <2>1, <2>2, <2>3, <2>4, <2>5 DEF Thread
  <1> QED BY <1>1, <1>2, <1>3, <1>4 DEF Next

(* ... and the history of the calls from outside. *)
LEMMA OutsideTypesStep ==
  ASSUME OutsideTypes, [Next]_vars
  PROVE  OutsideTypes'
  <1>1. CASE Outsiders
    <2>1. \E op : OutsideCall(op)
      BY <1>1 DEF Outsiders, OutsideWrite, OutsideRead, OutsideFlush
    <2> QED BY <2>1, ServerAssumption DEF OutsideCall, OutsideTypes
  <1>2. CASE ~Outsiders
    <2>1. outside' = outside /\ disturbed' \in {disturbed, FALSE}
      <3>1. CASE Main
        BY <3>1 DEF Main, set_signal_handling, open_socket, Listen, Accept, JoinTest, Join, LoopTest,
                    AfterLoop, StartFails, MainFails, graceful_socket_shutdown, history, others
      <3>2. CASE Restart \/ (\E s \in Signals : Signal(s)) \/ UNCHANGED vars \/ \E c \in Clients : Connect(c)
        BY <3>2 DEF Restart, Signal, Connect, vars, history, others
      <3>3. CASE \E c \in Clients : Thread(c)
        BY <3>3 DEF Thread, Lock, Receive, ReceiveChunk, ReceiveSeek, ReceiveClose, OpenReply, ReturnData,
             Unlock, Close, ThreadFails, ThreadExhausts, ThreadCancelled, history, others
      <3> QED BY <1>2, <3>1, <3>2, <3>3 DEF Next
    <2> QED BY <2>1 DEF OutsideTypes
  <1> QED BY <1>1, <1>2

(* The parts of TypeOK; inductive, given ThreadsInv and DeviceInv. *)
ServerTypes == MainTypes /\ ThreadTypes /\ OutsideTypes

(* The server starts with variables of these types. *)
LEMMA ServerTypesStart == Init => ServerTypes
  <1> SUFFICES ASSUME Init PROVE ServerTypes
    OBVIOUS
  <1>1. << >> \in Seq(Clients) /\ << >> \in Seq(Nat)
    OBVIOUS
  <1>2. 0 \in 0 .. MaxParts /\ 1 \in 1 .. MaxStarts /\ 0 \in 0 .. MaxOutside
    BY ServerAssumption
  <1>3. MainTypes
    BY <1>1, <1>2 DEF Init, MainTypes, MainLabels
  <1>4. ThreadTypes
    BY <1>1, <1>2 DEF Init, ThreadTypes, ThreadLabels
  <1>5. OutsideTypes
    BY <1>2 DEF Init, OutsideTypes
  <1> QED BY <1>3, <1>4, <1>5 DEF ServerTypes

(* Every step keeps them, given what is known of the list, the lock and    *)
(* the device.                                                             *)
THEOREM ServerTypesHold == Spec => []ServerTypes
  <1>1. ThreadsInv /\ ThreadsInv' /\ DeviceInv /\ ServerTypes /\ [Next]_vars => ServerTypes'
    BY MainTypesStep, ThreadTypesStep, OutsideTypesStep DEF ServerTypes, ThreadsInv
  <1> QED BY <1>1, ServerTypesStart, ThreadsInvariant, DeviceInvariant, PTL DEF Spec

(* Every variable of the server keeps its type, for any constants: the     *)
(* number of open descriptors stays between none and the limit, and replies *)
(* are sequences of stream positions.                                      *)
THEOREM ServerTypeOK == Spec => []TypeOK
  <1>1. ThreadsInv /\ DeviceInv /\ OpenInv /\ ServerTypes => TypeOK
    BY DEF ThreadsInv, DeviceInv, OpenInv, ServerTypes, MainTypes, ThreadTypes, OutsideTypes, TypeOK
  <1> QED BY <1>1, ThreadsInvariant, DeviceInvariant, OpenInvariant, ServerTypesHold, PTL

-----------------------------------------------------------------------------
(* Replies.                                                                *)

(* All commands in the ring have n bytes; position x is the start of one   *)
(* of them, or the end.                                                    *)
AllOfSize(b, n) == \A k \in 0 .. Held(b) - 1 : Nth(b, k).size = n
AtStart(b, end, x) == \E k \in 0 .. Held(b) : StartOf(b, end, 0) + x = StartOf(b, end, k)

(* Where the k-th command is whose start is looked up. *)
LEMMA ByteOfStart ==
  ASSUME NEW b, NEW end, HoldsStream(b, end), NEW x \in Nat, NEW r, NEW k, IsByteOf(b, end, x, r, k),
         AtStart(b, end, x)
  PROVE  r.byte = 0
  <1>1. PICK i \in 0 .. Held(b) : StartOf(b, end, 0) + x = StartOf(b, end, i)
    BY DEF AtStart
  <1>2. /\ k \in 0 .. Held(b) - 1 /\ r.byte \in Nat /\ r.byte < Nth(b, k).size
        /\ StartOf(b, end, k) + r.byte = StartOf(b, end, i)
    BY <1>1 DEF IsByteOf
  <1>3. /\ Held(b) \in 0 .. N /\ N \in Nat /\ \A j \in 0 .. N : StartOf(b, end, j) \in Nat
        /\ Nth(b, k).size \in Nat
    BY <1>2, HeldTypes
  <1>4. k \in Int /\ i \in Int /\ k \in 0 .. Held(b) /\ k + 1 \in 0 .. Held(b)
        /\ k \in 0 .. N /\ i \in 0 .. N /\ k + 1 \in 0 .. N
    BY <1>2, <1>3
  <1>5. StartOf(b, end, k) + Nth(b, k).size = StartOf(b, end, k + 1)
    BY <1>2 DEF HoldsStream
  <1>6. CASE i > k
    <2>1. i \in k + 1 .. Held(b)
      BY <1>3, <1>4, <1>6
    <2>2. StartOf(b, end, k + 1) <= StartOf(b, end, i)
      BY <1>4, <2>1, StartsGoUp
    <2>3. /\ StartOf(b, end, k) \in Nat /\ StartOf(b, end, k + 1) \in Nat /\ StartOf(b, end, i) \in Nat
      BY <1>3, <1>4
    <2> QED BY <1>2, <1>3, <1>5, <2>2, <2>3
  <1>7. CASE i < k
    <2>1. k \in i .. Held(b)
      BY <1>3, <1>4, <1>7
    <2>2. StartOf(b, end, i) < StartOf(b, end, k)
      BY <1>4, <1>7, <2>1, StartsGoUp
    <2>3. StartOf(b, end, k) \in Nat /\ StartOf(b, end, i) \in Nat
      BY <1>3, <1>4
    <2> QED BY <1>2, <2>2, <2>3
  <1>8. CASE i = k
    <2>1. StartOf(b, end, k) \in Nat
      BY <1>3, <1>4
    <2> QED BY <1>2, <1>8, <2>1
  <1> QED BY <1>4, <1>6, <1>7, <1>8

(* One read of a ring at rest. *)
ReadOfAll(b, x, count, n) ==
  b.total_size < count => n < count /\ (b.out_offs = 0 => x + n = b.total_size)
ReadOfWhole(b, end, x, count, n) ==
  b.out_offs = 0 /\ AllOfSize(b, count) /\ AtStart(b, end, x) => n = count /\ AtStart(b, end, x + count)

(* One read of aesd_read at a position inside the data returns bytes of    *)
(* the stream one after another from there; all that is left if everything *)
(* fits into the buffer, and one whole command if all are as long as it.   *)
LEMMA BufferRead ==
  ASSUME NEW b, NEW end, HoldsStream(b, end), NEW x \in Nat, x < b.total_size, NEW count \in Nat \ {0},
         NEW d, d = read_entries(b, x, count)
  PROVE  /\ Len(d) \in Nat \ {0} /\ Numbered(d, StartOf(b, end, 0) + x)
         /\ ReadOfAll(b, x, count, Len(d))
         /\ ReadOfWhole(b, end, x, count, Len(d))
  <1> DEFINE first == StartOf(b, end, 0)
             stop == StopOf(b, end, x)
             s == start_entry(b, x)
  <1>1. PICK k, m \in 0 .. N :
           /\ ReadsEntries(b, end, x, k, m)
           /\ \A n \in Nat \ {0} :
                Exact(Nth(b, k).size, s.byte, n, stop - (first + x)) => ReadsStream(b, end, x, n)
           /\ \A n \in Nat : ReadsOn(b, end, x, n)
    BY ReadInStream
  <1>2. /\ k \in 0 .. Held(b) - 1 /\ m \in k + 1 .. Held(b) /\ IsByteOf(b, end, x, s, k)
        /\ stop = StartOf(b, end, m) /\ stop \in Nat /\ stop <= end /\ first + x < stop
        /\ m = Held(b) \/ (b.full /\ b.out_offs + m = N)
    BY <1>1 DEF ReadsEntries
  <1>3. /\ Held(b) \in 0 .. N /\ N \in Nat /\ N > 0 /\ end \in Nat
        /\ \A i \in 0 .. N : StartOf(b, end, i) \in Nat
        /\ Nth(b, k).size \in Nat
    BY <1>2, HeldTypes
  <1>4. first \in Nat /\ b.total_size = end - first /\ b \in Buffers(Nat)
    BY <1>3 DEF HoldsStream
  <1>5. d \in Seq(Nat \X Nat)
    BY <1>4, ReadEntriesType
  <1>6. Numbered(d, first + x) /\ Len(d) > 0
    BY <1>1 DEF ReadsOn
  <1>7. Len(d) \in Nat
    BY <1>5
  <1>8. ASSUME Exact(Nth(b, k).size, s.byte, count, stop - (first + x))
        PROVE  Len(d) = IF stop - (first + x) < count THEN stop - (first + x) ELSE count
    BY <1>1, <1>8 DEF ReadsStream
  <1>9. ASSUME b.out_offs = 0 PROVE stop = end
    <2>1. m = Held(b)
      BY <1>2, <1>3, <1>9 DEF Held
    <2> QED BY <1>2, <2>1 DEF StartOf
  <1>10. k \in Int /\ k \in 0 .. Held(b) /\ k + 1 \in 0 .. Held(b) /\ k \in 0 .. N /\ k + 1 \in 0 .. N /\ m \in 0 .. N
    BY <1>2, <1>3
  <1>11. StartOf(b, end, k) + Nth(b, k).size = StartOf(b, end, k + 1)
    BY <1>2 DEF HoldsStream
  <1>12. StartOf(b, end, k + 1) <= stop
    BY <1>2, <1>10, StartsGoUp
  <1>13. StartOf(b, end, k) \in Nat /\ StartOf(b, end, k + 1) \in Nat
    BY <1>3, <1>10
  <1>14. s.byte \in Nat /\ StartOf(b, end, k) + s.byte = first + x
    BY <1>2 DEF IsByteOf
  <1>15. first <= StartOf(b, end, k)
    BY <1>3, <1>10, StartsGoUp
  <1> HIDE DEF first, stop, s
  <1>16. ReadOfAll(b, x, count, Len(d))
    <2> SUFFICES ASSUME b.total_size < count
                 PROVE  Len(d) < count /\ (b.out_offs = 0 => x + Len(d) = b.total_size)
      BY DEF ReadOfAll
    <2>1. Nth(b, k).size < count /\ stop - (first + x) < count
      BY <1>2, <1>3, <1>4, <1>11, <1>12, <1>13, <1>15
    <2>2. Exact(Nth(b, k).size, s.byte, count, stop - (first + x))
      BY <2>1 DEF Exact
    <2>3. Len(d) = stop - (first + x)
      BY <1>8, <2>1, <2>2
    <2>4. Len(d) < count
      BY <2>1, <2>3
    <2>5. ASSUME b.out_offs = 0 PROVE x + Len(d) = b.total_size
      BY <1>3, <1>4, <1>9, <2>3, <2>5
    <2> QED BY <2>4, <2>5
  <1>17. ReadOfWhole(b, end, x, count, Len(d))
    <2> SUFFICES ASSUME b.out_offs = 0, AllOfSize(b, count), AtStart(b, end, x)
                 PROVE  Len(d) = count /\ AtStart(b, end, x + count)
      BY DEF ReadOfWhole
    <2>1. s.byte = 0
      BY <1>2, ByteOfStart
    <2>2. Exact(Nth(b, k).size, s.byte, count, stop - (first + x))
      BY <2>1 DEF Exact
    <2>3. Nth(b, k).size = count
      BY <1>2 DEF AllOfSize
    <2>4. StartOf(b, end, k + 1) = first + x + count
      BY <1>4, <1>11, <1>13, <1>14, <2>1, <2>3
    <2>5. ~(stop - (first + x) < count)
      BY <1>2, <1>4, <1>12, <1>13, <2>4
    <2>6. Len(d) = count
      BY <1>8, <2>2, <2>5
    <2>7. first + (x + count) = StartOf(b, end, k + 1)
      BY <1>4, <2>4
    <2>8. AtStart(b, end, x + count)
      BY <1>10, <2>7 DEF AtStart, first
    <2> QED BY <2>6, <2>8
  <1> QED BY <1>6, <1>7, <1>16, <1>17 DEF first

(* The device holds the last part of the stream of everything committed.   *)
Streams == HoldsStream(dev.buffer, committed) /\ StartOf(dev.buffer, committed, 0) = Oldest

(* What is proved of the ring, said with the server's operators. *)
SameOldest == Device!Oldest = Oldest

(* The oldest byte of the ring is the oldest byte of the server's device. *)
LEMMA DeviceOldest == ASSUME DeviceInv PROVE SameOldest
  <1>1. dev.buffer.in_offs \in Slots /\ dev.buffer.out_offs \in Slots /\ N \in Nat /\ N > 0
    BY CapacityAssumption, DeviceFields DEF DeviceInv, Buffers
  <1>2. Device!SlotAfter(dev.buffer.out_offs, 0) = dev.buffer.out_offs
    BY <1>1 DEF Device!SlotAfter, Slots
  <1> QED BY <1>1, <1>2 DEF SameOldest, Device!Oldest, Device!Count, Device!EntryAt, Oldest, Slots

(* What HoldsMostRecent says of the ring, said of the device. *)
LEMMA DeviceStreams == ASSUME DeviceInv, Device!HoldsMostRecent PROVE Streams
  <1>1. /\ \A b : Device!Held(b) = Held(b)
        /\ \A b, k : Device!Nth(b, k) = Nth(b, k)
        /\ Device!Buffers(Nat) = Buffers(Nat)
    BY DEF Device!Held, Held, Device!Nth, Nth, Device!SlotAfter, SlotAfter,
           Device!Buffers, Buffers, Device!Slots, Slots, Device!Entries, Entries
  <1>2. \A b, e, k : Device!StartOf(b, e, k) = StartOf(b, e, k)
    BY <1>1 DEF Device!StartOf, StartOf
  <1>3. \A b, e : Device!HoldsStream(b, e) => HoldsStream(b, e)
    BY <1>1, <1>2 DEF Device!HoldsStream, HoldsStream
  <1> QED BY <1>2, <1>3, DeviceOldest DEF SameOldest, Device!HoldsMostRecent, Streams

(* The device under the server always holds the newest part of the stream. *)
THEOREM StreamsHold == Spec => []Streams
  <1>1. DeviceInv /\ Device!HoldsMostRecent => Streams
    BY DeviceStreams
  <1>2. Spec => []Device!HoldsMostRecent
    BY ServerImplementsRing, DeviceAssumed, Device!HoldsMostRecentAlways, PTL
  <1> QED BY <1>1, <1>2, DeviceInvariant, PTL

(* The oldest byte of the device never moves back: a position in a reply's *)
(* file only moves forward in the stream.                                  *)
THEOREM DeviceOldestGrows == Spec => [][Oldest' >= Oldest]_vars
  <1>1. Spec => [][Device!Oldest' >= Device!Oldest]_Device!vars
    BY ServerImplementsRing, DeviceAssumed, Device!OldestNeverGoesBack, PTL
  <1>2. Spec => []SameOldest
    <2>1. DeviceInv => SameOldest
      BY DeviceOldest
    <2> QED BY <2>1, DeviceInvariant, PTL
  <1>3. DeviceInv /\ SameOldest /\ SameOldest' /\ [Device!Oldest' >= Device!Oldest]_Device!vars
          => [Oldest' >= Oldest]_vars
    <2> SUFFICES ASSUME DeviceInv, SameOldest, SameOldest', [Device!Oldest' >= Device!Oldest]_Device!vars
                 PROVE  Oldest' >= Oldest
      OBVIOUS
    <2>1. Device!Oldest = Oldest /\ (Device!Oldest)' = Oldest'
      BY DEF SameOldest
    <2>2. CASE Device!Oldest' >= Device!Oldest
      BY <2>1, <2>2
    <2>3. CASE UNCHANGED Device!vars
      <3>1. Oldest' = Oldest
        BY <2>3 DEF Device!vars, Oldest
      <3>2. Oldest \in Nat
        BY DeviceFields DEF DeviceInv, Oldest, Buffers, Entries
      <3> QED BY <3>1, <3>2
    <2> QED BY <2>2, <2>3
  <1> QED BY <1>1, <1>2, <1>3, DeviceInvariant, PTL

(* A reply is longer by the numbers from start on. *)
Rising(r) == \A j \in 1 .. Len(r) - 1 : r[j] < r[j + 1]
Gapless(r) == \A j \in 1 .. Len(r) - 1 : r[j + 1] = r[j] + 1
From(p, start) == \A j \in 1 .. Len(p) : p[j] = start + j - 1
EndsBelow(r, x) == r # << >> => r[Len(r)] < x
EndsAt(r, x) == r # << >> => r[Len(r)] = x - 1

(* The elements of a concatenation. *)
LEMMA JoinElements ==
  ASSUME NEW r \in Seq(Nat), NEW p \in Seq(Nat), NEW q, q = r \o p
  PROVE  /\ q \in Seq(Nat) /\ Len(r) \in Nat /\ Len(p) \in Nat /\ Len(q) = Len(r) + Len(p)
         /\ \A j \in 1 .. Len(r) : q[j] = r[j] /\ r[j] \in Nat
         /\ \A j \in 1 .. Len(p) : q[Len(r) + j] = p[j]
         /\ \A j \in Len(r) + 1 .. Len(q) : q[j] = p[j - Len(r)] /\ j - Len(r) \in 1 .. Len(p)
         /\ r = << >> <=> Len(r) = 0
         /\ p = << >> <=> Len(p) = 0
         /\ q = << >> <=> Len(q) = 0
  <1>1. q \in Seq(Nat) /\ Len(r) \in Nat /\ Len(p) \in Nat /\ Len(q) = Len(r) + Len(p)
    OBVIOUS
  <1>2. \A j \in 1 .. Len(r) : q[j] = r[j] /\ r[j] \in Nat
    OBVIOUS
  <1>3. \A j \in 1 .. Len(p) : q[Len(r) + j] = p[j]
    OBVIOUS
  <1>4. \A j \in Len(r) + 1 .. Len(q) : q[j] = p[j - Len(r)] /\ j - Len(r) \in 1 .. Len(p)
    <2> TAKE j \in Len(r) + 1 .. Len(q)
    <2>1. j - Len(r) \in 1 .. Len(p) /\ j = Len(r) + (j - Len(r))
      BY <1>1
    <2> QED BY <1>3, <2>1
  <1>5. \A t \in Seq(Nat) : t = << >> <=> Len(t) = 0
    BY EmptySeq
  <1> QED BY <1>1, <1>2, <1>3, <1>4, <1>5

(* A rising reply stays so, and ends below where the next read starts. *)
LEMMA RisingJoin ==
  ASSUME NEW r \in Seq(Nat), NEW p \in Seq(Nat), NEW start \in Nat,
         Rising(r), EndsBelow(r, start), From(p, start)
  PROVE  Rising(r \o p) /\ EndsBelow(r \o p, start + Len(p))
  <1> DEFINE q == r \o p
  <1>1. /\ q \in Seq(Nat) /\ Len(r) \in Nat /\ Len(p) \in Nat /\ Len(q) = Len(r) + Len(p)
        /\ \A j \in 1 .. Len(r) : q[j] = r[j] /\ r[j] \in Nat
        /\ \A j \in Len(r) + 1 .. Len(q) : q[j] = p[j - Len(r)] /\ j - Len(r) \in 1 .. Len(p)
        /\ r = << >> <=> Len(r) = 0
        /\ q = << >> <=> Len(q) = 0
    BY JoinElements
  <1>2. \A j \in Len(r) + 1 .. Len(q) : q[j] = start + (j - Len(r)) - 1
    BY <1>1 DEF From
  <1>3. Len(r) > 0 => r[Len(r)] < start
    BY <1>1 DEF EndsBelow
  <1>4. \A j \in 1 .. Len(r) - 1 : r[j] < r[j + 1]
    BY DEF Rising
  <1> HIDE DEF q
  <1>5. ASSUME NEW j \in 1 .. Len(q) - 1 PROVE q[j] < q[j + 1]
    <2>1. CASE j < Len(r)
      <3>1. j \in 1 .. Len(r) /\ j + 1 \in 1 .. Len(r) /\ j \in 1 .. Len(r) - 1
        BY <1>1, <2>1
      <3> QED BY <1>1, <1>4, <3>1
    <2>2. CASE j = Len(r)
      <3>1. j \in 1 .. Len(r) /\ j + 1 \in Len(r) + 1 .. Len(q) /\ Len(r) > 0
        BY <1>1, <2>2
      <3>2. q[j] = r[j]
        BY <1>1, <3>1
      <3>3. q[j + 1] = start + (j + 1 - Len(r)) - 1
        BY <1>2, <3>1
      <3>4. q[j + 1] = start
        BY <1>1, <2>2, <3>3
      <3> QED BY <1>3, <2>2, <3>1, <3>2, <3>4
    <2>3. CASE j > Len(r)
      <3>1. j \in Len(r) + 1 .. Len(q) /\ j + 1 \in Len(r) + 1 .. Len(q)
        BY <1>1, <2>3
      <3>2. q[j] = start + (j - Len(r)) - 1 /\ q[j + 1] = start + (j + 1 - Len(r)) - 1
        BY <1>2, <3>1
      <3> QED BY <1>1, <3>1, <3>2
    <2> QED BY <1>1, <2>1, <2>2, <2>3
  <1>6. ASSUME Len(q) > 0 PROVE q[Len(q)] < start + Len(p)
    <2>1. CASE Len(p) = 0
      <3>1. Len(q) = Len(r) /\ Len(r) \in 1 .. Len(r)
        BY <1>1, <1>6, <2>1
      <3>2. q[Len(q)] = r[Len(r)]
        BY <1>1, <3>1
      <3> QED BY <1>1, <1>3, <1>6, <2>1, <3>1, <3>2
    <2>2. CASE Len(p) > 0
      <3>1. Len(q) \in Len(r) + 1 .. Len(q)
        BY <1>1, <2>2
      <3>2. q[Len(q)] = start + (Len(q) - Len(r)) - 1
        BY <1>2, <3>1
      <3> QED BY <1>1, <3>2
    <2> QED BY <1>1, <2>1, <2>2
  <1>7. Rising(q)
    BY <1>5 DEF Rising
  <1>8. EndsBelow(q, start + Len(p))
    BY <1>1, <1>6 DEF EndsBelow
  <1> QED BY <1>7, <1>8 DEF q

(* The same without a gap. *)
LEMMA GaplessJoin ==
  ASSUME NEW r \in Seq(Nat), NEW p \in Seq(Nat), NEW start \in Nat,
         Gapless(r), EndsAt(r, start), From(p, start)
  PROVE  /\ Gapless(r \o p) /\ EndsAt(r \o p, start + Len(p))
         /\ (r \o p)[1] = IF r # << >> THEN r[1] ELSE IF p # << >> THEN start ELSE (r \o p)[1]
         /\ r \o p = << >> <=> r = << >> /\ p = << >>
  <1> DEFINE q == r \o p
  <1>1. /\ q \in Seq(Nat) /\ Len(r) \in Nat /\ Len(p) \in Nat /\ Len(q) = Len(r) + Len(p)
        /\ \A j \in 1 .. Len(r) : q[j] = r[j] /\ r[j] \in Nat
        /\ \A j \in Len(r) + 1 .. Len(q) : q[j] = p[j - Len(r)] /\ j - Len(r) \in 1 .. Len(p)
        /\ r = << >> <=> Len(r) = 0
        /\ p = << >> <=> Len(p) = 0
        /\ q = << >> <=> Len(q) = 0
    BY JoinElements
  <1>2. \A j \in Len(r) + 1 .. Len(q) : q[j] = start + (j - Len(r)) - 1
    BY <1>1 DEF From
  <1>3. Len(r) > 0 => r[Len(r)] = start - 1
    BY <1>1 DEF EndsAt
  <1>4. \A j \in 1 .. Len(r) - 1 : r[j + 1] = r[j] + 1
    BY DEF Gapless
  <1> HIDE DEF q
  <1>5. ASSUME NEW j \in 1 .. Len(q) - 1 PROVE q[j + 1] = q[j] + 1
    <2>1. CASE j < Len(r)
      <3>1. j \in 1 .. Len(r) /\ j + 1 \in 1 .. Len(r) /\ j \in 1 .. Len(r) - 1
        BY <1>1, <2>1
      <3> QED BY <1>1, <1>4, <3>1
    <2>2. CASE j = Len(r)
      <3>1. j \in 1 .. Len(r) /\ j + 1 \in Len(r) + 1 .. Len(q) /\ Len(r) > 0
        BY <1>1, <2>2
      <3>2. q[j] = r[j]
        BY <1>1, <3>1
      <3>3. q[j + 1] = start + (j + 1 - Len(r)) - 1
        BY <1>2, <3>1
      <3>4. q[j + 1] = start
        BY <1>1, <2>2, <3>3
      <3> QED BY <1>3, <2>2, <3>1, <3>2, <3>4
    <2>3. CASE j > Len(r)
      <3>1. j \in Len(r) + 1 .. Len(q) /\ j + 1 \in Len(r) + 1 .. Len(q)
        BY <1>1, <2>3
      <3>2. q[j] = start + (j - Len(r)) - 1 /\ q[j + 1] = start + (j + 1 - Len(r)) - 1
        BY <1>2, <3>1
      <3> QED BY <1>1, <3>1, <3>2
    <2> QED BY <1>1, <2>1, <2>2, <2>3
  <1>6. ASSUME Len(q) > 0 PROVE q[Len(q)] = start + Len(p) - 1
    <2>1. CASE Len(p) = 0
      <3>1. Len(q) = Len(r) /\ Len(r) \in 1 .. Len(r)
        BY <1>1, <1>6, <2>1
      <3>2. q[Len(q)] = r[Len(r)]
        BY <1>1, <3>1
      <3> QED BY <1>1, <1>3, <1>6, <2>1, <3>1, <3>2
    <2>2. CASE Len(p) > 0
      <3>1. Len(q) \in Len(r) + 1 .. Len(q)
        BY <1>1, <2>2
      <3>2. q[Len(q)] = start + (Len(q) - Len(r)) - 1
        BY <1>2, <3>1
      <3> QED BY <1>1, <3>2
    <2> QED BY <1>1, <2>1, <2>2
  <1>7. ASSUME Len(r) > 0 PROVE q[1] = r[1]
    <2>1. 1 \in 1 .. Len(r)
      BY <1>1, <1>7
    <2> QED BY <1>1, <2>1
  <1>8. ASSUME Len(r) = 0, Len(p) > 0 PROVE q[1] = start
    <2>1. 1 \in Len(r) + 1 .. Len(q)
      BY <1>1, <1>8
    <2>2. q[1] = start + (1 - Len(r)) - 1
      BY <1>2, <2>1
    <2> QED BY <1>8, <2>2
  <1>9. Gapless(q)
    BY <1>5 DEF Gapless
  <1>10. EndsAt(q, start + Len(p))
    BY <1>1, <1>6 DEF EndsAt
  <1>11. q[1] = IF r # << >> THEN r[1] ELSE IF p # << >> THEN start ELSE q[1]
    BY <1>1, <1>7, <1>8
  <1>12. q = << >> <=> r = << >> /\ p = << >>
    BY <1>1
  <1> QED BY <1>9, <1>10, <1>11, <1>12 DEF q

(* One buffer of a reply: p is sent, read at from. *)
Sends(c, p, from, applied) ==
  /\ applied = (dev.seek /\ f_pos[c] < dev.buffer.total_size)
  /\ from = IF applied THEN dev.seekto_position ELSE f_pos[c]
  /\ IF f_pos[c] < dev.buffer.total_size /\ from < dev.buffer.total_size
     THEN /\ p # << >>
          /\ ReadOfAll(dev.buffer, from, BufSize, Len(p))
          /\ ReadOfWhole(dev.buffer, committed, from, BufSize, Len(p))
     ELSE p = << >>
  /\ From(p, Oldest + from)
  /\ f_pos' = [f_pos EXCEPT ![c] = from + Len(p)]
  /\ reply' = [reply EXCEPT ![c] = reply[c] \o p]
  /\ sought' = [sought EXCEPT ![c] = sought[c] \/ applied]
  /\ dev' = [dev EXCEPT !.seek = dev.seek /\ ~applied]
  /\ thread' = [thread EXCEPT ![c] = IF Len(p) = BufSize THEN "send" ELSE "unlock"]
  /\ UNCHANGED <<main, committed, disturbed>>

(* One read and send of return_socket_data is of that form. *)
LEMMA SendsData ==
  ASSUME DeviceInv, Streams, ThreadTypes, NEW c \in Clients, ReturnData(c)
  PROVE  \E p \in Seq(Nat), from \in Nat, applied \in BOOLEAN : Sends(c, p, from, applied)
  <1> DEFINE pos == f_pos[c]
             total == dev.buffer.total_size
             r == ReadDevice(pos, BufSize)
             applied == dev.seek /\ pos < total
             from == IF applied THEN dev.seekto_position ELSE pos
             d == read_entries(dev.buffer, from, BufSize)
             p == [j \in DOMAIN r.data |-> r.data[j][1] + r.data[j][2]]
  <1>0. pos \in Nat /\ BufSize \in Nat \ {0}
    BY ServerAssumption DEF ThreadTypes
  <1>1. r.data \in Seq(Nat \X Nat) /\ r.pos \in Nat /\ p \in Seq(Nat) /\ Len(p) = Len(r.data)
    BY <1>0, ReadTypes
  <1>2. dev.seekto_position \in Nat /\ from \in Nat /\ applied \in BOOLEAN /\ dev.seek \in BOOLEAN
    BY <1>0, DeviceFields DEF DeviceInv
  <1>3. /\ r.data = (IF pos < total /\ from < total THEN d ELSE << >>)
        /\ r.pos = from + Len(r.data) /\ r.applied = applied
    BY DEF ReadDevice, NewPos
  <1>4. /\ f_pos' = [f_pos EXCEPT ![c] = r.pos]
        /\ reply' = [reply EXCEPT ![c] = reply[c] \o p]
        /\ sought' = [sought EXCEPT ![c] = sought[c] \/ r.applied]
        /\ dev' = [dev EXCEPT !.seek = dev.seek /\ ~r.applied]
        /\ thread' = [thread EXCEPT ![c] = IF Len(r.data) = BufSize THEN "send" ELSE "unlock"]
        /\ UNCHANGED <<main, committed, disturbed>>
    BY DEF ReturnData, Goto, ReadOn, history, others
  <1> HIDE DEF r
  <1>5. DOMAIN r.data = 1 .. Len(r.data)
    BY <1>1, LenProperties
  <1>6. CASE pos < total /\ from < total
    <2>1. r.data = d
      BY <1>3, <1>6
    <2>2. HoldsStream(dev.buffer, committed) /\ StartOf(dev.buffer, committed, 0) = Oldest
      BY DEF Streams
    <2>3. /\ Len(d) \in Nat \ {0} /\ Numbered(d, Oldest + from)
          /\ ReadOfAll(dev.buffer, from, BufSize, Len(d))
          /\ ReadOfWhole(dev.buffer, committed, from, BufSize, Len(d))
      <3> HIDE DEF from, d
      <3>1. d = read_entries(dev.buffer, from, BufSize)
        BY DEF d
      <3> QED BY <1>0, <1>2, <1>6, <2>2, <3>1, BufferRead
    <2>4. From(p, Oldest + from)
      <3> HIDE DEF from, d
      <3> SUFFICES ASSUME NEW j \in 1 .. Len(p) PROVE p[j] = Oldest + from + j - 1
        BY DEF From
      <3>1. j \in 1 .. Len(d) /\ p[j] = d[j][1] + d[j][2]
        BY <1>1, <1>5, <2>1
      <3> QED BY <2>3, <3>1 DEF Numbered
    <2>5. p # << >>
      BY <1>1, <2>1, <2>3
    <2> HIDE DEF p, d, from, applied
    <2>6. Sends(c, p, from, applied)
      BY <1>1, <1>3, <1>4, <1>6, <2>1, <2>3, <2>4, <2>5 DEF Sends, from, applied
    <2> QED BY <1>1, <1>2, <2>6
  <1>7. CASE ~(pos < total /\ from < total)
    <2>1. r.data = << >> /\ Len(r.data) = 0 /\ Len(p) = 0
      BY <1>1, <1>3, <1>7
    <2>2. p = << >>
      BY <1>1, <2>1, EmptySeq
    <2>3. From(p, Oldest + from)
      BY <2>1 DEF From
    <2> HIDE DEF p, d, from, applied
    <2>4. Sends(c, p, from, applied)
      BY <1>1, <1>3, <1>4, <1>7, <2>1, <2>2, <2>3 DEF Sends, from, applied
    <2> QED BY <1>1, <1>2, <2>4
  <1> QED BY <1>6, <1>7

(* The steps that change a reply. *)
LEMMA ReplySteps ==
  ASSUME [Next]_vars
  PROVE  \/ UNCHANGED <<f_pos, reply, sought>>
         \/ Restart
         \/ \E c \in Clients : ReturnData(c) \/ Unlock(c)
  <1>1. CASE Main
    BY <1>1 DEF Main, set_signal_handling, open_socket, Listen, Accept, JoinTest, Join, LoopTest,
                AfterLoop, StartFails, MainFails, graceful_socket_shutdown, threads, local
  <1>2. CASE Outsiders \/ (\E s \in Signals : Signal(s)) \/ UNCHANGED vars \/ \E c \in Clients : Connect(c)
    BY <1>2 DEF Outsiders, OutsideWrite, OutsideRead, OutsideFlush, Signal, Connect, vars, threads, local
  <1>3. CASE \E c \in Clients : Thread(c)
    BY <1>3 DEF Thread, Lock, Receive, ReceiveChunk, ReceiveSeek, ReceiveClose, OpenReply,
         Close, ThreadFails, ThreadExhausts, ThreadCancelled, threads, local
  <1> QED BY <1>1, <1>2, <1>3 DEF Next

(* What has been sent lies before the byte that is read next. *)
ForwardInv ==
  \A c \in Clients : ~sought[c] => Rising(reply[c]) /\ EndsBelow(reply[c], Oldest + f_pos[c])

(* An empty reply is rising, and ends below everything. *)
LEMMA EmptyRises == Rising(<< >>) /\ \A x : EndsBelow(<< >>, x)
  BY DEF Rising, EndsBelow

(* Every step keeps it, since the oldest byte never moves back. *)
LEMMA ForwardStep ==
  ASSUME DeviceInv, DeviceInv', Streams, ThreadTypes, ForwardInv, [Next]_vars, Oldest' >= Oldest
  PROVE  ForwardInv'
  <1>0. Oldest \in Nat /\ Oldest' \in Nat
    BY DeviceFields DEF DeviceInv, Oldest, Buffers, Entries
  <1>1. CASE UNCHANGED <<f_pos, reply, sought>>
    <2> SUFFICES ASSUME NEW c \in Clients, ~sought'[c]
                 PROVE  Rising(reply'[c]) /\ EndsBelow(reply'[c], Oldest' + f_pos'[c])
      BY DEF ForwardInv
    <2>1. Rising(reply[c]) /\ EndsBelow(reply[c], Oldest + f_pos[c])
      BY <1>1 DEF ForwardInv
    <2>2. f_pos[c] \in Nat /\ reply[c] \in Seq(Nat)
      BY DEF ThreadTypes
    <2>3. ASSUME reply[c] # << >> PROVE reply[c][Len(reply[c])] < Oldest' + f_pos[c]
      <3>1. reply[c][Len(reply[c])] \in Nat
        <4>1. Len(reply[c]) \in 1 .. Len(reply[c])
          BY <2>2, <2>3, EmptySeq, LenProperties
        <4> QED BY <2>2, <4>1, ElementOfSeq
      <3>2. reply[c][Len(reply[c])] < Oldest + f_pos[c]
        BY <2>1, <2>3 DEF EndsBelow
      <3> QED BY <1>0, <2>2, <3>1, <3>2
    <2> QED BY <1>1, <2>1, <2>3 DEF EndsBelow
  <1>2. CASE Restart
    <2>1. \A c \in Clients : reply'[c] = << >>
      BY <1>2 DEF Restart
    <2> QED BY <2>1, EmptyRises DEF ForwardInv
  <1>3. ASSUME NEW c \in Clients, Unlock(c) PROVE ForwardInv'
    <2>1. /\ reply' = [reply EXCEPT ![c] = << >>] /\ f_pos' = [f_pos EXCEPT ![c] = 0]
          /\ sought' = [sought EXCEPT ![c] = FALSE] /\ UNCHANGED <<dev, committed>>
      BY <1>3 DEF Unlock, device
    <2>2. Oldest' = Oldest
      BY <2>1 DEF Oldest
    <2> SUFFICES ASSUME NEW d \in Clients, ~sought'[d]
                 PROVE  Rising(reply'[d]) /\ EndsBelow(reply'[d], Oldest' + f_pos'[d])
      BY DEF ForwardInv
    <2>3. CASE d = c
      <3>1. reply'[d] = << >>
        BY <2>1, <2>3 DEF ThreadTypes
      <3> QED BY <3>1, EmptyRises
    <2>4. CASE d # c
      <3>1. reply'[d] = reply[d] /\ f_pos'[d] = f_pos[d] /\ sought'[d] = sought[d]
        BY <2>1, <2>4 DEF ThreadTypes
      <3> QED BY <2>2, <3>1 DEF ForwardInv
    <2> QED BY <2>3, <2>4
  <1>4. ASSUME NEW c \in Clients, ReturnData(c) PROVE ForwardInv'
    <2>1. PICK p \in Seq(Nat), from \in Nat, applied \in BOOLEAN : Sends(c, p, from, applied)
      BY <1>4, SendsData
    <2>2. /\ reply' = [reply EXCEPT ![c] = reply[c] \o p] /\ f_pos' = [f_pos EXCEPT ![c] = from + Len(p)]
          /\ sought' = [sought EXCEPT ![c] = sought[c] \/ applied]
          /\ dev' = [dev EXCEPT !.seek = dev.seek /\ ~applied] /\ committed' = committed
          /\ From(p, Oldest + from) /\ (~applied => from = f_pos[c])
      BY <2>1 DEF Sends
    <2>3. dev'.buffer = dev.buffer
      BY <2>2, DeviceFields DEF DeviceInv
    <2>4. Oldest' = Oldest
      BY <2>2, <2>3 DEF Oldest
    <2> SUFFICES ASSUME NEW d \in Clients, ~sought'[d]
                 PROVE  Rising(reply'[d]) /\ EndsBelow(reply'[d], Oldest' + f_pos'[d])
      BY DEF ForwardInv
    <2>5. CASE d = c
      <3>1. /\ reply'[d] = reply[c] \o p /\ f_pos'[d] = from + Len(p)
            /\ sought'[d] = (sought[c] \/ applied)
            /\ reply[c] \in Seq(Nat) /\ f_pos[c] \in Nat
        BY <2>2, <2>5 DEF ThreadTypes
      <3>2. ~sought[c] /\ from = f_pos[c]
        BY <2>2, <3>1
      <3>3. Rising(reply[c]) /\ EndsBelow(reply[c], Oldest + from)
        BY <3>2 DEF ForwardInv
      <3>4. Oldest + from \in Nat
        BY <1>0
      <3>5. Rising(reply[c] \o p) /\ EndsBelow(reply[c] \o p, Oldest + from + Len(p))
        BY <2>2, <3>1, <3>3, <3>4, RisingJoin
      <3>6. Oldest + from + Len(p) = Oldest' + (from + Len(p))
        BY <1>0, <2>4
      <3> QED BY <3>1, <3>5, <3>6
    <2>6. CASE d # c
      <3>1. reply'[d] = reply[d] /\ f_pos'[d] = f_pos[d] /\ sought'[d] = sought[d]
        BY <2>2, <2>6 DEF ThreadTypes
      <3> QED BY <2>4, <3>1 DEF ForwardInv
    <2> QED BY <2>5, <2>6
  <1> QED BY <1>1, <1>2, <1>3, <1>4, ReplySteps

(* What was sent without a seek lies before the byte read next, in order,  *)
(* whoever else uses the device.                                           *)
THEOREM ForwardInvariant == Spec => []ForwardInv
  <1>1. Init => ForwardInv
    <2> SUFFICES ASSUME Init PROVE ForwardInv
      OBVIOUS
    <2>1. \A c \in Clients : reply[c] = << >>
      BY DEF Init
    <2> QED BY <2>1, EmptyRises DEF ForwardInv
  <1>2. /\ DeviceInv /\ DeviceInv' /\ Streams /\ ServerTypes /\ ForwardInv /\ [Next]_vars
        /\ [Oldest' >= Oldest]_vars
        => ForwardInv'
    <2> SUFFICES ASSUME DeviceInv, DeviceInv', Streams, ServerTypes, ForwardInv, [Next]_vars,
                        [Oldest' >= Oldest]_vars
                 PROVE  ForwardInv'
      OBVIOUS
    <2>1. Oldest' >= Oldest
      <3>1. CASE UNCHANGED vars
        <4>1. Oldest' = Oldest /\ Oldest \in Nat
          BY <3>1, DeviceFields DEF DeviceInv, Oldest, Buffers, Entries, vars, device
        <4> QED BY <4>1
      <3> QED BY <3>1
    <2> QED BY <2>1, ForwardStep DEF ServerTypes
  <1> QED BY <1>1, <1>2, DeviceInvariant, StreamsHold, ServerTypesHold, DeviceOldestGrows, PTL DEF Spec

(* Whatever others do to the device while a reply is read in several       *)
(* buffers, no byte is sent twice or out of order.                         *)
THEOREM ReplyForwardHolds == Spec => []ReplyForward
  <1>1. ForwardInv => ReplyForward
    BY DEF ForwardInv, ReplyForward, Rising
  <1> QED BY <1>1, ForwardInvariant, PTL

(* A reply has not been started; it is being read, nobody else using the   *)
(* device; it is complete.  ReplyCorrect says the last with WholeCommands. *)
Whole(b, end, x) == AllOfSize(b, BufSize) /\ AtStart(b, end, x)
AtNewest(b, end, first, start, last) ==
  b.out_offs = 0 /\ (b.total_size < BufSize \/ Whole(b, end, first - start)) => last = end - 1

FirstByte(c) == IF sought[c] THEN Oldest + dev.seekto_position ELSE Oldest
Fresh(c) == reply[c] = << >> /\ f_pos[c] = 0 /\ ~sought[c]
Started(c) ==
  /\ reply[c] # << >> /\ Gapless(reply[c]) /\ reply[c][1] = FirstByte(c)
  /\ EndsAt(reply[c], Oldest + f_pos[c])
  /\ ~dev.seek /\ ~(dev.buffer.total_size < BufSize)
  /\ dev.buffer.out_offs = 0 /\ Whole(dev.buffer, committed, reply[c][1] - Oldest)
       => AtStart(dev.buffer, committed, f_pos[c])
Sent(c) ==
  /\ Gapless(reply[c])
  /\ (reply[c] = << >> \/ dev.seek) => (sought[c] \/ dev.buffer.total_size = 0)
  /\ reply[c] # << >> =>
       /\ reply[c][1] = FirstByte(c)
       /\ AtNewest(dev.buffer, committed, reply[c][1], Oldest, reply[c][Len(reply[c])])

ClientReply(c) ==
  /\ thread[c] \notin {"send", "unlock", "cancelled"} => Fresh(c)
  /\ Running /\ ~disturbed /\ thread[c] = "send" => Fresh(c) \/ Started(c)
  /\ Running /\ ~disturbed /\ thread[c] = "unlock" => Sent(c)

ReplyInv == \A c \in Clients : ClientReply(c)

(* The numbers of the device. *)
LEMMA StreamNumbers ==
  ASSUME DeviceInv, Streams
  PROVE  /\ Oldest \in Nat /\ committed \in Nat /\ Oldest <= committed
         /\ dev.buffer.total_size = committed - Oldest
         /\ dev.seekto_position \in Nat
         /\ \A x \in Nat : AtStart(dev.buffer, committed, x) => Oldest + x <= committed
  <1> DEFINE b == dev.buffer
  <1>1. HoldsStream(b, committed) /\ StartOf(b, committed, 0) = Oldest
    BY DEF Streams
  <1>2. /\ Held(b) \in 0 .. N /\ N \in Nat /\ committed \in Nat
        /\ \A k \in 0 .. N : StartOf(b, committed, k) \in Nat
    BY <1>1, HeldTypes
  <1>3. StartOf(b, committed, Held(b)) = committed
    BY <1>2 DEF StartOf
  <1>4. \A k \in 0 .. Held(b) : StartOf(b, committed, k) <= committed
    <2> TAKE k \in 0 .. Held(b)
    <2>1. Held(b) \in k .. Held(b)
      BY <1>2
    <2> QED BY <1>1, <1>3, <2>1, StartsGoUp
  <1>5. b.total_size = committed - Oldest
    BY <1>1 DEF HoldsStream
  <1>6. Oldest \in Nat /\ Oldest <= committed
    <2>1. 0 \in 0 .. N /\ 0 \in 0 .. Held(b)
      BY <1>2
    <2>2. StartOf(b, committed, 0) \in Nat /\ StartOf(b, committed, 0) <= committed
      BY <1>2, <1>4, <2>1
    <2> QED BY <1>1, <2>2
  <1>7. dev.seekto_position \in Nat
    BY DeviceFields DEF DeviceInv
  <1>8. \A x \in Nat : AtStart(b, committed, x) => Oldest + x <= committed
    BY <1>1, <1>4 DEF AtStart
  <1> QED BY <1>2, <1>5, <1>6, <1>7, <1>8

(* What a buffer sent does to the variables that a reply is about. *)
LEMMA AfterSend ==
  ASSUME DeviceInv, ThreadTypes, NEW c \in Clients, NEW p \in Seq(Nat), NEW from \in Nat,
         NEW applied \in BOOLEAN, Sends(c, p, from, applied)
  PROVE  /\ dev'.buffer = dev.buffer /\ dev'.seekto_position = dev.seekto_position
         /\ dev'.seek = (dev.seek /\ ~applied) /\ committed' = committed /\ Oldest' = Oldest
         /\ reply'[c] = reply[c] \o p /\ f_pos'[c] = from + Len(p) /\ sought'[c] = (sought[c] \/ applied)
         /\ \A d \in Clients \ {c} : reply'[d] = reply[d] /\ f_pos'[d] = f_pos[d] /\ sought'[d] = sought[d]
         /\ \A d \in Clients \ {c} : thread'[d] = thread[d]
         /\ thread'[c] = IF Len(p) = BufSize THEN "send" ELSE "unlock"
  <1>1. /\ f_pos' = [f_pos EXCEPT ![c] = from + Len(p)]
        /\ reply' = [reply EXCEPT ![c] = reply[c] \o p]
        /\ sought' = [sought EXCEPT ![c] = sought[c] \/ applied]
        /\ dev' = [dev EXCEPT !.seek = dev.seek /\ ~applied]
        /\ thread' = [thread EXCEPT ![c] = IF Len(p) = BufSize THEN "send" ELSE "unlock"]
        /\ UNCHANGED <<main, committed, disturbed>>
    BY DEF Sends
  <1>2. /\ dev'.buffer = dev.buffer /\ dev'.seekto_position = dev.seekto_position
        /\ dev'.seek = (dev.seek /\ ~applied)
    BY <1>1, DeviceFields DEF DeviceInv
  <1>3. Oldest' = Oldest
    BY <1>1, <1>2 DEF Oldest
  <1>4. /\ reply'[c] = reply[c] \o p /\ f_pos'[c] = from + Len(p) /\ sought'[c] = (sought[c] \/ applied)
        /\ thread'[c] = IF Len(p) = BufSize THEN "send" ELSE "unlock"
    BY <1>1 DEF ThreadTypes
  <1>5. \A d \in Clients \ {c} : /\ reply'[d] = reply[d] /\ f_pos'[d] = f_pos[d]
                                 /\ sought'[d] = sought[d] /\ thread'[d] = thread[d]
    BY <1>1 DEF ThreadTypes
  <1> QED BY <1>1, <1>2, <1>3, <1>4, <1>5

(* A first buffer alone. *)
LEMMA OneBuffer ==
  ASSUME NEW p \in Seq(Nat), NEW start \in Nat, From(p, start)
  PROVE  Gapless(p) /\ EndsAt(p, start + Len(p)) /\ (p # << >> => p[1] = start)
  <1>1. Len(p) \in Nat /\ (p # << >> => Len(p) > 0)
    BY EmptySeq
  <1>2. ASSUME NEW j \in 1 .. Len(p) - 1 PROVE p[j + 1] = p[j] + 1
    <2>1. j \in 1 .. Len(p) /\ j + 1 \in 1 .. Len(p)
      BY <1>1
    <2>2. p[j] = start + j - 1 /\ p[j + 1] = start + (j + 1) - 1
      BY <2>1 DEF From
    <2> QED BY <2>2
  <1>3. ASSUME p # << >> PROVE p[1] = start /\ p[Len(p)] = start + Len(p) - 1
    <2>1. 1 \in 1 .. Len(p) /\ Len(p) \in 1 .. Len(p)
      BY <1>1, <1>3
    <2> QED BY <2>1 DEF From
  <1> QED BY <1>2, <1>3 DEF Gapless, EndsAt

(* Nothing was sent before. *)
LEMMA FirstSend ==
  ASSUME DeviceInv, Streams, ThreadTypes, NEW c \in Clients, NEW p \in Seq(Nat), NEW from \in Nat,
         NEW applied \in BOOLEAN, Sends(c, p, from, applied), Fresh(c)
  PROVE  (IF Len(p) = BufSize THEN Started(c) ELSE Sent(c))'
  <1> DEFINE b == dev.buffer
             start == Oldest + from
  <1>1. /\ dev'.buffer = b /\ dev'.seekto_position = dev.seekto_position
        /\ dev'.seek = (dev.seek /\ ~applied) /\ committed' = committed /\ Oldest' = Oldest
        /\ reply'[c] = reply[c] \o p /\ f_pos'[c] = from + Len(p) /\ sought'[c] = (sought[c] \/ applied)
    BY AfterSend
  <1>2. /\ Oldest \in Nat /\ committed \in Nat /\ Oldest <= committed
        /\ b.total_size = committed - Oldest /\ dev.seekto_position \in Nat
        /\ \A x \in Nat : AtStart(b, committed, x) => Oldest + x <= committed
    BY StreamNumbers
  <1>3. reply[c] = << >> /\ f_pos[c] = 0 /\ ~sought[c] /\ << >> \in Seq(Nat)
    BY DEF Fresh
  <1>4. reply'[c] = p
    BY <1>1, <1>3
  <1>5. BufSize \in Nat \ {0} /\ Len(p) \in Nat /\ start \in Nat
    BY <1>2, ServerAssumption
  <1>6. /\ applied = (dev.seek /\ 0 < b.total_size)
        /\ from = IF applied THEN dev.seekto_position ELSE 0
        /\ IF 0 < b.total_size /\ from < b.total_size
           THEN /\ p # << >>
                /\ ReadOfAll(b, from, BufSize, Len(p))
                /\ ReadOfWhole(b, committed, from, BufSize, Len(p))
           ELSE p = << >>
        /\ From(p, start)
    BY <1>3 DEF Sends
  <1>7. sought'[c] = applied
    BY <1>1, <1>3
  <1>8. /\ Gapless(p) /\ EndsAt(p, start + Len(p)) /\ (p # << >> => p[1] = start)
    BY <1>5, <1>6, OneBuffer
  <1>9. start = FirstByte(c)'
    <2>1. FirstByte(c)' = IF sought'[c] THEN Oldest' + dev'.seekto_position ELSE Oldest'
      BY DEF FirstByte
    <2> QED BY <1>1, <1>2, <1>6, <1>7, <2>1
  <1> HIDE DEF b, start
  <1>10. CASE p = << >>
    <2>1. Len(p) = 0
      BY <1>10
    <2>2. applied \/ b.total_size = 0
      BY <1>2, <1>6, <1>10
    <2>3. Sent(c)'
      BY <1>1, <1>4, <1>7, <1>8, <1>10, <2>2 DEF Sent
    <2> QED BY <1>5, <2>1, <2>3
  <1>11. CASE p # << >>
    <2>1. /\ 0 < b.total_size /\ from < b.total_size
          /\ ReadOfAll(b, from, BufSize, Len(p)) /\ ReadOfWhole(b, committed, from, BufSize, Len(p))
      BY <1>6, <1>11
    <2>2. ~dev'.seek
      BY <1>1, <1>6, <2>1
    <2>3. p[1] = start /\ p[1] - Oldest = from
      BY <1>2, <1>8, <1>11 DEF start
    <2>4. p[Len(p)] = start + Len(p) - 1
      BY <1>8, <1>11 DEF EndsAt
    <2>5. CASE Len(p) = BufSize
      <3>1. ~(b.total_size < BufSize)
        BY <1>5, <2>1, <2>5 DEF ReadOfAll
      <3>2. b.out_offs = 0 /\ Whole(b, committed, from) => AtStart(b, committed, from + Len(p))
        BY <2>1, <2>5 DEF ReadOfWhole, Whole
      <3>3. start + Len(p) = Oldest' + f_pos'[c]
        BY <1>1, <1>2, <1>5 DEF start
      <3>4. Started(c)'
        BY <1>1, <1>4, <1>8, <1>9, <1>11, <2>2, <2>3, <3>1, <3>2, <3>3 DEF Started
      <3> QED BY <2>5, <3>4
    <2>6. CASE Len(p) # BufSize
      <3>1. AtNewest(b, committed, p[1], Oldest, p[Len(p)])
        <4> SUFFICES ASSUME b.out_offs = 0, b.total_size < BufSize \/ Whole(b, committed, from)
                     PROVE  p[Len(p)] = committed - 1
          BY <2>3 DEF AtNewest
        <4>1. b.total_size < BufSize
          BY <2>1, <2>6 DEF ReadOfWhole, Whole
        <4>2. from + Len(p) = b.total_size
          BY <2>1, <4>1 DEF ReadOfAll
        <4> QED BY <1>2, <1>5, <2>4, <4>2 DEF start
      <3>2. Sent(c)'
        BY <1>1, <1>4, <1>8, <1>9, <1>11, <2>2, <2>3, <3>1 DEF Sent
      <3> QED BY <2>6, <3>2
    <2> QED BY <2>5, <2>6
  <1> QED BY <1>10, <1>11

(* Something was sent before. *)
LEMMA NextSend ==
  ASSUME DeviceInv, Streams, ThreadTypes, NEW c \in Clients, NEW p \in Seq(Nat), NEW from \in Nat,
         NEW applied \in BOOLEAN, Sends(c, p, from, applied), Started(c)
  PROVE  (IF Len(p) = BufSize THEN Started(c) ELSE Sent(c))'
  <1> DEFINE b == dev.buffer
             start == Oldest + from
             r == reply[c]
             q == reply'[c]
  <1>1. /\ dev'.buffer = b /\ dev'.seekto_position = dev.seekto_position
        /\ dev'.seek = (dev.seek /\ ~applied) /\ committed' = committed /\ Oldest' = Oldest
        /\ q = r \o p /\ f_pos'[c] = from + Len(p) /\ sought'[c] = (sought[c] \/ applied)
    BY AfterSend
  <1>2. /\ Oldest \in Nat /\ committed \in Nat /\ Oldest <= committed
        /\ b.total_size = committed - Oldest /\ dev.seekto_position \in Nat
        /\ \A x \in Nat : AtStart(b, committed, x) => Oldest + x <= committed
    BY StreamNumbers
  <1>3. /\ r # << >> /\ Gapless(r) /\ r[1] = FirstByte(c) /\ EndsAt(r, Oldest + f_pos[c])
        /\ ~dev.seek /\ ~(b.total_size < BufSize)
        /\ b.out_offs = 0 /\ Whole(b, committed, r[1] - Oldest) => AtStart(b, committed, f_pos[c])
    BY DEF Started
  <1>4. ~applied /\ from = f_pos[c]
    BY <1>3 DEF Sends
  <1>5. BufSize \in Nat \ {0} /\ Len(p) \in Nat /\ start \in Nat /\ r \in Seq(Nat)
    <2>1. r \in Seq(Nat)
      BY DEF ThreadTypes
    <2>2. Len(p) \in Nat /\ start \in Nat
      BY <1>2
    <2> QED BY <2>1, <2>2, ServerAssumption
  <1>6. /\ IF from < b.total_size
           THEN ReadOfWhole(b, committed, from, BufSize, Len(p))
           ELSE p = << >>
        /\ From(p, start)
    BY <1>4 DEF Sends
  <1>7. ~dev'.seek /\ sought'[c] = sought[c]
    BY <1>1, <1>3, <1>4 DEF ThreadTypes
  <1>8. FirstByte(c)' = FirstByte(c)
    BY <1>1, <1>7 DEF FirstByte
  <1>9. EndsAt(r, start)
    BY <1>3, <1>4
  <1> HIDE DEF b, start, r, q
  <1>10. Gapless(q) /\ EndsAt(q, start + Len(p)) /\ q[1] = r[1] /\ q # << >>
    <2>1. /\ Gapless(r \o p) /\ EndsAt(r \o p, start + Len(p))
          /\ (r \o p)[1] = IF r # << >> THEN r[1] ELSE IF p # << >> THEN start ELSE (r \o p)[1]
          /\ r \o p = << >> <=> r = << >> /\ p = << >>
      BY <1>3, <1>5, <1>6, <1>9, GaplessJoin
    <2> QED BY <1>1, <1>3, <2>1
  <1>11. CASE Len(p) = BufSize
    <2>1. p # << >>
      BY <1>5, <1>11
    <2>2. from < b.total_size /\ ReadOfWhole(b, committed, from, BufSize, Len(p))
      BY <1>6, <2>1
    <2>3. b.out_offs = 0 /\ Whole(b, committed, q[1] - Oldest) => AtStart(b, committed, from + Len(p))
      BY <1>3, <1>4, <1>10, <1>11, <2>2 DEF ReadOfWhole, Whole
    <2>4. start + Len(p) = Oldest' + f_pos'[c]
      BY <1>1, <1>2, <1>5 DEF start
    <2>5. Started(c)'
      BY <1>1, <1>3, <1>7, <1>8, <1>10, <2>3, <2>4 DEF Started, q
    <2> QED BY <1>11, <2>5
  <1>12. CASE Len(p) # BufSize
    <2>1. AtNewest(b, committed, q[1], Oldest, q[Len(q)])
      <3> SUFFICES ASSUME b.out_offs = 0, Whole(b, committed, r[1] - Oldest)
                   PROVE  q[Len(q)] = committed - 1
        BY <1>3, <1>10 DEF AtNewest
      <3>1. AtStart(b, committed, from) /\ AllOfSize(b, BufSize)
        BY <1>3, <1>4 DEF Whole
      <3>2. ~(from < b.total_size) /\ p = << >>
        BY <1>6, <1>12, <3>1 DEF ReadOfWhole
      <3>3. start = committed /\ Len(p) = 0
        BY <1>2, <3>1, <3>2 DEF start
      <3>4. EndsAt(q, committed)
        BY <1>2, <1>10, <3>3
      <3> QED BY <1>10, <3>4 DEF EndsAt
    <2>2. Sent(c)'
      BY <1>1, <1>3, <1>7, <1>8, <1>10, <2>1 DEF Sent, q
    <2> QED BY <1>12, <2>2
  <1> QED BY <1>11, <1>12

(* A client's reply that a step leaves alone, when nobody reads it or the  *)
(* device is left alone too, or the reply is disturbed.                    *)
LEMMA OtherReply ==
  ASSUME NEW d \in Clients, ClientReply(d), thread'[d] = thread[d],
         reply'[d] = reply[d], f_pos'[d] = f_pos[d], sought'[d] = sought[d],
         \/ thread[d] \notin {"send", "unlock"}
         \/ ~Running' \/ disturbed'
         \/ Running /\ UNCHANGED <<dev.buffer, dev.seek, dev.seekto_position, committed, disturbed>>
  PROVE  ClientReply(d)'
  <1>1. Fresh(d)' <=> Fresh(d)
    BY DEF Fresh
  <1>2. CASE thread[d] \notin {"send", "unlock"} \/ ~Running' \/ disturbed'
    BY <1>1, <1>2 DEF ClientReply
  <1>3. CASE Running /\ UNCHANGED <<dev.buffer, dev.seek, dev.seekto_position, committed, disturbed>>
    <2>1. Oldest' = Oldest
      BY <1>3 DEF Oldest
    <2>2. FirstByte(d)' = FirstByte(d)
      BY <1>3, <2>1 DEF FirstByte
    <2>3. Started(d)' <=> Started(d)
      BY <1>3, <2>1, <2>2 DEF Started
    <2>4. Sent(d)' <=> Sent(d)
      BY <1>3, <2>1, <2>2 DEF Sent
    <2> QED BY <1>1, <1>3, <2>3, <2>4 DEF ClientReply
  <1> QED BY <1>2, <1>3

(* A thread that moves and touches neither its reply nor the device. *)
LEMMA MoveReply ==
  ASSUME ThreadTypes, ReplyInv, NEW c \in Clients, NEW to, thread' = [thread EXCEPT ![c] = to], Running,
         UNCHANGED <<f_pos, reply, sought, dev, committed, disturbed>>,
         to = "cancelled" \/ (thread[c] \notin {"send", "unlock", "cancelled"} /\ to # "unlock")
  PROVE  ReplyInv'
  <1>1. ClientReply(c)'
    BY DEF ThreadTypes, ReplyInv, ClientReply, Fresh
  <1>2. ASSUME NEW d \in Clients, d # c PROVE ClientReply(d)'
    <2>1. ClientReply(d) /\ thread'[d] = thread[d]
      BY <1>2 DEF ReplyInv, ThreadTypes
    <2> QED BY <2>1, OtherReply
  <1> QED BY <1>1, <1>2 DEF ReplyInv

(* The thread with the mutex has not started its reply; nobody else has. *)
LEMMA ReceiveReply ==
  ASSUME ThreadTypes, ReplyInv, NEW c \in Clients,
         thread[c] \in {"start", "recv"}, thread'[c] \in {"recv", "open"},
         UNCHANGED <<f_pos, reply, sought>>,
         \A d \in Clients \ {c} : thread'[d] = thread[d] /\ thread[d] \notin Critical
  PROVE  ReplyInv'
  <1>1. ClientReply(c)'
    BY DEF ThreadTypes, ReplyInv, ClientReply, Fresh
  <1>2. ASSUME NEW d \in Clients, d # c PROVE ClientReply(d)'
    <2>1. ClientReply(d) /\ thread'[d] = thread[d] /\ thread[d] \notin {"send", "unlock"}
      BY <1>2 DEF ReplyInv, Critical
    <2> QED BY <2>1, OtherReply
  <1> QED BY <1>1, <1>2 DEF ReplyInv

(* A step that leaves all replies alone, and the device too unless it      *)
(* disturbs them.                                                          *)
LEMMA StayReply ==
  ASSUME ReplyInv, UNCHANGED <<thread, f_pos, reply, sought>>,
         \/ ~Running' \/ disturbed'
         \/ Running /\ UNCHANGED <<dev, committed, disturbed>>
  PROVE  ReplyInv'
  <1> SUFFICES ASSUME NEW d \in Clients PROVE ClientReply(d)'
    BY DEF ReplyInv
  <1>1. ClientReply(d)
    BY DEF ReplyInv
  <1> QED BY <1>1, OtherReply

(* One more buffer of a reply. *)
LEMMA ReturnReply ==
  ASSUME ServerLockInv, DeviceInv, Streams, ThreadTypes, ReplyInv, NEW c \in Clients, ReturnData(c)
  PROVE  ReplyInv'
  <1>1. PICK p \in Seq(Nat), from \in Nat, applied \in BOOLEAN : Sends(c, p, from, applied)
    BY SendsData
  <1>2. /\ Running /\ thread[c] = "send" /\ Running' /\ disturbed' = disturbed
        /\ \A d \in Clients \ {c} : thread[d] \notin Critical
    BY ServerAssumption
       DEF ReturnData, ServerLockInv, ServerMutex, Critical, Running, history, others
  <1>3. /\ thread'[c] = IF Len(p) = BufSize THEN "send" ELSE "unlock"
        /\ \A d \in Clients \ {c} : /\ reply'[d] = reply[d] /\ f_pos'[d] = f_pos[d]
                                    /\ sought'[d] = sought[d] /\ thread'[d] = thread[d]
    BY <1>1, AfterSend
  <1>4. ASSUME ~disturbed PROVE (IF Len(p) = BufSize THEN Started(c) ELSE Sent(c))'
    <2>1. Fresh(c) \/ Started(c)
      BY <1>2, <1>4 DEF ReplyInv, ClientReply
    <2>2. CASE Fresh(c)
      BY <1>1, <2>2, FirstSend
    <2>3. CASE Started(c)
      BY <1>1, <2>3, NextSend
    <2> QED BY <2>1, <2>2, <2>3
  <1>5. ClientReply(c)'
    BY <1>2, <1>3, <1>4 DEF ClientReply
  <1>6. ASSUME NEW d \in Clients, d # c PROVE ClientReply(d)'
    <2>1. /\ ClientReply(d) /\ thread'[d] = thread[d] /\ thread[d] \notin {"send", "unlock"}
          /\ reply'[d] = reply[d] /\ f_pos'[d] = f_pos[d] /\ sought'[d] = sought[d]
      BY <1>2, <1>3, <1>6 DEF ReplyInv, Critical
    <2> QED BY <2>1, OtherReply
  <1> QED BY <1>5, <1>6 DEF ReplyInv

(* The reply is complete and forgotten. *)
LEMMA UnlockReply ==
  ASSUME ThreadTypes, ReplyInv, NEW c \in Clients, Unlock(c)
  PROVE  ReplyInv'
  <1>1. /\ reply' = [reply EXCEPT ![c] = << >>] /\ f_pos' = [f_pos EXCEPT ![c] = 0]
        /\ sought' = [sought EXCEPT ![c] = FALSE] /\ thread' = [thread EXCEPT ![c] = "close"]
        /\ Running /\ UNCHANGED <<dev, committed, disturbed>>
    BY DEF Unlock, Goto, device, history, others
  <1>2. Fresh(c)' /\ thread'[c] = "close"
    BY <1>1 DEF Fresh, ThreadTypes
  <1>3. ClientReply(c)'
    BY <1>2 DEF ClientReply
  <1>4. ASSUME NEW d \in Clients, d # c PROVE ClientReply(d)'
    <2>1. /\ ClientReply(d) /\ thread'[d] = thread[d]
          /\ reply'[d] = reply[d] /\ f_pos'[d] = f_pos[d] /\ sought'[d] = sought[d]
      BY <1>1, <1>4 DEF ReplyInv, ThreadTypes
    <2> QED BY <1>1, <2>1, OtherReply
  <1> QED BY <1>3, <1>4 DEF ReplyInv

(* Every step of a thread keeps what is known of the replies. *)
LEMMA ThreadReply ==
  ASSUME ServerLockInv, DeviceInv, Streams, ThreadTypes, ReplyInv, NEW c \in Clients, Thread(c)
  PROVE  ReplyInv'
  <1>1. CASE Lock(c)
    <2>1. /\ Running /\ thread[c] = "start" /\ mutex = Free /\ thread'[c] = "recv"
          /\ UNCHANGED <<f_pos, reply, sought>>
          /\ \A d \in Clients \ {c} : thread'[d] = thread[d]
      BY <1>1 DEF Lock, Lockable, Goto, local, ThreadTypes
    <2>2. \A d \in Clients : thread[d] \notin Critical
      BY <2>1, ServerAssumption DEF ServerLockInv, ServerMutex
    <2> QED BY <2>1, <2>2, ReceiveReply
  <1>2. CASE Receive(c)
    <2>1. PICK m \in Messages : ReceiveChunk(c, m) \/ ReceiveSeek(c, m) \/ ReceiveClose(c, m)
      BY <1>2 DEF Receive
    <2>2. CASE ReceiveChunk(c, m) \/ ReceiveSeek(c, m)
      <3>1. /\ Running /\ thread[c] = "recv" /\ UNCHANGED <<f_pos, reply, sought>>
            /\ thread' = thread \/ thread' = [thread EXCEPT ![c] = "open"]
        BY <2>2 DEF ReceiveChunk, ReceiveSeek, Goto
      <3>2. /\ thread'[c] \in {"recv", "open"}
            /\ \A d \in Clients \ {c} : thread'[d] = thread[d]
        BY <3>1 DEF ThreadTypes
      <3>3. \A d \in Clients \ {c} : thread[d] \notin Critical
        BY <3>1, ServerAssumption DEF ServerLockInv, ServerMutex, Critical
      <3> QED BY <3>1, <3>2, <3>3, ReceiveReply
    <2>3. CASE ReceiveClose(c, m)
      <3>1. ~Running' /\ UNCHANGED <<thread, f_pos, reply, sought>>
        BY <2>3 DEF ReceiveClose, Exit, Running, threads, local
      <3> QED BY <3>1, StayReply
    <2> QED BY <2>1, <2>2, <2>3
  <1>3. CASE OpenReply(c) \/ Close(c) \/ ThreadCancelled(c)
    <2>1. /\ Running /\ UNCHANGED <<f_pos, reply, sought, dev, committed, disturbed>>
          /\ \/ thread[c] = "open" /\ thread' = [thread EXCEPT ![c] = "send"]
             \/ thread[c] = "close" /\ thread' = [thread EXCEPT ![c] = "done"]
             \/ thread' = [thread EXCEPT ![c] = "cancelled"]
      BY <1>3 DEF OpenReply, Close, ThreadCancelled, Goto, local, device, history, others
    <2> QED BY <2>1, MoveReply
  <1>4. CASE ReturnData(c)
    BY <1>4, ReturnReply
  <1>5. CASE Unlock(c)
    BY <1>5, UnlockReply
  <1>6. CASE ThreadFails(c) \/ ThreadExhausts(c)
    <2>1. ~Running' /\ UNCHANGED <<thread, f_pos, reply, sought>>
      BY <1>6 DEF ThreadFails, ThreadExhausts, Exit, Running, threads, local
    <2> QED BY <2>1, StayReply
  <1> QED BY <1>1, <1>2, <1>3, <1>4, <1>5, <1>6 DEF Thread

(* Every step keeps it. *)
LEMMA ReplyStep ==
  ASSUME ServerLockInv, DeviceInv, Streams, ThreadTypes, ReplyInv, [Next]_vars
  PROVE  ReplyInv'
  <1>1. CASE \E c \in Clients : Accept(c) \/ Connect(c)
    <2>1. PICK c \in Clients : Accept(c) \/ Connect(c)
      BY <1>1
    <2>2. /\ Running /\ UNCHANGED <<f_pos, reply, sought, dev, committed, disturbed>>
          /\ \/ thread[c] = "waiting" /\ thread' = [thread EXCEPT ![c] = "start"]
             \/ thread[c] = "away" /\ thread' = [thread EXCEPT ![c] = "waiting"]
      BY <2>1 DEF Accept, Connect, Goto, Running, local, device, history, others
    <2> QED BY <2>2, MoveReply
  <1>2. CASE Main /\ ~\E c \in Clients : Accept(c)
    <2>1. Running /\ UNCHANGED <<thread, f_pos, reply, sought, dev, committed, disturbed>>
      BY <1>2 DEF Main, set_signal_handling, open_socket, Listen, JoinTest, Join, LoopTest, AfterLoop,
                  StartFails, MainFails, graceful_socket_shutdown, Running, MainOpens,
                  threads, local, device, history, others
    <2> QED BY <2>1, StayReply
  <1>3. CASE Restart
    <2>1. \A c \in Clients : Fresh(c)' /\ thread'[c] \notin {"send", "unlock"}
      BY <1>3 DEF Restart, Fresh
    <2> QED BY <2>1 DEF ReplyInv, ClientReply
  <1>4. CASE Outsiders
    <2>1. disturbed' /\ UNCHANGED <<thread, f_pos, reply, sought>>
      BY <1>4 DEF Outsiders, OutsideWrite, OutsideRead, OutsideFlush, OutsideCall, threads, local
    <2> QED BY <2>1, StayReply
  <1>5. CASE \E s \in Signals : Signal(s)
    <2>1. Running /\ UNCHANGED <<thread, f_pos, reply, sought, dev, committed, disturbed>>
      BY <1>5 DEF Signal, threads, local, device, history, others
    <2> QED BY <2>1, StayReply
  <1>6. ASSUME NEW c \in Clients, Thread(c) PROVE ReplyInv'
    BY <1>6, ThreadReply
  <1>7. CASE UNCHANGED vars
    <2>1. /\ UNCHANGED <<thread, f_pos, reply, sought, dev, committed, disturbed>>
          /\ Running' \in BOOLEAN /\ (Running' <=> Running)
      BY <1>7 DEF vars, threads, local, device, history, others, Running
    <2>2. ~Running' \/ Running
      BY <2>1
    <2> QED BY <2>1, <2>2, StayReply
  <1> QED BY <1>1, <1>2, <1>3, <1>4, <1>5, <1>6, <1>7 DEF Next

(* While nobody else uses the device, a reply is a gapless piece of it. *)
THEOREM ReplyInvariant == Spec => []ReplyInv
  <1>1. Init => ReplyInv
    BY DEF Init, ReplyInv, ClientReply, Fresh
  <1>2. ServerLockInv /\ DeviceInv /\ Streams /\ ServerTypes /\ ReplyInv /\ [Next]_vars => ReplyInv'
    BY ReplyStep DEF ServerTypes
  <1> QED BY <1>1, <1>2, ServerLockInvariant, DeviceInvariant, StreamsHold, ServerTypesHold, PTL DEF Spec

(* WholeCommands in terms of the ring's order of commands. *)
LEMMA WholeIs ==
  ASSUME DeviceInv, Streams, NEW first, WholeCommands(first), dev.buffer.out_offs = 0
  PROVE  Whole(dev.buffer, committed, first - Oldest)
  <1> DEFINE b == dev.buffer
  <1>1. b \in Buffers(Nat) /\ HoldsStream(b, committed) /\ StartOf(b, committed, 0) = Oldest
    BY DeviceFields DEF DeviceInv, Streams
  <1>2. /\ Held(b) \in 0 .. N /\ N \in Nat /\ N > 0 /\ committed \in Nat
        /\ \A k \in 0 .. N : StartOf(b, committed, k) \in Nat
    BY <1>1, HeldTypes
  <1>3. b.in_offs \in 0 .. N - 1 /\ b.full \in BOOLEAN
    BY <1>1 DEF Buffers, Slots
  <1>4. \A i : i \in 0 .. Held(b) - 1 <=> i \in Slots /\ (b.full \/ i < b.in_offs)
    BY <1>2, <1>3 DEF Held, Slots
  <1>5. \A i \in 0 .. Held(b) - 1 : Nth(b, i) = b.entry[i]
    BY <1>2 DEF Nth, SlotAfter
  <1>6. AllOfSize(b, BufSize)
    BY <1>4, <1>5 DEF AllOfSize, WholeCommands
  <1>7. PICK i \in 0 .. Held(b) - 1 : first = b.entry[i].buffptr
    BY <1>4 DEF WholeCommands
  <1>8. first = StartOf(b, committed, i) /\ i \in 0 .. Held(b) /\ i \in 0 .. N
    BY <1>2, <1>5, <1>7 DEF StartOf
  <1>9. Oldest + (first - Oldest) = StartOf(b, committed, i)
    BY <1>1, <1>2, <1>8
  <1>10. AtStart(b, committed, first - Oldest)
    BY <1>1, <1>8, <1>9 DEF AtStart
  <1> QED BY <1>6, <1>10 DEF Whole

(* When a thread of the server is done with its reply the client has been  *)
(* sent a gapless piece of what the device holds, from the oldest byte or  *)
(* the position sought, to the newest where the reads are exact, for any   *)
(* buffer size, capacity, commands and number of clients: between the lock *)
(* and the unlock no other thread of the server changes the device.        *)
THEOREM ReplyCorrectHolds == Spec => []ReplyCorrect
  <1>1. DeviceInv /\ Streams /\ ReplyInv => ReplyCorrect
    <2> SUFFICES ASSUME DeviceInv, Streams, ReplyInv,
                        NEW c \in Clients, Running, thread[c] = "unlock", ~disturbed
                 PROVE  LET r == reply[c]
                        IN  /\ \A j \in 1 .. Len(r) - 1 : r[j + 1] = r[j] + 1
                            /\ (r = << >> \/ dev.seek) => (sought[c] \/ dev.buffer.total_size = 0)
                            /\ r # << >> =>
                                 /\ r[1] = IF sought[c] THEN Oldest + dev.seekto_position ELSE Oldest
                                 /\ dev.buffer.out_offs = 0 /\ ExactReads(r[1]) => r[Len(r)] = committed - 1
      BY DEF ReplyCorrect
    <2>1. Sent(c)
      BY DEF ReplyInv, ClientReply
    <2>2. ASSUME reply[c] # << >>, dev.buffer.out_offs = 0, ExactReads(reply[c][1])
          PROVE  reply[c][Len(reply[c])] = committed - 1
      <3>1. AtNewest(dev.buffer, committed, reply[c][1], Oldest, reply[c][Len(reply[c])])
        BY <2>1, <2>2 DEF Sent
      <3>2. dev.buffer.total_size < BufSize \/ Whole(dev.buffer, committed, reply[c][1] - Oldest)
        BY <2>2, WholeIs DEF ExactReads
      <3> QED BY <2>2, <3>1, <3>2 DEF AtNewest
    <2> QED BY <2>1, <2>2 DEF Sent, Gapless, FirstByte
  <1> QED BY <1>1, DeviceInvariant, StreamsHold, ReplyInvariant, PTL
=============================================================================
