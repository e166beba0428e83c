---------------------------- MODULE AesdSocket ----------------------------
(***************************************************************************)
(* The aesdsocket server (server/aesdsocket.c) on top of the aesdchar      *)
(* device: the main thread with its accept and join loop, one thread per   *)
(* connection, the mutex and the descriptors they share, the signal        *)
(* handler, the shutdown, and servers started one after another on the     *)
(* same device.                                                            *)
(*                                                                         *)
(* A client makes one connection, so a client also names its connection    *)
(* and the thread that serves it.  The threads reach the device one at a   *)
(* time, under the mutex; other programs may use it between their calls.   *)
(* A device call is one step here: AesdChar has the steps inside the calls *)
(* and shows that calls take effect one at a time, except a flush by one   *)
(* process during another one's write.                                     *)
(***************************************************************************)
EXTENDS CircularBuffer

CONSTANTS Clients,
          Free,       \* the mutex has no owner
          Messages,   \* what a recv returns: see MessageTypes
          MaxParts,   \* bound on a client's chunks without a newline
          BufSize,    \* BUF_SIZE
          Signals,    \* the signals sent to the process
          Faults,     \* where system calls fail: "thread", "main"
          Junk,       \* what an uninitialised slot of the device may hold
          MaxStarts,  \* how often the server is started
          MaxFiles,   \* descriptors the process may have open
          Outside,    \* what other programs do with the device
          MaxOutside  \* bound on their calls

(* A chunk has a size, and tells whether a newline is in it and whether it *)
(* ends in one.  "seek": AESDCHAR_IOCSEEKTO:cmd,off.  "close": recv        *)
(* returns 0.  A seek to a command the device cannot hold, or one that is  *)
(* not well formed, is left out.                                           *)
MessageTypes ==
  [kind : {"chunk"}, size : Nat \ {0}, has_nl : BOOLEAN, ends_nl : BOOLEAN]
    \cup [kind : {"seek"}, cmd : 0 .. N, off : Nat]
    \cup [kind : {"close"}]

ASSUME ServerAssumption ==
  /\ Free \notin Clients
  /\ Messages \subseteq MessageTypes
  /\ MaxParts \in Nat
  /\ BufSize \in Nat \ {0}
  /\ Signals \subseteq {"SIGINT", "SIGTERM", "SIGALRM"}
  /\ Faults \subseteq {"thread", "main"}
  /\ Junk \subseteq Entries(Nat)
  /\ MaxStarts \in Nat \ {0} /\ MaxFiles \in Nat
  /\ Outside \subseteq {"write", "read", "flush"} /\ MaxOutside \in Nat

VARIABLES
  \* the main thread: where it is, its counter, the thread list, and what
  \* SLIST_FOREACH_SAFE has still to visit
  main, counter, list, todo,
  caught_a_signal, thread_complete_success,
  \* the connection threads, the mutex, and those told to cancel
  thread, mutex, cancelled,
  \* descriptors open in the process: connections and device files
  files,
  \* of a thread: chunks received without a newline, the position of the
  \* file it returns from, the bytes returned, whether a seek was applied
  parts, f_pos, reply, sought,
  \* the device
  dev,
  \* history: bytes committed, whose chunks the device got, connections
  \* accepted after a signal, threads joined, servers started, seek
  \* commands served, calls from outside, whether there was one since the
  \* mutex was locked
  committed, arrivals, late, joined, starts, seeks, outside, disturbed

loop    == <<counter, list, todo, caught_a_signal>>
flags   == <<thread_complete_success, cancelled>>
local   == <<parts, f_pos, reply, sought>>
threads == <<thread, mutex, flags, files, local>>
device  == <<dev, committed, arrivals>>
others  == <<outside, disturbed>>
history == <<late, joined, starts, seeks, others>>
vars == <<main, loop, threads, device, history>>

MainLabels == {"signals", "socket", "listen", "accept", "joins", "join", "test", "after", "shutdown", "exited"}
Critical   == {"recv", "open", "send", "unlock"}
(* "gone": the process ended before the connection was served. *)
ThreadLabels == {"away", "waiting", "start", "close", "done", "cancelled", "gone"} \cup Critical

Devices == [buffer : Buffers(Nat), partial : BOOLEAN, partial_size : Nat,
            seek : BOOLEAN, seekto_position : Nat]

TypeOK ==
  /\ main \in MainLabels /\ counter \in Nat
  /\ list \in Seq(Clients) /\ todo \in Seq(Clients)
  /\ caught_a_signal \in BOOLEAN
  /\ thread_complete_success \in [Clients -> BOOLEAN]
  /\ thread \in [Clients -> ThreadLabels]
  /\ mutex \in Clients \cup {Free} /\ cancelled \subseteq Clients
  /\ parts \in [Clients -> 0 .. MaxParts] /\ f_pos \in [Clients -> Nat]
  /\ reply \in [Clients -> Seq(Nat)] /\ sought \in [Clients -> BOOLEAN]
  /\ dev \in Devices
  /\ committed \in Nat /\ arrivals \in Seq(Clients)
  /\ late \in Nat /\ joined \subseteq Clients /\ starts \in 1 .. MaxStarts
  /\ files \in 0 .. MaxFiles /\ seeks \in Nat
  /\ outside \in 0 .. MaxOutside /\ disturbed \in BOOLEAN

Init ==
  /\ main = "signals" /\ counter = 0 /\ list = << >> /\ todo = << >>
  /\ caught_a_signal = FALSE
  /\ thread_complete_success = [c \in Clients |-> FALSE]
  /\ thread = [c \in Clients |-> "away"]
  /\ mutex = Free /\ cancelled = {}
  /\ parts = [c \in Clients |-> 0] /\ f_pos = [c \in Clients |-> 0]
  /\ reply = [c \in Clients |-> << >>] /\ sought = [c \in Clients |-> FALSE]
  /\ \E junk \in [Slots -> Junk] :
       dev = [buffer |-> aesd_circular_buffer_init(junk), partial |-> FALSE,
              partial_size |-> 0, seek |-> FALSE, seekto_position |-> 0]
  /\ committed = 0 /\ arrivals = << >>
  /\ late = 0 /\ joined = {} /\ starts = 1
  /\ files = 0 /\ seeks = 0 /\ outside = 0 /\ disturbed = FALSE

-----------------------------------------------------------------------------
(* The device's calls, run to completion *)

(* aesd_write.  What a write sees at the end of a command it has merged is *)
(* in freed memory.                                                        *)
EndsCommand(m) == IF dev.partial THEN BOOLEAN ELSE {m.ends_nl}

WriteDevice(m, ends) ==
  LET size == m.size + (IF dev.partial THEN dev.partial_size ELSE 0)
      e    == [buffptr |-> committed, size |-> size]
  IN  IF ends
      THEN /\ dev' = [dev EXCEPT !.partial = FALSE,
                                 !.buffer = aesd_circular_buffer_add_entry(@, e)]
           /\ committed' = committed + size
      ELSE /\ dev' = [dev EXCEPT !.partial = TRUE, !.partial_size = size]
           /\ UNCHANGED committed

(* *f_pos += read_count *)
NewPos_Unmoved(from, n) == from
NewPos(from, n) == from + n

(* aesd_read: the position is compared with the end before a pending seek  *)
(* is applied.                                                             *)
ReadDevice(pos, count) ==
  LET applied == dev.seek /\ pos < dev.buffer.total_size
      from == IF applied THEN dev.seekto_position ELSE pos
      data == IF pos < dev.buffer.total_size /\ from < dev.buffer.total_size
              THEN read_entries(dev.buffer, from, count) ELSE << >>
  IN  [data |-> data, pos |-> NewPos(from, Len(data)), applied |-> applied]

(* AESDCHAR_IOCSEEKTO. *)
SeekDevice(m) ==
  dev' = [dev EXCEPT !.seek = TRUE, !.seekto_position = seekto_fpos(dev.buffer, m.cmd, m.off)]

-----------------------------------------------------------------------------
(* Connection threads: accept_connection_thread *)

Running == main # "exited"

Goto(c, label) == thread' = [thread EXCEPT ![c] = label]

(* exit(-1), or a crash, in any thread ends the process. *)
Exit == main' = "exited"

(* open and close of a descriptor. *)
Open  == files < MaxFiles /\ files' = files + 1
ClosesFile_Never(n) == n
ClosesFile(n) == n - 1

(* pthread_mutex_lock, and the open at the start of recieve_socket_data.   *)
Lockable_Always == TRUE
Lockable == mutex = Free
Lock(c) ==
  /\ Running /\ thread[c] = "start"
  /\ Lockable
  /\ mutex' = c
  /\ Open
  /\ Goto(c, "recv")
  /\ disturbed' = FALSE
  /\ UNCHANGED <<main, loop, flags, local, device, late, joined, starts, seeks, outside>>

(* When the receive loop of recieve_socket_data ends. *)
LoopEnds(m) == m.has_nl

(* recv and write of one chunk. *)
ReceiveChunk(c, m) ==
  /\ Running /\ thread[c] = "recv" /\ m.kind = "chunk"
  /\ m.has_nl \/ parts[c] < MaxParts
  /\ \E ends \in EndsCommand(m) : WriteDevice(m, ends)
  /\ arrivals' = Append(arrivals, c)
  /\ IF LoopEnds(m)
     THEN Goto(c, "open") /\ parts' = [parts EXCEPT ![c] = 0] /\ files' = files - 1
     ELSE parts' = [parts EXCEPT ![c] = @ + 1] /\ UNCHANGED <<thread, files>>
  /\ UNCHANGED <<main, loop, mutex, flags, f_pos, reply, sought, history>>

(* A seek command is the last thing received.  The device file stays open. *)
ReceiveSeek(c, m) ==
  /\ Running /\ thread[c] = "recv" /\ m.kind = "seek"
  /\ SeekDevice(m)
  /\ Goto(c, "open")
  /\ parts' = [parts EXCEPT ![c] = 0]
  /\ seeks' = seeks + 1
  /\ UNCHANGED <<main, loop, mutex, flags, files, f_pos, reply, sought, committed, arrivals,
                 late, joined, starts, others>>

(* recv returns 0: strtok of the empty string returns NULL, which strcmp   *)
(* dereferences.                                                           *)
ReceiveClose(c, m) ==
  /\ Running /\ thread[c] = "recv" /\ m.kind = "close"
  /\ Exit
  /\ UNCHANGED <<loop, threads, device, history>>

(* The open at the start of return_socket_data: a file with a position of  *)
(* its own.                                                                *)
OpenReply(c) ==
  /\ Running /\ thread[c] = "open"
  /\ Open
  /\ Goto(c, "send")
  /\ UNCHANGED <<main, loop, mutex, flags, local, device, history>>

(* Whether the loop of return_socket_data goes on. *)
ReadOn_Never(n) == FALSE
ReadOn(n) == n = BufSize

(* read and send of one buffer.  A position in a reply is one in the       *)
(* stream of everything committed.                                         *)
ReturnData(c) ==
  LET r == ReadDevice(f_pos[c], BufSize)
  IN  /\ Running /\ thread[c] = "send"
      /\ f_pos' = [f_pos EXCEPT ![c] = r.pos]
      /\ reply' = [reply EXCEPT ![c] = @ \o [j \in DOMAIN r.data |-> r.data[j][1] + r.data[j][2]]]
      /\ sought' = [sought EXCEPT ![c] = @ \/ r.applied]
      /\ dev' = [dev EXCEPT !.seek = @ /\ ~r.applied]
      /\ Goto(c, IF ReadOn(Len(r.data)) THEN "send" ELSE "unlock")
      /\ files' = IF ReadOn(Len(r.data)) THEN files ELSE ClosesFile(files)
      /\ UNCHANGED <<main, loop, mutex, flags, parts, committed, arrivals, history>>

(* pthread_mutex_unlock.  The reply is complete; forgetting it here keeps  *)
(* the states few.                                                         *)
Unlocked_Never == mutex
Unlocked == Free
Unlock(c) ==
  /\ Running /\ thread[c] = "unlock"
  /\ Goto(c, "close")
  /\ mutex' = Unlocked
  /\ reply' = [reply EXCEPT ![c] = << >>]
  /\ f_pos' = [f_pos EXCEPT ![c] = 0]
  /\ sought' = [sought EXCEPT ![c] = FALSE]
  /\ UNCHANGED <<main, loop, flags, files, parts, device, history>>

(* shutdown, close; the thread ends. *)
Close(c) ==
  /\ Running /\ thread[c] = "close"
  /\ Goto(c, "done")
  /\ thread_complete_success' = [thread_complete_success EXCEPT ![c] = TRUE]
  /\ files' = files - 1
  /\ UNCHANGED <<main, loop, mutex, cancelled, local, device, history>>

(* Where the process needs one more descriptor. *)
ThreadOpens(c) == thread[c] = "open" \/ (thread[c] = "start" /\ mutex = Free)
MainOpens == main = "accept" /\ \E c \in Clients : thread[c] = "waiting"
OutOfFiles == files = MaxFiles

(* A failing lock, open, recv, write, ioctl, read, send or unlock: the     *)
(* thread calls exit(-1).  After some of them it unlocks the mutex first;  *)
(* what another thread may do between that and the exit is left out.       *)
ThreadFails(c) ==
  /\ Running
  /\ "thread" \in Faults /\ thread[c] \in {"start"} \cup Critical
  /\ Exit
  /\ UNCHANGED <<loop, threads, device, history>>

(* An open that finds no descriptor. *)
ThreadExhausts(c) ==
  /\ Running
  /\ ThreadOpens(c) /\ OutOfFiles
  /\ Exit
  /\ UNCHANGED <<loop, threads, device, history>>

(* A cancelled thread ends at its next cancellation point.  The mutex is   *)
(* not released.                                                           *)
ThreadCancelled(c) ==
  /\ Running /\ c \in cancelled
  /\ thread[c] \in {"start", "close"} \cup Critical
  /\ Goto(c, "cancelled")
  /\ UNCHANGED <<main, loop, mutex, flags, files, local, device, history>>

-----------------------------------------------------------------------------
(* The main thread *)

(* sigaction for the three signals. *)
set_signal_handling ==
  /\ main = "signals" /\ main' = "socket"
  /\ UNCHANGED <<loop, threads, device, history>>

(* socket, bind, and with -d a fork whose parent exits. *)
open_socket ==
  /\ main = "socket" /\ main' = "listen"
  /\ UNCHANGED <<loop, threads, device, history>>

(* A client is in the queue of the socket once listen has been called.     *)
Connect(c) ==
  /\ main \notin {"signals", "socket", "exited"} /\ (main = "listen" => counter > 0)
  /\ thread[c] = "away"
  /\ Goto(c, "waiting")
  /\ UNCHANGED <<main, loop, mutex, flags, files, local, device, history>>

(* listen, and everything up to the call of accept. *)
Listen ==
  /\ main = "listen" /\ main' = "accept"
  /\ UNCHANGED <<loop, threads, device, history>>

(* From which connection on the thread list is walked. *)
WalksList_Later(n) == n > 2
WalksList(n) == n > 1

(* SLIST_INSERT_HEAD. *)
Inserted(s, c) == <<c>> \o s

(* accept, pthread_create and the insertion. *)
Accept(c) ==
  /\ main = "accept" /\ thread[c] = "waiting"
  /\ Open
  /\ Goto(c, "start")
  /\ thread_complete_success' = [thread_complete_success EXCEPT ![c] = FALSE]
  /\ list' = Inserted(list, c)
  /\ counter' = counter + 1
  /\ IF WalksList(counter + 1)
     THEN main' = "joins" /\ todo' = Inserted(list, c)
     ELSE main' = "test" /\ UNCHANGED todo
  /\ late' = late + (IF caught_a_signal THEN 1 ELSE 0)
  /\ UNCHANGED <<caught_a_signal, mutex, cancelled, local, device, joined, starts, seeks, others>>

(* "if (datap->tdata->thread_complete_success = true)" sets the flag, and  *)
(* so finds it set.                                                        *)
JoinTest ==
  /\ main = "joins"
  /\ IF todo = << >>
     THEN main' = "test" /\ UNCHANGED thread_complete_success
     ELSE main' = "join" /\ thread_complete_success' =
                              [thread_complete_success EXCEPT ![Head(todo)] = TRUE]
  /\ UNCHANGED <<loop, thread, mutex, cancelled, files, local, device, history>>

(* SLIST_REMOVE: the entry is looked up from the head and unlinked. *)
Removed_Kept(s, c) == s
Removed(s, c) ==
  LET i == CHOOSE i \in DOMAIN s : s[i] = c
  IN  SubSeq(s, 1, i - 1) \o SubSeq(s, i + 1, Len(s))

(* pthread_join waits until the thread has ended. *)
Join ==
  LET c == Head(todo)
  IN  /\ main = "join" /\ thread[c] = "done"
      /\ main' = "joins"
      /\ todo' = Tail(todo)
      /\ list' = Removed(list, c)
      /\ joined' = joined \cup {c}
      /\ UNCHANGED <<counter, caught_a_signal, threads, device, late, starts, seeks, others>>

(* while (!caught_a_signal) *)
AfterTest_Ignored == "listen"
AfterTest == IF caught_a_signal THEN "after" ELSE "listen"
LoopTest ==
  /\ main = "test" /\ main' = AfterTest
  /\ UNCHANGED <<loop, threads, device, history>>

(* A signal: the handler runs, on the main thread, and an accept that is   *)
(* blocked returns EINTR, which leaves the loop whatever the signal was.   *)
(* Before the handlers are installed a signal kills the process.           *)
AfterSignal == CASE main = "accept" -> "after" [] main = "signals" -> "exited" [] OTHER -> main
Signal(s) ==
  /\ Running
  /\ caught_a_signal' = (caught_a_signal \/ (main # "signals" /\ s \in {"SIGINT", "SIGTERM"}))
  /\ main' = AfterSignal
  /\ UNCHANGED <<counter, list, todo, threads, device, history>>

(* After the loop: shut down if it was SIGINT or SIGTERM, exit in any case. *)
AfterLoop ==
  /\ main = "after"
  /\ main' = IF caught_a_signal THEN "shutdown" ELSE "exited"
  /\ UNCHANGED <<loop, threads, device, history>>

(* sigaction, pthread_mutex_init, a call of open_socket or fork fails. *)
StartFails ==
  /\ "main" \in Faults /\ main \in {"signals", "socket"}
  /\ Exit
  /\ UNCHANGED <<loop, threads, device, history>>

(* listen, accept or pthread_create fails. *)
MainFails ==
  /\ \/ "main" \in Faults /\ main \in {"listen", "accept"}
     \/ MainOpens /\ OutOfFiles
  /\ main' = "shutdown"
  /\ UNCHANGED <<loop, threads, device, history>>

(* SLIST_REMOVE_HEAD. *)
RestOfList_All == list
RestOfList == Tail(list)

(* graceful_socket_shutdown: cancel the threads of the list one by one,    *)
(* close the socket and exit.                                              *)
graceful_socket_shutdown ==
  /\ main = "shutdown"
  /\ IF list = << >>
     THEN Exit /\ UNCHANGED <<list, cancelled>>
     ELSE cancelled' = cancelled \cup {Head(list)} /\ list' = RestOfList /\ UNCHANGED main
  /\ UNCHANGED <<counter, todo, caught_a_signal, thread_complete_success, thread, mutex, files,
                 local, device, history>>

(* The server is started again.  Connections that were open are gone; the  *)
(* device is as the last server left it.                                   *)
Restart ==
  /\ main = "exited" /\ starts < MaxStarts
  /\ starts' = starts + 1
  /\ main' = "signals" /\ counter' = 0 /\ list' = << >> /\ todo' = << >>
  /\ caught_a_signal' = FALSE
  /\ thread' = [c \in Clients |-> IF thread[c] \in {"away", "done"} THEN thread[c] ELSE "gone"]
  /\ mutex' = Free /\ cancelled' = {}
  /\ parts' = [c \in Clients |-> 0] /\ f_pos' = [c \in Clients |-> 0]
  /\ reply' = [c \in Clients |-> << >>] /\ sought' = [c \in Clients |-> FALSE]
  /\ late' = 0 /\ files' = 0 /\ seeks' = 0
  /\ UNCHANGED <<thread_complete_success, dev, committed, arrivals, joined, others>>

-----------------------------------------------------------------------------
(* Other programs that use the device: echo, cat, flush_test *)

OutsideCall(op) ==
  /\ op \in Outside /\ outside < MaxOutside
  /\ outside' = outside + 1
  /\ disturbed' = TRUE

OutsideWrite ==
  /\ OutsideCall("write")
  /\ \E m \in Messages :
       m.kind = "chunk" /\ \E ends \in EndsCommand(m) : WriteDevice(m, ends)
  /\ UNCHANGED <<main, loop, threads, arrivals, late, joined, starts, seeks>>

(* A read from the start takes a pending seek away. *)
OutsideRead ==
  /\ OutsideCall("read")
  /\ dev' = [dev EXCEPT !.seek = @ /\ ~ReadDevice(0, BufSize).applied]
  /\ UNCHANGED <<main, loop, threads, committed, arrivals, late, joined, starts, seeks>>

(* aesd_flush takes no lock and may run inside the server's aesd_write;    *)
(* only a flush between two calls is a step here.                          *)
OutsideFlush ==
  /\ OutsideCall("flush")
  /\ dev' = [dev EXCEPT !.buffer = ResetOffsets(@), !.partial = FALSE, !.partial_size = 0,
                         !.seek = FALSE, !.seekto_position = 0]
  /\ UNCHANGED <<main, loop, threads, committed, arrivals, late, joined, starts, seeks>>

-----------------------------------------------------------------------------
Receive(c) ==
  \E m \in Messages : ReceiveChunk(c, m) \/ ReceiveSeek(c, m) \/ ReceiveClose(c, m)

Thread(c) ==
  \/ Lock(c) \/ Receive(c) \/ OpenReply(c) \/ ReturnData(c) \/ Unlock(c) \/ Close(c)
  \/ ThreadFails(c) \/ ThreadExhausts(c) \/ ThreadCancelled(c)

Main ==
  \/ set_signal_handling \/ open_socket
  \/ Listen \/ (\E c \in Clients : Accept(c)) \/ JoinTest \/ Join \/ LoopTest
  \/ AfterLoop \/ StartFails \/ MainFails \/ graceful_socket_shutdown

Outsiders == OutsideWrite \/ OutsideRead \/ OutsideFlush

Next ==
  \/ Main \/ Restart \/ Outsiders
  \/ \E s \in Signals : Signal(s)
  \/ \E c \in Clients : Connect(c) \/ Thread(c)

Spec == Init /\ [][Next]_vars

(* Threads that can run do run, and a client finishes its command and      *)
(* takes its reply.  Weak fairness is enough for the mutex and for accept, *)
(* since each client connects once and so overtakes another only once.     *)
(* ThreadFairness(c) is WF_vars(Serve(c)) with its enabling condition      *)
(* written out, which TLC evaluates much faster than ENABLED.              *)
Serve(c) ==
  Lock(c) \/ Receive(c) \/ OpenReply(c) \/ ReturnData(c) \/ Unlock(c) \/ Close(c) \/ ThreadExhausts(c)

CanServe(c) ==
  Running /\ (thread[c] \in {"recv", "send", "unlock", "close"} \/ ThreadOpens(c))

ThreadFairness(c) == []<>~CanServe(c) \/ []<><<Serve(c)>>_vars

FairSpec ==
  /\ Spec
  /\ WF_vars(set_signal_handling \/ open_socket \/ Listen \/ (\E c \in Clients : Accept(c)) \/ JoinTest \/ Join \/ LoopTest
               \/ AfterLoop \/ MainFails \/ graceful_socket_shutdown)
  /\ \A c \in Clients : ThreadFairness(c)

-----------------------------------------------------------------------------
(* Properties *)

(* Only the thread that holds the mutex is in the code between lock and    *)
(* unlock, and the mutex is left held only by a thread cancelled there.    *)
ServerMutex ==
  Running =>
    \A c \in Clients :
      /\ thread[c] \in Critical => mutex = c
      /\ mutex = c => thread[c] \in Critical \cup {"cancelled"}

(* What a client sends in one connection enters the device in one piece:   *)
(* no chunk of another client comes between two of its chunks, although    *)
(* the commands arrive in pieces and connections overlap.                  *)
ChunksTogether ==
  \A i, j \in DOMAIN arrivals :
    i < j /\ arrivals[i] = arrivals[j] => \A k \in i .. j : arrivals[k] = arrivals[i]

(* The stream position of the oldest byte the device holds. *)
Oldest == LET b == dev.buffer
          IN  IF b.full \/ b.in_offs > 0 THEN b.entry[b.out_offs].buffptr ELSE committed

(* When the reads of a reply are exact.  A read that starts inside a       *)
(* command may copy too much (read_helper), unless one buffer has room for *)
(* everything, or all commands are as long as the buffer and the reply     *)
(* starts with one of them.                                                *)
WholeCommands(first) ==
  LET b == dev.buffer
      held == {i \in Slots : b.full \/ i < b.in_offs}
  IN  /\ \A i \in held : b.entry[i].size = BufSize
      /\ \E i \in held : first = b.entry[i].buffptr
ExactReads(first) == dev.buffer.total_size < BufSize \/ WholeCommands(first)

(* When a thread is done with its reply the client has been sent a gapless *)
(* piece of what the device holds, from the oldest byte or from the        *)
(* position sought, and, unless the ring has wrapped or a read was not     *)
(* exact, up to the newest byte, and no seek is left pending for the next  *)
(* client, provided nobody outside the server used the device meanwhile:   *)
(* no other thread did, although the reply was read in several buffers.    *)
ReplyCorrect ==
  \A c \in Clients :
    Running /\ thread[c] = "unlock" /\ ~disturbed =>
      LET r == reply[c]
      IN  /\ \A j \in 1 .. Len(r) - 1 : r[j + 1] = r[j] + 1
          /\ (r = << >> \/ dev.seek) => (sought[c] \/ dev.buffer.total_size = 0)
          /\ r # << >> =>
               /\ r[1] = IF sought[c] THEN Oldest + dev.seekto_position ELSE Oldest
               /\ dev.buffer.out_offs = 0 /\ ExactReads(r[1]) => r[Len(r)] = committed - 1

(* Whoever else writes to the device or flushes it between two buffers of  *)
(* a reply, the client gets no byte twice and none out of order.           *)
ReplyForward ==
  \A c \in Clients :
    ~sought[c] => \A j \in 1 .. Len(reply[c]) - 1 : reply[c][j] < reply[c][j + 1]

(* Only seek commands leak descriptors: besides one for every seek command *)
(* the server has at most three open, two connections and one device file, *)
(* however many clients came, because the main thread joins before it      *)
(* accepts a third one and the device is opened under the mutex.           *)
OnlySeeksLeak == Running => files <= 3 + seeks

(* A thread is joined at most once, although the list is walked again for  *)
(* every connection: joining a joined thread is undefined.                 *)
JoinedOnce ==
  /\ main = "join" => Head(todo) \notin joined
  /\ main = "shutdown" => \A i \in DOMAIN list : list[i] \notin joined

(* After SIGINT or SIGTERM the server accepts at most one more connection: *)
(* a signal that arrives between the test of caught_a_signal and accept is *)
(* noticed when accept returns the next time.                              *)
AtMostOneMore == late <= 1

(* No more than two connections are ever served at a time: from the second *)
(* on, the main thread joins before it accepts again.                      *)
AtMostTwoThreads ==
  \A a, b, c \in Clients :
    Running /\ {thread[a], thread[b], thread[c]} \subseteq {"start", "close"} \cup Critical
      => a = b \/ b = c \/ a = c

(* Every client that connects is served, unless the process ends: the main *)
(* thread joining the newest thread, which waits for the mutex, never      *)
(* stops the others for good.                                              *)
EveryClientServed ==
  \A c \in Clients : thread[c] = "waiting" ~> (thread[c] = "done" \/ ~Running)

(* After SIGINT or SIGTERM the process ends, or is in accept with nobody   *)
(* to accept, having missed the signal.                                    *)
SignalEndsServer ==
  caught_a_signal ~> (~Running \/ (main = "accept" /\ \A c \in Clients : thread[c] # "waiting"))

-----------------------------------------------------------------------------
(* What the repository says of the server and the code does not do.        *)

(* "Check the linked list and join any threads that have completed": the   *)
(* main thread never waits in pthread_join.                                *)
JoinsCompleted == main = "join" => thread[Head(todo)] = "done"
=============================================================================
