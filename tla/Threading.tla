----------------------------- MODULE Threading -----------------------------
(***************************************************************************)
(* The threading example (examples/threading): a caller starts threads     *)
(* that wait, take a mutex, hold it for a while and give it back, uses the *)
(* mutex itself, joins the threads and looks at the flag each one leaves.  *)
(* The two sleeps are the times a thread spends before an action here.     *)
(***************************************************************************)
EXTENDS FiniteSets, Naturals

CONSTANTS Threads,
          Caller,   \* the caller, as a user of the mutex
          Free,     \* the mutex has no owner
          Faults    \* which calls fail: "create", "lock", "unlock"

Users == Threads \cup {Caller}

ASSUME ThreadingAssumption ==
  /\ Caller \notin Threads
  /\ Free \notin Users
  /\ Faults \subseteq {"create", "lock", "unlock"}

VARIABLES pc,        \* where a user of the mutex is
          mutex,
          thread_complete_success,
          data,      \* threads whose thread_data is allocated
          returned,  \* threads for which the start function returned true
          failed     \* history: whose calls of each kind failed

vars == <<pc, mutex, thread_complete_success, data, returned, failed>>

(* "holding": between lock and unlock.  A failed lock also leads there. *)
Labels == {"idle", "sleep", "holding", "ended", "joined"}

TypeOK ==
  /\ pc \in [Users -> Labels]
  /\ mutex \in Users \cup {Free}
  /\ thread_complete_success \in [Threads -> BOOLEAN]
  /\ data \subseteq Threads /\ returned \subseteq Threads
  /\ failed \in [{"create", "lock", "unlock"} -> SUBSET Threads]

Init ==
  /\ pc = [u \in Users |-> IF u = Caller THEN "sleep" ELSE "idle"]
  /\ mutex = Free
  /\ thread_complete_success = [t \in Threads |-> FALSE]
  /\ data = {} /\ returned = {}
  /\ failed = [f \in {"create", "lock", "unlock"} |-> {}]

Goto(u, label) == pc' = [pc EXCEPT ![u] = label]
Fails(f, t) == f \in Faults /\ failed' = [failed EXCEPT ![f] = @ \cup {t}]

(* malloc, pthread_create, return true: also when the thread could not be  *)
(* created, and then nobody frees thread_data.                             *)
start_thread_obtaining_mutex(t) ==
  /\ pc[t] = "idle" /\ t \notin returned
  /\ data' = data \cup {t}
  /\ returned' = returned \cup {t}
  /\ thread_complete_success' = [thread_complete_success EXCEPT ![t] = FALSE]
  /\ \/ Goto(t, "sleep") /\ UNCHANGED failed
     \/ Fails("create", t) /\ UNCHANGED pc
  /\ UNCHANGED mutex

(* pthread_mutex_lock.  After a failure the thread goes on without the     *)
(* mutex, as if it had it.                                                 *)
Lockable_Always == TRUE
Lockable == mutex = Free
Lock(u) ==
  /\ pc[u] = "sleep" /\ Lockable
  /\ mutex' = u
  /\ Goto(u, "holding")
  /\ UNCHANGED <<thread_complete_success, data, returned, failed>>

LockFails(t) ==
  /\ pc[t] = "sleep" /\ Fails("lock", t)
  /\ thread_complete_success' = [thread_complete_success EXCEPT ![t] = FALSE]
  /\ Goto(t, "holding")
  /\ UNCHANGED <<mutex, data, returned>>

(* pthread_mutex_unlock of a default mutex frees it whoever owns it. *)
Released_Kept == mutex
Released == Free
Unlock(t) ==
  /\ pc[t] = "holding"
  /\ mutex' = Released
  /\ thread_complete_success' = [thread_complete_success EXCEPT ![t] = TRUE]
  /\ Goto(t, "ended")
  /\ UNCHANGED <<data, returned, failed>>

(* What the flag says after a failed unlock. *)
FlagOnFailure_Set == TRUE
FlagOnFailure == FALSE
UnlockFails(t) ==
  /\ pc[t] = "holding" /\ Fails("unlock", t)
  /\ thread_complete_success' = [thread_complete_success EXCEPT ![t] = FlagOnFailure]
  /\ Goto(t, "ended")
  /\ UNCHANGED <<mutex, data, returned>>

(* The caller's use of the mutex ends. *)
CallerUnlock ==
  /\ pc[Caller] = "holding"
  /\ mutex' = Free
  /\ Goto(Caller, "ended")
  /\ UNCHANGED <<thread_complete_success, data, returned, failed>>

(* The caller joins a thread and frees what it returned. *)
Join(t) ==
  /\ pc[t] = "ended" /\ pc[Caller] # "holding"
  /\ Goto(t, "joined")
  /\ data' = data \ {t}
  /\ UNCHANGED <<mutex, thread_complete_success, returned, failed>>

threadfunc(t) == Lock(t) \/ LockFails(t) \/ Unlock(t) \/ UnlockFails(t)

CallerUses == Lock(Caller) \/ CallerUnlock

Next ==
  \/ CallerUses
  \/ \E t \in Threads : start_thread_obtaining_mutex(t) \/ threadfunc(t) \/ Join(t)

Spec == Init /\ [][Next]_vars

(* The scheduler runs every thread that can run, and the caller gives the  *)
(* mutex back and joins.  Weak fairness is enough for a lock, since nobody *)
(* takes the mutex twice.                                                  *)
FairSpec ==
  /\ Spec
  /\ WF_vars(CallerUses)
  /\ \A t \in Threads : WF_vars(Lock(t) \/ Unlock(t)) /\ WF_vars(Join(t))

-----------------------------------------------------------------------------
(* Properties *)

(* Unless a lock failed, whoever is between lock and unlock owns the       *)
(* mutex, so no two are there, the caller included: an unlock frees the    *)
(* mutex of whoever holds it, and only a thread that failed to lock can    *)
(* free another one's.                                                     *)
HolderOwns == failed["lock"] = {} => \A u \in Users : pc[u] = "holding" => mutex = u

(* A caller that finds every flag set can use the mutex: a thread that     *)
(* ended with the mutex held has its flag unset, also when locks failed    *)
(* and threads freed each other's mutex.                                   *)
SuccessMeansReleased ==
  \A t \in Threads :
    mutex = t /\ pc[t] \in {"ended", "joined"} => ~thread_complete_success[t]

(* Every thread that was created ends and its memory is freed, unless one  *)
(* ended without giving the mutex back.                                    *)
EveryThreadJoined ==
  \A t \in Threads :
    pc[t] = "sleep" ~> ((pc[t] = "joined" /\ t \notin data) \/ failed["unlock"] # {})
=============================================================================
